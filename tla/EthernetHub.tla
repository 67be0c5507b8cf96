----------------------------- MODULE EthernetHub -----------------------------
(***************************************************************************)
(* EthernetHub of ostest/python/network.py: one forwarding thread per port *)
(* reads length-prefixed frames from its participant, records each in the  *)
(* capture file and sends it to every other port.                          *)
(*                                                                         *)
(* A frame is two units on the wire, its length prefix and its payload.    *)
(* sendall moves as many units as the socket buffer has room for and waits *)
(* for more room with the packet half sent; no lock is held meanwhile.     *)
(* A record of the capture file is two writes as well, a header and the    *)
(* frame, under a lock of the threads that close() does not take.          *)
(* The owner is the test's thread, which adds ports and closes the hub.    *)
(***************************************************************************)
EXTENDS Integers, Sequences, FiniteSets

CONSTANTS Port,          \* the ports of the hub
          Budget,        \* bound on the frames each participant sends
          Leavers,       \* the participants that may close their end
          Room           \* units a socket buffer holds

ASSUME HubAssumption ==
    /\ Budget \in [Port -> Nat]
    /\ Leavers \subseteq Port
    /\ Room \in Nat \ {0}

None == "none"           \* no destination, no frame

VARIABLES
    owner,           \* "running", "closing", "joining" or "closed"
    connections,     \* _connections, by port
    hubEnd, peerEnd, \* the two sockets of a port: "none", "open" or "closed"
    thread,          \* where the forwarding thread of a port is
    frame,           \* the frame a thread forwards
    destinations,    \* the destinations it has still to serve
    target, left,    \* the one it sends to, and the units left to send
    up, down,        \* frames towards the hub, units towards the participant
    partial,         \* units a participant has read of its next frame
    received,        \* frames a participant has received
    sent,            \* frames a participant has sent
    pcapFile,        \* _pcap: "open", "closed", or "none" once it is reset
    pcap, half       \* the file's whole records, and a header without its frame

ownerVars == <<owner, pcapFile>>
captureVars == <<pcap, half>>
socketVars == <<connections, hubEnd, peerEnd>>
threadVars == <<thread, frame, destinations, target, left>>
trafficVars == <<up, down, partial, received, sent>>
vars == <<ownerVars, socketVars, threadVars, trafficVars, captureVars>>

Frame == [source : Port, number : Nat \ {0}]
Corrupt == [source |-> None, number |-> 0]
Unit == [of : Frame, part : 1..2]
Units(f) == <<[of |-> f, part |-> 1], [of |-> f, part |-> 2]>>

Init ==
    /\ owner = "running" /\ pcapFile = "open" /\ pcap = <<>> /\ half = Corrupt
    /\ connections = {}
    /\ hubEnd = [p \in Port |-> "none"] /\ peerEnd = [p \in Port |-> "none"]
    /\ thread = [p \in Port |-> "none"]
    /\ frame = [p \in Port |-> Corrupt]
    /\ destinations = [p \in Port |-> {}]
    /\ target = [p \in Port |-> None] /\ left = [p \in Port |-> <<>>]
    /\ up = [p \in Port |-> <<>>] /\ down = [p \in Port |-> <<>>]
    /\ partial = [p \in Port |-> <<>>]
    /\ received = [p \in Port |-> <<>>]
    /\ sent = [p \in Port |-> 0]

-----------------------------------------------------------------------------
(***************************************************************************)
(* The owner.                                                              *)
(***************************************************************************)

\* _new_port
NewPort(p) ==
    /\ owner = "running" /\ hubEnd[p] = "none"
    /\ hubEnd' = [hubEnd EXCEPT ![p] = "open"]
    /\ peerEnd' = [peerEnd EXCEPT ![p] = "open"]
    /\ connections' = connections \cup {p}
    /\ thread' = [thread EXCEPT ![p] = "receive"]
    /\ UNCHANGED <<ownerVars, frame, destinations, target, left, trafficVars, captureVars>>

\* close() up to the end of the locked section.
Close ==
    /\ owner = "running"
    /\ owner' = "closing"
    /\ connections' = {}
    /\ UNCHANGED <<pcapFile, hubEnd, peerEnd, threadVars, trafficVars, captureVars>>

\* shutdown and close of both sockets of one port.
CloseConnection(p) ==
    /\ owner = "closing"
    /\ hubEnd[p] = "open" \/ peerEnd[p] = "open"
    /\ hubEnd' = [hubEnd EXCEPT ![p] = "closed"]
    /\ peerEnd' = [peerEnd EXCEPT ![p] = "closed"]
    /\ UNCHANGED <<ownerVars, connections, threadVars, trafficVars, captureVars>>

JoinThreads ==
    /\ owner = "closing"
    /\ \A p \in Port : hubEnd[p] # "open" /\ peerEnd[p] # "open"
    /\ owner' = "joining"
    /\ UNCHANGED <<pcapFile, socketVars, threadVars, trafficVars, captureVars>>

\* join(timeout=1) gives up on a slow thread, so this needs no thread to have ended,
\* nor does it take _capture_lock.
ClosePcap ==
    /\ owner = "joining" /\ pcapFile = "open"
    /\ pcapFile' = "closed"
    /\ UNCHANGED <<owner, socketVars, threadVars, trafficVars, captureVars>>

FinishClose ==
    /\ owner = "joining" /\ pcapFile = "closed"
    /\ owner' = "closed" /\ pcapFile' = "none"
    /\ UNCHANGED <<socketVars, threadVars, trafficVars, captureVars>>

-----------------------------------------------------------------------------
(***************************************************************************)
(* _forward_from: the thread of port p.                                    *)
(***************************************************************************)
Step(p, from, to) == thread[p] = from /\ thread' = [thread EXCEPT ![p] = to]

ReceiveFrame(p) ==
    /\ hubEnd[p] = "open" /\ up[p] # <<>>
    /\ Step(p, "receive", "capture")
    /\ frame' = [frame EXCEPT ![p] = Head(up[p])]
    /\ up' = [up EXCEPT ![p] = Tail(up[p])]
    /\ UNCHANGED <<ownerVars, socketVars, destinations, target, left, down, partial,
                   received, sent, captureVars>>

\* Mutant: only the participant's end of file ends the loop, no error does.
ReceiveEnds_EofOnly(p) ==
    /\ peerEnd[p] = "closed" /\ up[p] = <<>>
    /\ Step(p, "receive", "remove")
    /\ UNCHANGED <<ownerVars, socketVars, frame, destinations, target, left, trafficVars, captureVars>>

\* EOFError or OSError ends the loop.
ReceiveEnds(p) ==
    /\ hubEnd[p] # "open" \/ (peerEnd[p] = "closed" /\ up[p] = <<>>)
    /\ Step(p, "receive", "remove")
    /\ UNCHANGED <<ownerVars, socketVars, frame, destinations, target, left, trafficVars, captureVars>>

\* Mutant: a frame that nobody listens to yet is not recorded.
Capture_IfHeard(p) ==
    /\ Step(p, "capture", IF pcapFile = "none" \/ connections = {p} THEN "snapshot" ELSE "header")
    /\ UNCHANGED <<ownerVars, socketVars, frame, destinations, target, left, trafficVars,
                   captureVars>>

\* _capture: the test of _pcap, before the lock.
Capture(p) ==
    /\ Step(p, "capture", IF pcapFile = "none" THEN "snapshot" ELSE "header")
    /\ UNCHANGED <<ownerVars, socketVars, frame, destinations, target, left, trafficVars,
                   captureVars>>

\* The thread of p holds _capture_lock.
HoldsLock(p) == thread[p] \in {"payload", "flush"}

\* The three calls made with the lock held.  On a file that close() has closed or
\* reset they raise ValueError or AttributeError, which only the finally clause sees.
WriteHeader(p) ==
    /\ \A q \in Port : ~HoldsLock(q)
    /\ Step(p, "header", IF pcapFile = "open" THEN "payload" ELSE "remove")
    /\ half' = IF pcapFile = "open" THEN frame[p] ELSE half
    /\ UNCHANGED <<ownerVars, socketVars, frame, destinations, target, left, trafficVars, pcap>>

WritePayload(p) ==
    /\ Step(p, "payload", IF pcapFile = "open" THEN "flush" ELSE "remove")
    /\ pcap' = IF pcapFile = "open" THEN Append(pcap, frame[p]) ELSE pcap
    /\ half' = IF pcapFile = "open" THEN Corrupt ELSE half
    /\ UNCHANGED <<ownerVars, socketVars, frame, destinations, target, left, trafficVars>>

Flush(p) ==
    /\ Step(p, "flush", IF pcapFile = "open" THEN "snapshot" ELSE "remove")
    /\ UNCHANGED <<ownerVars, socketVars, frame, destinations, target, left, trafficVars,
                   captureVars>>

\* Mutant: the source is one of the destinations.
Snapshot_Echo(p) ==
    /\ Step(p, "snapshot", "send")
    /\ destinations' = [destinations EXCEPT ![p] = connections]
    /\ UNCHANGED <<ownerVars, socketVars, frame, target, left, trafficVars, captureVars>>

Snapshot(p) ==
    /\ Step(p, "snapshot", "send")
    /\ destinations' = [destinations EXCEPT ![p] = connections \ {p}]
    /\ UNCHANGED <<ownerVars, socketVars, frame, target, left, trafficVars, captureVars>>

\* The next destination of the loop, in the arbitrary order of a set.
NextDestination(p, d) ==
    /\ Step(p, "send", "sendall")
    /\ d \in destinations[p]
    /\ destinations' = [destinations EXCEPT ![p] = @ \ {d}]
    /\ target' = [target EXCEPT ![p] = d]
    /\ left' = [left EXCEPT ![p] = Units(frame[p])]
    /\ UNCHANGED <<ownerVars, socketVars, frame, trafficVars, captureVars>>

\* Mutant: the next frame is read before every destination is served.
LoopAgain_Early(p) ==
    /\ Step(p, "send", "receive")
    /\ UNCHANGED <<ownerVars, socketVars, frame, destinations, target, left, trafficVars, captureVars>>

LoopAgain(p) ==
    /\ Step(p, "send", "receive")
    /\ destinations[p] = {}
    /\ UNCHANGED <<ownerVars, socketVars, frame, destinations, target, left, trafficVars, captureVars>>

\* What sendall can send of the packet right now: up to the room there is.
Portion(p) ==
    LET room == Room - Len(down[target[p]])
    IN  IF room < Len(left[p]) THEN room ELSE Len(left[p])

\* One round of sendall; the call returns after the last unit.
SendSome(p) ==
    /\ thread[p] = "sendall"
    /\ LET d == target[p]
           n == Portion(p)
       IN  /\ hubEnd[d] = "open" /\ peerEnd[d] = "open"
           /\ n > 0
           /\ down' = [down EXCEPT ![d] = @ \o SubSeq(left[p], 1, n)]
           /\ left' = [left EXCEPT ![p] = SubSeq(@, n + 1, Len(@))]
           /\ thread' = [thread EXCEPT ![p] = IF n = Len(left[p]) THEN "send" ELSE @]
    /\ UNCHANGED <<ownerVars, socketVars, frame, destinations, target, up, partial,
                   received, sent, captureVars>>

\* A send to a participant that has closed is dropped, or fails with OSError and
\* removes the destination; a send on a closed hub socket always fails.
SendFails(p) ==
    /\ Step(p, "sendall", "send")
    /\ LET d == target[p]
       IN  /\ hubEnd[d] = "closed" \/ peerEnd[d] = "closed"
           /\ \/ /\ connections' = connections \ {d}
                 /\ hubEnd' = [hubEnd EXCEPT ![d] = "closed"]
              \/ /\ hubEnd[d] = "open"
                 /\ UNCHANGED <<connections, hubEnd>>
    /\ UNCHANGED <<ownerVars, peerEnd, frame, destinations, target, left, trafficVars, captureVars>>

\* finally: _remove(source)
RemoveSource(p) ==
    /\ Step(p, "remove", "ended")
    /\ connections' = connections \ {p}
    /\ hubEnd' = [hubEnd EXCEPT ![p] = "closed"]
    /\ UNCHANGED <<ownerVars, peerEnd, frame, destinations, target, left, trafficVars, captureVars>>

Forward(p) ==
    \/ ReceiveFrame(p) \/ ReceiveEnds(p)
    \/ Capture(p) \/ WriteHeader(p) \/ WritePayload(p) \/ Flush(p) \/ Snapshot(p)
    \/ \E d \in Port : NextDestination(p, d)
    \/ LoopAgain(p) \/ SendSome(p) \/ SendFails(p) \/ RemoveSource(p)

-----------------------------------------------------------------------------
(***************************************************************************)
(* The participants: EthernetEndpoint, or a QEMU with a socket NIC.        *)
(***************************************************************************)
Send(p) ==
    /\ peerEnd[p] = "open" /\ sent[p] < Budget[p]
    /\ sent' = [sent EXCEPT ![p] = @ + 1]
    /\ up' = [up EXCEPT ![p] = Append(@, [source |-> p, number |-> sent[p] + 1])]
    /\ UNCHANGED <<ownerVars, socketVars, threadVars, down, partial, received, captureVars>>

\* The frame a participant makes of the two units it reads.
Assemble(units) ==
    IF units[1].part = 1 /\ units[2].part = 2 /\ units[1].of = units[2].of
      THEN units[1].of ELSE Corrupt

Receive(p) ==
    /\ peerEnd[p] = "open" /\ down[p] # <<>>
    /\ LET units == Append(partial[p], Head(down[p]))
       IN  IF Len(units) < 2
             THEN partial' = [partial EXCEPT ![p] = units] /\ UNCHANGED received
             ELSE /\ partial' = [partial EXCEPT ![p] = <<>>]
                  /\ received' = [received EXCEPT ![p] = Append(@, Assemble(units))]
    /\ down' = [down EXCEPT ![p] = Tail(@)]
    /\ UNCHANGED <<ownerVars, socketVars, threadVars, up, sent, captureVars>>

Leave(p) ==
    /\ p \in Leavers /\ peerEnd[p] = "open"
    /\ peerEnd' = [peerEnd EXCEPT ![p] = "closed"]
    /\ UNCHANGED <<ownerVars, connections, hubEnd, threadVars, trafficVars, captureVars>>

\* The owner needs nothing more of a closed hub.
Stopped == owner = "closed" /\ UNCHANGED vars

Next ==
    \/ Close \/ JoinThreads \/ ClosePcap \/ FinishClose
    \/ \E p \in Port : \/ NewPort(p) \/ CloseConnection(p) \/ Forward(p)
                       \/ Send(p) \/ Receive(p) \/ Leave(p)
    \/ Stopped

\* The threads run, and close() runs once it has begun; nothing is assumed of the
\* participants.
Spec ==
    /\ Init /\ [][Next]_vars
    /\ \A p \in Port : WF_vars(Forward(p)) /\ WF_vars(CloseConnection(p))
    /\ WF_vars(JoinThreads \/ ClosePcap \/ FinishClose)

-----------------------------------------------------------------------------
(***************************************************************************)
(* Properties.                                                             *)
(***************************************************************************)
Got(p) == {received[p][i] : i \in DOMAIN received[p]}

\* Type invariant.
TypeOK ==
    /\ owner \in {"running", "closing", "joining", "closed"}
    /\ pcapFile \in {"open", "closed", "none"}
    /\ connections \subseteq Port
    /\ {hubEnd, peerEnd} \subseteq [Port -> {"none", "open", "closed"}]
    /\ thread \in [Port -> {"none", "receive", "capture", "header", "payload", "flush",
                            "snapshot", "send", "sendall", "remove", "ended"}]
    /\ frame \in [Port -> Frame \cup {Corrupt}]
    /\ destinations \in [Port -> SUBSET Port]
    /\ target \in [Port -> Port \cup {None}] /\ left \in [Port -> Seq(Unit)]
    /\ up \in [Port -> Seq(Frame)]
    /\ down \in [Port -> Seq(Unit)] /\ \A p \in Port : Len(down[p]) <= Room
    /\ partial \in [Port -> Seq(Unit)]
    /\ received \in [Port -> Seq(Frame \cup {Corrupt})]
    /\ sent \in [Port -> Nat]
    /\ pcap \in Seq(Frame) /\ half \in Frame \cup {Corrupt}

\* Every frame a participant reads from the hub is one that some participant sent:
\* packets of different forwarding threads do not mix on a destination's socket.
FramesIntact == \A p \in Port : Corrupt \notin Got(p)

\* A port sees no frame of its own, no frame twice, and the frames of each other
\* port in the order they were sent with none missing in between.
InOrderOnce ==
    \A p \in Port :
        /\ \A i, j \in DOMAIN received[p] :
               (i < j /\ received[p][i].source = received[p][j].source)
                   => received[p][i].number < received[p][j].number
        /\ \A f \in Got(p) \ {Corrupt} :
               /\ f.source # p
               /\ \A g \in Got(p) : \A n \in (f.number + 1)..(g.number - 1) :
                      g.source = f.source => [source |-> f.source, number |-> n] \in Got(p)

\* The capture file is a faithful record.  It holds every frame that reached a
\* participant, whole and once, in whatever order the threads write, and while the file
\* is open the header in front of a frame is its own.  close() does not take the lock
\* and its joins may give up, so it can close the file between the two writes of a
\* record: that record stays cut at the end of the file, and its frame reached nobody.
CaptureIsComplete ==
    LET recorded == {pcap[i] : i \in DOMAIN pcap}
    IN  /\ \A p \in Port : Got(p) \ {Corrupt} \subseteq recorded
        /\ \A i, j \in DOMAIN pcap : pcap[i] = pcap[j] => i = j
        /\ half \notin recorded
        /\ pcapFile = "open" =>
               /\ half # Corrupt => \E p \in Port : thread[p] = "payload"
               /\ \A p \in Port : thread[p] = "payload" => half = frame[p]

\* "Each port receives every frame sent by every other port": where all participants
\* keep reading, a frame being sent to a port gets there unless that port leaves or
\* the hub is closed.  One that does not read blocks the sender's thread in sendall,
\* and with it the frames to the others.
EveryFrameArrives ==
    (\A r \in Port : WF_vars(Receive(r))) =>
        \A p \in Port : \A q \in Port \ {p}, n \in 1..Budget[p] :
            LET f == [source |-> p, number |-> n]
            IN  (thread[p] = "send" /\ frame[p] = f /\ q \in destinations[p])
                    ~> (f \in Got(q) \/ peerEnd[q] = "closed" \/ owner # "running")

\* close() ends every forwarding thread, also the ones blocked in a send to a
\* participant that stopped reading.
CloseEndsThreads ==
    (owner = "closing") ~> (\A p \in Port : thread[p] \in {"none", "ended"})

=============================================================================
