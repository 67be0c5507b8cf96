---------------------------- MODULE RunnerProofs ----------------------------
(***************************************************************************)
(* Theorems about Runner, for every set of targets and every bound: a pass *)
(* is earned, failure output never passes, an accepted exit status is      *)
(* authoritative, the bytes before a RESET stay behind it where nothing    *)
(* but RESETs is sent, and every step is a step of TestRun.                *)
(***************************************************************************)
EXTENDS Runner, WellFoundedInduction, TLAPS

-----------------------------------------------------------------------------
(***************************************************************************)
(* The inductive invariant.                                                *)
(***************************************************************************)
Startup == {"connect", "negotiate", "resolve"}
Loop == {"top", "events", "drain", "recv", "messages", "after", "pending",
         "companion", "poll", "exit", "closed", "stop"}
Finished == {"error", "done"}

MachineState ==
    [phase : Nat \ {0}, waiting : BOOLEAN, outcome : {"running", "pass", "fail"}]

\* The types the argument rests on.
Types ==
    /\ cfg \in Configs
    /\ pc \in {"start"} \cup Startup \cup Loop \cup Finished
    /\ ret \in {"top", "events", "recv", "pending", "exit"}
    /\ outcome \in {"none", "pass", "fail"}
    /\ machine \in MachineState

Queues ==
    /\ inbox \in Seq(Messages) /\ sock \in Seq(Messages) /\ pending \in Seq(Events)
    /\ pipe \in Seq(Token) /\ log \in Seq(Token)
    /\ boot \in Nat /\ passAt \in Nat /\ matched \in Seq(Nat)

\* QEMU and the companion: an exit status is there exactly once QEMU has exited, the
\* exit branch is entered only then, and the companion runs only where there is one.
Processes ==
    /\ proc \in {"none", "running", "exited", "stopped"}
    /\ code \in {"none", "accepted", "other"}
    /\ proc = "none" => pc \in {"start", "done"}
    /\ proc = "stopped" => pc = "done"
    /\ pc = "start" => proc = "none"
    /\ proc \in {"none", "running"} => code = "none"
    /\ proc = "exited" => code # "none"
    /\ pc = "exit" \/ (pc = "drain" /\ ret = "exit") => proc = "exited"
    /\ pc \in {"start"} \cup Startup => companion = "none" /\ (cfg.companion => ~companionComplete)
    /\ ~cfg.companion => companion = "none" /\ companionComplete
    /\ cfg.companion /\ companionComplete => companion = "exit 0"

AllEvents(s) == \A i \in DOMAIN s : s[i] \in Events
OneAnswer(s) == \A i, j \in DOMAIN s : s[i] \notin Events /\ s[j] \notin Events => i = j

\* The answer to a start-up command is in the socket.
Answered == pc \in {"negotiate", "resolve"} /\ request = "none"

\* The monitor: at most one answer is on its way, and none while a command is
\* outstanding; in the loop the only command is the screendump.
Monitor ==
    /\ request # "none" => AllEvents(sock) /\ AllEvents(inbox)
    /\ AllEvents(inbox) \/ AllEvents(sock)
    /\ OneAnswer(sock) /\ OneAnswer(inbox)
    /\ inbox # <<>> => pc \in {"messages", "done", "error"}
    /\ pc \in {"start", "connect"} => request = "none" /\ AllEvents(sock)
    /\ Answered => ~AllEvents(sock)
    /\ pc \in {"start"} \cup Startup => ~shotAsked
    /\ pc \in Loop /\ ~shotAsked => request = "none" /\ AllEvents(sock) /\ AllEvents(inbox)
    /\ ~cfg.shot => shotComplete /\ ~shotAsked
    /\ cfg.shot /\ shotComplete => shotAsked /\ request # "screendump"

\* The plan: how far the machine is, counted in completed phases, and what it takes
\* for guest_complete to be set.
Plan ==
    /\ machine.waiting => machine.phase < cfg.phases /\ machine.outcome # "pass"
    /\ machine.phase <= cfg.phases
    /\ machine.outcome = "pass" => machine.phase = cfg.phases
    /\ machine.outcome # "fail" =>
           Len(matched) = IF machine.waiting \/ machine.outcome = "pass"
                            THEN machine.phase ELSE machine.phase - 1
    /\ machine.outcome = "fail" => outcome = "fail"
    /\ guestComplete =>
           \/ HasMachine /\ machine.outcome = "pass"
           \/ ~HasMachine /\ \E i \in DOMAIN log : log[i].name = "ok"
           \/ ~HasMachine /\ cfg.accept /\ code = "accepted"
    /\ shotAsked => guestComplete

\* The output read so far, as long as the test has not failed.
Output ==
    /\ passAt <= Len(log)
    /\ outcome # "fail" =>
         /\ \A i \in DOMAIN log : log[i].name # "fail"
         /\ ~HasMachine => \A i \in DOMAIN log : log[i].name # "bad"
         /\ HasMachine /\ machine.outcome = "running" =>
                \A i \in DOMAIN log : log[i].name # "bad"
         /\ HasMachine /\ machine.outcome = "pass" =>
                \A i \in 1..passAt : log[i].name # "bad"

\* The verdict: where in the code it can be there, and what a pass rests on.
Decided ==
    /\ outcome = "pass" => /\ pc \in {"top", "closed", "stop", "done"}
                           /\ guestComplete /\ shotComplete /\ companionComplete
    /\ pc \in {"start"} \cup Startup => outcome = "none"
    /\ pc \in {"stop", "done"} => outcome # "none"
    /\ pc = "drain" /\ ret = "pending" => pending # <<>>
    /\ pc \in {"pending", "companion"} /\ outcome = "fail" =>
           \/ pc = "pending" /\ pending # <<>>
           \/ HasMachine /\ machine.outcome = "fail"

\* What the reason of a failed test says of the run.
Reasoned ==
    outcome = "fail" =>
        \/ why \in {"error", "log limit"}
        \/ why = "not started" /\ proc = "none" /\ pc = "done"
        \/ why = "serial" /\ (HasMachine \/ \E i \in DOMAIN log : log[i].name \in {"fail", "bad"})
        \/ why = "timeout" /\ expired
        \/ why = "reset" /\ HasMachine
        \/ why = "screendump" /\ cfg.shot
        \/ why = "companion" /\ cfg.companion
        \/ why = "exited" /\ (cfg.accept => code = "other")
        \/ why = "qmp closed" /\ graceOver

\* The machine still runs, and the runner has not given up.
Matching == HasMachine /\ machine.outcome = "running" /\ pc \notin Finished

\* What select reported stays true: the end of file comes after the last byte, and
\* the monitor's queue is not empty while it is open.
Sources ==
    /\ pipeClosed => proc \notin {"none", "running"}
    /\ serialEof => pipe = <<>> /\ pipeClosed
    /\ ready \subseteq {"serial", "qmp"}
    /\ pc \in {"start", "recv"} \cup Startup \/ (pc = "drain" /\ ret = "recv") => ready = {}
    /\ "qmp" \in ready \/ pc = "recv" \/ (pc = "drain" /\ ret = "recv") => sock # <<>> \/ sockClosed

OnlyResets(s) == \A i \in DOMAIN s : s[i] # "other event"
Beyond(n) == \A i \in DOMAIN pipe : pipe[i].boot >= n

\* Where QEMU sends no events but RESETs: a RESET was sent for every boot, and it is
\* counted by the machine or still on its way; the pipe holds nothing of a boot before
\* the machine's phase, and nothing of that phase once the drain in front of recv or of
\* the pending events is over; so no marker was matched too early.
Resets == ~cfg.chatty => OnlyResets(sock) /\ OnlyResets(inbox) /\ OnlyResets(pending)

Counted ==
    ~cfg.chatty /\ Matching =>
        boot + (IF Answered THEN 1 ELSE 0)
            = machine.phase + Len(sock) + Len(inbox) + Len(pending)

Drained ==
    ~cfg.chatty /\ Matching =>
        /\ Beyond(machine.phase)
        /\ pc = "recv" /\ outcome = "none" /\ sock # <<>> => Beyond(machine.phase + 1)
        /\ pc = "messages" /\ machine.waiting /\ inbox # <<>> => Beyond(machine.phase + 1)
        /\ pc = "pending" /\ outcome = "none" /\ machine.waiting /\ pending # <<>> =>
               Beyond(machine.phase + 1)

Behind == ~cfg.chatty => PreResetBytesStayBehind

RunnerInv ==
    /\ Types /\ Queues /\ Processes /\ Monitor /\ Plan /\ Output /\ Decided /\ Reasoned
    /\ Sources /\ Resets /\ Counted /\ Drained /\ Behind

-----------------------------------------------------------------------------
(***************************************************************************)
(* What the operators return, and what the large actions do.               *)
(***************************************************************************)

\* What _define_uefi_test guarantees of a target, attribute by attribute.
LEMMA TargetFacts ==
    ASSUME NEW c \in Configs
    PROVE  /\ c.kind \in {"legacy", "ordered", "phases"} /\ c.phases \in Nat \ {0}
           /\ c.kind # "phases" => c.phases = 1
           /\ c.accept => c.kind = "legacy" /\ ~c.shot
<1> QED
  BY RunnerAssumption DEF ConfigOK

\* The least-number principle for sets.
LEMMA LeastElement ==
    ASSUME NEW T, T \subseteq Nat, T # {}
    PROVE  \E x \in T : \A y \in T : x <= y
<1> DEFINE R == OpToRel(<, Nat)
<1>1. IsWellFoundedOn(R, Nat)
  BY NatLessThanWellFounded
<1>2. \A x, y \in Nat : <<y, x>> \notin R => x <= y
  BY DEF OpToRel
<1> HIDE DEF R
<1>3. \E x \in T : \A y \in T : <<y, x>> \notin R
  BY <1>1, WFMin
<1> QED
  BY <1>2, <1>3

\* FirstOk is the boot of a marker of the chunk, when it has one.
LEMMA FirstOkFound ==
    ASSUME NEW s \in Seq(Token), NEW k \in DOMAIN s, s[k].name = "ok"
    PROVE  \E i \in DOMAIN s : FirstOk(s) = s[i].boot
<1> DEFINE T == {i \in DOMAIN s : s[i].name = "ok"}
           P(i) == s[i].name = "ok" /\ \A j \in 1..(i - 1) : s[j].name # "ok"
<1>1. PICK x \in T : \A y \in T : x <= y
  <2>1. T \subseteq Nat /\ T # {}
    OBVIOUS
  <2> HIDE DEF T
  <2> QED
    BY <2>1, LeastElement
<1>2. x \in DOMAIN s /\ P(x)
  <2>1. x \in 1..Len(s) /\ s[x].name = "ok" /\ Len(s) \in Nat
    BY <1>1
  <2>2. ASSUME NEW j \in 1..(x - 1) PROVE s[j].name # "ok"
    <3>1. j \in DOMAIN s /\ j < x
      BY <2>1
    <3> QED
      BY <1>1, <2>1, <3>1
  <2> QED
    BY <2>1, <2>2
<1> DEFINE c == CHOOSE i \in DOMAIN s : P(i)
<1>3. c \in DOMAIN s /\ FirstOk(s) = s[c].boot
  BY <1>2 DEF FirstOk
<1> QED
  BY <1>3

\* The machine on one chunk: nothing, a failure, the next wait or the pass.
LEMMA FeedEffect ==
    ASSUME NEW m \in MachineState, NEW names, NEW f, f = MachineFeed(m, names)
    PROVE  /\ f \in MachineState
           /\ \/ f = m /\ (m.outcome # "running" \/ m.waiting \/ "ok" \notin names)
                 /\ (m.outcome = "running" => "bad" \notin names)
              \/ /\ m.outcome = "running" /\ f.outcome = "fail"
                 /\ f.phase = m.phase /\ f.waiting = m.waiting
              \/ /\ m.outcome = "running" /\ ~m.waiting /\ "bad" \notin names
                 /\ "ok" \in names /\ f.phase = m.phase
                 /\ \/ m.phase = cfg.phases /\ f.outcome = "pass" /\ ~f.waiting
                    \/ m.phase # cfg.phases /\ f.outcome = "running" /\ f.waiting
<1> USE DEF MachineState
<1>1. CASE m.outcome # "running"
  BY <1>1 DEF MachineFeed
<1>2. CASE m.outcome = "running" /\ "bad" \in names
  BY <1>2 DEF MachineFeed
<1>3. CASE m.outcome = "running" /\ "bad" \notin names /\ (m.waiting \/ "ok" \notin names)
  BY <1>3 DEF MachineFeed
<1>4. CASE /\ m.outcome = "running" /\ "bad" \notin names /\ ~m.waiting /\ "ok" \in names
           /\ m.phase = cfg.phases
  <2>1. f = [m EXCEPT !.outcome = "pass"]
    BY <1>4 DEF MachineFeed
  <2> QED
    BY <1>4, <2>1
<1>5. CASE /\ m.outcome = "running" /\ "bad" \notin names /\ ~m.waiting /\ "ok" \in names
           /\ m.phase # cfg.phases
  <2>1. f = [m EXCEPT !.waiting = TRUE]
    BY <1>5 DEF MachineFeed
  <2> QED
    BY <1>5, <2>1
<1> QED
  BY <1>1, <1>2, <1>3, <1>4, <1>5

\* An event: nothing, a failure of the test, or the next phase.
LEMMA EventEffect ==
    ASSUME NEW event, machine \in MachineState, HandleEvent(event)
    PROVE  /\ machine' \in MachineState
           /\ \/ /\ machine' = machine /\ outcome' = outcome /\ why' = why
                 /\ ~HasMachine \/ event # "RESET" \/ machine.outcome # "running"
              \/ /\ HasMachine /\ machine'.outcome = "fail"
                 /\ machine.outcome = "running" \/ machine' = machine
                 /\ machine'.phase = machine.phase /\ machine'.waiting = machine.waiting
                 /\ outcome' = "fail" /\ why' = "reset"
              \/ /\ HasMachine /\ event = "RESET" /\ machine.outcome = "running" /\ machine.waiting
                 /\ machine'.phase = machine.phase + 1 /\ ~machine'.waiting
                 /\ machine'.outcome = "running" /\ outcome' = outcome /\ why' = why
<1> USE DEF MachineState, Verdict, NoVerdict
<1>1. CASE ~HasMachine
  BY <1>1 DEF HandleEvent
<1>2. CASE HasMachine /\ (event # "RESET" \/ machine.outcome # "running")
  BY <1>2 DEF HandleEvent, MachineEvent
<1>3. CASE HasMachine /\ event = "RESET" /\ machine.outcome = "running" /\ ~machine.waiting
  <2>1. machine' = [machine EXCEPT !.outcome = "fail"]
    BY <1>3 DEF HandleEvent, MachineEvent
  <2>2. machine'.outcome = "fail"
    BY <2>1
  <2>3. outcome' = "fail" /\ why' = "reset"
    BY <1>3, <2>2 DEF HandleEvent
  <2> QED
    BY <1>3, <2>1, <2>2, <2>3
<1>4. CASE HasMachine /\ event = "RESET" /\ machine.outcome = "running" /\ machine.waiting
  <2>1. machine' = [machine EXCEPT !.phase = machine.phase + 1, !.waiting = FALSE]
    BY <1>4 DEF HandleEvent, MachineEvent
  <2>2. /\ machine'.outcome = "running" /\ machine'.phase = machine.phase + 1
        /\ machine'.waiting = FALSE
    BY <1>4, <2>1
  <2>3. outcome' = outcome /\ why' = why
    BY <1>4, <2>2 DEF HandleEvent
  <2>4. machine' \in MachineState
    <3>1. machine.phase + 1 \in Nat \ {0}
      OBVIOUS
    <3> QED
      BY <2>1, <3>1
  <2> HIDE DEF MachineState
  <2> QED
    BY <1>4, <2>2, <2>3, <2>4
<1> QED
  BY <1>1, <1>2, <1>3, <1>4

\* A token of that name is in s.
Has(s, name) == \E i \in DOMAIN s : s[i].name = name

\* One read of drain_serial: the log limit, a failure, or output that the test goes
\* on after, with or without a match.
ReadLimit ==
    /\ outcome' = "fail" /\ why' = "log limit"
    /\ machine' = machine /\ matched' = matched /\ passAt' = passAt
    /\ guestComplete' = guestComplete

ReadFails ==
    /\ outcome' = "fail" /\ why' = "serial"
    /\ HasMachine \/ Has(pipe, "fail") \/ Has(pipe, "bad")
    /\ machine' = machine \/ (HasMachine /\ machine.outcome = "running" /\ machine'.outcome = "fail")
    /\ machine'.phase = machine.phase /\ machine'.waiting = machine.waiting
    /\ matched' = matched /\ passAt' = passAt /\ (guestComplete' <=> guestComplete)

ReadOn ==
    /\ outcome' = outcome /\ why' = why /\ ~Has(pipe, "fail")
    /\ machine' = machine /\ matched' = matched /\ passAt' = passAt
    /\ ~HasMachine \/ machine.outcome = "running" => ~Has(pipe, "bad")
    /\ guestComplete' <=> \/ guestComplete
                          \/ HasMachine /\ machine.outcome = "pass"
                          \/ ~HasMachine /\ Has(pipe, "ok")

ReadMatch ==
    /\ outcome' = outcome /\ why' = why /\ ~Has(pipe, "fail") /\ ~Has(pipe, "bad")
    /\ HasMachine /\ machine.outcome = "running" /\ ~machine.waiting /\ Has(pipe, "ok")
    /\ machine'.phase = machine.phase
    /\ matched' = Append(matched, FirstOk(pipe))
    /\ \/ /\ machine.phase = cfg.phases /\ machine'.outcome = "pass" /\ ~machine'.waiting
          /\ passAt' = Len(log') /\ guestComplete'
       \/ /\ machine.phase # cfg.phases /\ machine'.outcome = "running" /\ machine'.waiting
          /\ passAt' = passAt /\ (guestComplete' <=> guestComplete)

\* A read of the pipe does one of four things to the verdict.
LEMMA ReadEffect ==
    ASSUME Types, Plan, DrainRead
    PROVE  /\ machine' \in MachineState
           /\ ReadLimit \/ ReadFails \/ ReadOn \/ ReadMatch
<1> USE DEF Verdict, NoVerdict
<1> DEFINE names == NamesIn(pipe)
           m == IF HasMachine /\ "fail" \notin names THEN MachineFeed(machine, names) ELSE machine
<1>1. \A n : n \in names <=> Has(pipe, n)
  BY DEF NamesIn, Has
<1>2. /\ machine \in MachineState /\ outcome = "none" /\ machine.outcome # "fail"
      /\ machine.outcome \in {"running", "pass", "fail"}
  BY DEF Types, Plan, DrainRead, MachineState
<1>3. CASE Len(log') > MaxLog
  BY <1>2, <1>3 DEF DrainRead, ReadLimit
<1>4. CASE ~(Len(log') > MaxLog)
  <2>1. ProcessSerial(pipe)
    BY <1>4 DEF DrainRead
  <2>2. /\ machine' = m
        /\ matched' = IF m # machine /\ m.outcome # "fail"
                        THEN Append(matched, FirstOk(pipe)) ELSE matched
        /\ passAt' = IF m # machine /\ m.outcome = "pass" THEN Len(log') ELSE passAt
        /\ guestComplete' = GuestDone(names, m)
        /\ IF SerialVerdict(names, m) = "fail" THEN outcome' = "fail" /\ why' = "serial"
           ELSE outcome' = outcome /\ why' = why
    BY <2>1 DEF ProcessSerial
  <2> HIDE DEF names
  <2>3. CASE "fail" \in names
    <3>1. m = machine /\ SerialVerdict(names, m) = "fail" /\ (GuestDone(names, m) <=> guestComplete)
      BY <2>3 DEF SerialVerdict, GuestDone
    <3> HIDE DEF m
    <3> QED
      BY <1>1, <1>2, <2>2, <2>3, <3>1 DEF ReadFails
  <2>4. CASE "fail" \notin names /\ ~HasMachine
    <3>1. /\ m = machine /\ (SerialVerdict(names, m) = "fail" <=> "bad" \in names)
          /\ GuestDone(names, m) <=> guestComplete \/ ("bad" \notin names /\ "ok" \in names)
      BY <2>4 DEF SerialVerdict, GuestDone
    <3> HIDE DEF m
    <3>2. CASE "bad" \in names
      BY <1>1, <1>2, <2>2, <2>4, <3>1, <3>2 DEF ReadFails
    <3>3. CASE "bad" \notin names
      BY <1>1, <1>2, <2>2, <2>4, <3>1, <3>3 DEF ReadOn
    <3> QED
      BY <3>2, <3>3
  <2>5. CASE "fail" \notin names /\ HasMachine
    <3>1. m = MachineFeed(machine, names)
      BY <2>5
    <3>2. /\ SerialVerdict(names, m) = "fail" <=> m.outcome = "fail"
          /\ GuestDone(names, m) <=> guestComplete \/ m.outcome = "pass"
      BY <2>5 DEF SerialVerdict, GuestDone
    <3> HIDE DEF m
    <3>3. /\ m \in MachineState
          /\ \/ m = machine /\ (machine.outcome = "running" => "bad" \notin names)
             \/ /\ machine.outcome = "running" /\ m.outcome = "fail"
                /\ m.phase = machine.phase /\ m.waiting = machine.waiting
             \/ /\ machine.outcome = "running" /\ ~machine.waiting /\ "bad" \notin names
                /\ "ok" \in names /\ m.phase = machine.phase
                /\ \/ machine.phase = cfg.phases /\ m.outcome = "pass" /\ ~m.waiting
                   \/ machine.phase # cfg.phases /\ m.outcome = "running" /\ m.waiting
      BY <1>2, <3>1, FeedEffect
    <3>4. CASE m = machine /\ (machine.outcome = "running" => "bad" \notin names)
      BY <1>1, <1>2, <2>2, <2>5, <3>2, <3>4 DEF ReadOn
    <3>5. CASE /\ machine.outcome = "running" /\ m.outcome = "fail"
               /\ m.phase = machine.phase /\ m.waiting = machine.waiting
      BY <1>1, <1>2, <2>2, <2>5, <3>2, <3>3, <3>5 DEF ReadFails
    <3>6. CASE /\ machine.outcome = "running" /\ ~machine.waiting /\ "bad" \notin names
               /\ "ok" \in names /\ m.phase = machine.phase
               /\ \/ machine.phase = cfg.phases /\ m.outcome = "pass" /\ ~m.waiting
                  \/ machine.phase # cfg.phases /\ m.outcome = "running" /\ m.waiting
      <4>1. m # machine /\ m.outcome # "fail"
        BY <3>6
      <4>2. outcome' = outcome /\ why' = why
        BY <2>2, <3>2, <4>1
      <4>3. matched' = Append(matched, FirstOk(pipe)) /\ machine' = m
        BY <2>2, <4>1
      <4>4. CASE machine.phase = cfg.phases
        BY <1>1, <2>2, <2>5, <3>2, <3>3, <3>6, <4>1, <4>2, <4>3, <4>4 DEF ReadMatch
      <4>5. CASE machine.phase # cfg.phases
        BY <1>1, <2>2, <2>5, <3>2, <3>3, <3>6, <4>1, <4>2, <4>3, <4>5 DEF ReadMatch
      <4> QED
        BY <4>4, <4>5
    <3> QED
      BY <3>3, <3>4, <3>5, <3>6
  <2> QED
    BY <2>3, <2>4, <2>5
<1> QED
  BY <1>3, <1>4

\* The screendump request that goes with a read.
LEMMA AskEffect ==
    ASSUME DrainRead
    PROVE  /\ log' = log \o pipe /\ pipe' = <<>>
           /\ cfg' = cfg /\ ret' = ret /\ pc = "drain" /\ outcome = "none" /\ ~serialEof
           /\ \/ (shotAsked' <=> shotAsked) /\ request' = request /\ pc' = "drain"
              \/ /\ guestComplete' /\ ~shotComplete /\ ~shotAsked /\ shotAsked'
                 /\ request' \in {request, "screendump"} /\ pc' \in {"drain", "error"}
<1>1. CASE Len(log') > MaxLog
  BY <1>1 DEF DrainRead
<1>2. CASE ~(Len(log') > MaxLog)
  <2>1. ProcessSerial(pipe)
    BY <1>2 DEF DrainRead
  <2> DEFINE ask == guestComplete' /\ ~shotComplete /\ ~shotAsked
  <2>2. /\ shotAsked' = (shotAsked \/ ask)
        /\ \/ pc' = pc /\ request' = IF ask /\ ~sockClosed THEN "screendump" ELSE request
           \/ ask /\ pc' = "error" /\ request' = request
    BY <2>1 DEF ProcessSerial
  <2> QED
    BY <2>2 DEF DrainRead
<1> QED
  BY <1>1, <1>2

\* What Head, Tail and Append do to a sequence and to its elements.
LEMMA TailOf ==
    ASSUME NEW S, NEW s \in Seq(S), s # <<>>
    PROVE  /\ Head(s) \in S /\ Head(s) = s[1] /\ 1 \in DOMAIN s
           /\ Tail(s) \in Seq(S) /\ Len(Tail(s)) = Len(s) - 1 /\ Len(s) \in Nat \ {0}
           /\ \A i \in DOMAIN Tail(s) : i + 1 \in DOMAIN s /\ i + 1 # 1 /\ Tail(s)[i] = s[i + 1]
<1> QED
  OBVIOUS

\* What Append is, element by element.
LEMMA AppendOf ==
    ASSUME NEW S, NEW s \in Seq(S), NEW e \in S
    PROVE  /\ Append(s, e) \in Seq(S) /\ Len(Append(s, e)) = Len(s) + 1 /\ Append(s, e) # <<>>
           /\ \A i \in DOMAIN Append(s, e) :
                  \/ i \in DOMAIN s /\ Append(s, e)[i] = s[i]
                  \/ i = Len(s) + 1 /\ Append(s, e)[i] = e
           /\ \A i \in DOMAIN s : i \in DOMAIN Append(s, e) /\ Append(s, e)[i] = s[i]
<1> QED
  OBVIOUS

\* The log after a read.
LEMMA ConcatOf ==
    ASSUME NEW S, NEW s \in Seq(S), NEW t \in Seq(S), NEW r, r = s \o t
    PROVE  /\ r \in Seq(S) /\ Len(r) = Len(s) + Len(t) /\ Len(s) <= Len(r)
           /\ \A i \in DOMAIN r : \/ i \in DOMAIN s /\ r[i] = s[i]
                                  \/ \E j \in DOMAIN t : r[i] = t[j]
           /\ \A i \in DOMAIN s : i \in DOMAIN r /\ r[i] = s[i]
           /\ \A i \in DOMAIN t : Len(s) + i \in DOMAIN r /\ r[Len(s) + i] = t[i]
<1>1. /\ r \in Seq(S) /\ Len(r) = Len(s) + Len(t) /\ Len(s) <= Len(r)
      /\ \A i \in DOMAIN s : i \in DOMAIN r /\ r[i] = s[i]
      /\ \A i \in DOMAIN t : Len(s) + i \in DOMAIN r /\ r[Len(s) + i] = t[i]
  OBVIOUS
<1>2. ASSUME NEW i \in DOMAIN r, i \notin DOMAIN s
      PROVE  \E j \in DOMAIN t : r[i] = t[j]
  <2>1. i - Len(s) \in DOMAIN t /\ Len(s) + (i - Len(s)) = i
    BY <1>1, <1>2
  <2> QED
    BY <1>1, <2>1
<1> QED
  BY <1>1, <1>2

-----------------------------------------------------------------------------
(***************************************************************************)
(* Every step keeps the invariant, one part after the other.               *)
(***************************************************************************)

\* The types.
LEMMA TypesStep == RunnerInv /\ [Next]_vars => Types'
<1> SUFFICES ASSUME RunnerInv, [Next]_vars PROVE Types'
  OBVIOUS
<1> USE DEF control, verdict, progress, loopVars, runnerVars, clockVars, qemuVars, vars,
            Verdict, NoVerdict, Goto, Drain
<1>1. ASSUME UNCHANGED <<cfg, pc, ret, outcome, machine>>
      PROVE  Types'
  BY <1>1 DEF RunnerInv, Types
<1>2. CASE \/ \E name \in Names : GuestPrint(name)
           \/ \E answer \in {"return", "image", "blank", "error"} : QmpReply(answer)
           \/ \E status \in {"accepted", "other"}, leak \in BOOLEAN : QemuExit(status, leak)
           \/ \E status \in {"exit 0", "exit 1"} : CompanionExit(status)
           \/ GuestNoise \/ GuestReset \/ OtherEvent \/ QmpClose
           \/ DeadlinePasses \/ GracePasses \/ AwaitEvent \/ UNCHANGED vars
  BY <1>1, <1>2 DEF GuestPrint, GuestNoise, GuestReset, QmpSend, OtherEvent, QmpReply, QmpClose,
     QemuExit, CompanionExit, DeadlinePasses, GracePasses, AwaitEvent
<1>3. CASE Start
  BY <1>3 DEF Start, RunnerInv, Types, MachineState, Startup, Loop, Finished
<1>4. CASE StartFails
  BY <1>4 DEF StartFails, RunnerInv, Types, MachineState, Startup, Loop, Finished
<1>5. CASE Connect
  BY <1>5 DEF Connect, RunnerInv, Types, MachineState, Startup, Loop, Finished
<1>6. CASE AwaitReturn
  BY <1>6 DEF AwaitReturn, RunnerInv, Types, MachineState, Startup, Loop, Finished
<1>7. CASE StartupRaises
  BY <1>7 DEF StartupRaises, RunnerInv, Types, MachineState, Startup, Loop, Finished
<1>7a. CASE QmpRaises
  BY <1>7a DEF QmpRaises, RunnerInv, Types, MachineState, Startup, Loop, Finished
<1>8. CASE DrainRead
  <2>1. machine' \in MachineState /\ outcome' \in {"none", "pass", "fail"}
    <3>1. Types /\ Plan
      BY DEF RunnerInv
    <3> QED
      BY <1>8, <3>1, ReadEffect DEF Types, ReadLimit, ReadFails, ReadOn, ReadMatch
  <2>2. pc' \in {"drain", "error"} /\ ret' = ret /\ cfg' = cfg
    BY <1>8, AskEffect
  <2> QED
    BY <2>1, <2>2 DEF RunnerInv, Types, Loop, Finished
<1>9. CASE DrainTimeout
  BY <1>9 DEF DrainTimeout, MachineClose, RunnerInv, Types, MachineState, Startup, Loop, Finished
<1>10. CASE DrainReturn
  BY <1>10 DEF DrainReturn, RunnerInv, Types, MachineState, Startup, Loop, Finished
<1>11. CASE LoopTop
  BY <1>11 DEF LoopTop, MachineClose, RunnerInv, Types, MachineState, Startup, Loop, Finished
<1>12. CASE DispatchEvent
  BY <1>12 DEF DispatchEvent, RunnerInv, Types, MachineState, Startup, Loop, Finished
<1>13. CASE QmpRecv
  BY <1>13 DEF QmpRecv, RunnerInv, Types, MachineState, Startup, Loop, Finished
<1>14. CASE HandleMessage
  <2>1. Types
    BY DEF RunnerInv
  <2>2. pc' = pc /\ ret' = ret /\ cfg' = cfg
    BY <1>14 DEF HandleMessage
  <2>3. machine' \in MachineState /\ outcome' \in {"none", "pass", "fail"}
    <3>1. CASE HandleEvent(Head(inbox))
      BY <2>1, <3>1, EventEffect DEF Types
    <3>2. CASE machine' = machine /\ outcome' \in {outcome, "fail"}
      BY <2>1, <3>2 DEF Types
    <3> QED
      BY <1>14, <3>1, <3>2 DEF HandleMessage
  <2> QED
    BY <2>1, <2>2, <2>3 DEF Types
<1>15. CASE MessagesHandled
  BY <1>15 DEF MessagesHandled, RunnerInv, Types, MachineState, Startup, Loop, Finished
<1>16. CASE AfterEvents
  BY <1>16 DEF AfterEvents, RunnerInv, Types, MachineState, Startup, Loop, Finished
<1>17. CASE HandlePending
  <2>1. Types
    BY DEF RunnerInv
  <2>2. pc' \in {pc, "stop", "companion"} /\ ret' = ret /\ cfg' = cfg
    BY <1>17 DEF HandlePending
  <2>3. machine' \in MachineState /\ outcome' \in {"none", "pass", "fail"}
    <3>1. CASE HandleEvent(Head(pending))
      BY <2>1, <3>1, EventEffect DEF Types
    <3>2. CASE machine' = machine /\ outcome' = outcome
      BY <2>1, <3>2 DEF Types
    <3> QED
      BY <1>17, <3>1, <3>2 DEF HandlePending
  <2> QED
    BY <2>1, <2>2, <2>3 DEF Types, Loop
<1>18. CASE PollCompanion
  BY <1>18 DEF PollCompanion, CompanionDone, RunnerInv, Types, MachineState, Startup, Loop,
     Finished
<1>19. CASE PollProcess
  BY <1>19 DEF PollProcess, RunnerInv, Types, MachineState, Startup, Loop, Finished
<1>20. CASE HandleExit
  BY <1>20, ZenonT(60) DEF HandleExit, MachineClose, RunnerInv, Types, MachineState, Startup, Loop, Finished
<1>21. CASE CheckQmpClosed
  BY <1>21 DEF CheckQmpClosed, RunnerInv, Types, MachineState, Startup, Loop, Finished
<1>22. CASE Stop
  BY <1>22 DEF Stop, StopQemu, TerminateCompanion, RunnerInv, Types, MachineState, Startup, Loop,
     Finished
<1>23. CASE HandleError
  BY <1>23 DEF HandleError, StopQemu, TerminateCompanion, RunnerInv, Types, MachineState, Startup,
     Loop, Finished
<1> QED
  BY <1>2, <1>3, <1>4, <1>5, <1>6, <1>7, <1>7a, <1>8, <1>9, <1>10, <1>11, <1>12, <1>13, <1>14,
     <1>15, <1>16, <1>17, <1>18, <1>19, <1>20, <1>21, <1>22, <1>23
     DEF Next, Environment, RunnerStep, Returned

\* The queues, the output and the history.
LEMMA QueuesStep == RunnerInv /\ [Next]_vars => Queues'
<1> SUFFICES ASSUME RunnerInv, [Next]_vars PROVE Queues'
  OBVIOUS
<1> USE DEF control, verdict, progress, loopVars, runnerVars, clockVars, qemuVars, vars,
            Verdict, NoVerdict, Goto, Drain
<1>1. ASSUME UNCHANGED <<inbox, sock, pending, pipe, log, boot, passAt, matched>>
      PROVE  Queues'
  BY <1>1 DEF RunnerInv, Queues
<1>2. CASE \/ \E status \in {"accepted", "other"}, leak \in BOOLEAN : QemuExit(status, leak)
           \/ \E status \in {"exit 0", "exit 1"} : CompanionExit(status)
           \/ GuestNoise \/ QmpClose \/ DeadlinePasses \/ GracePasses \/ Start
           \/ StartFails \/ Connect \/ StartupRaises \/ QmpRaises \/ DrainTimeout
           \/ DrainReturn \/ LoopTop \/ DispatchEvent \/ MessagesHandled
           \/ AfterEvents \/ PollCompanion \/ PollProcess \/ HandleExit
           \/ CheckQmpClosed \/ Stop \/ UNCHANGED vars
  BY <1>1, <1>2 DEF GuestNoise, QmpClose, QemuExit, CompanionExit, DeadlinePasses, GracePasses, Start,
     StartFails, Connect, StartupRaises, QmpRaises, DrainTimeout, DrainReturn, LoopTop,
     DispatchEvent, MessagesHandled, AfterEvents, PollCompanion, PollProcess,
     HandleExit, CheckQmpClosed, Stop, StopQemu, TerminateCompanion
<1>3. ASSUME NEW name \in Names, GuestPrint(name)
      PROVE  Queues'
  <2>1. [name |-> name, boot |-> boot] \in Token /\ pipe \in Seq(Token)
    BY RunnerAssumption DEF RunnerInv, Queues, Token
  <2>2. pipe' \in Seq(Token)
    BY <1>3, <2>1, AppendOf DEF GuestPrint
  <2> QED
    BY <1>3, <2>2 DEF GuestPrint, RunnerInv, Queues
<1>4. CASE GuestReset
  <2>1. "RESET" \in Messages /\ sock \in Seq(Messages)
    BY DEF RunnerInv, Queues, Messages, Events
  <2>2. sock' \in Seq(Messages)
    BY <1>4, <2>1, AppendOf DEF GuestReset, QmpSend
  <2> QED
    BY <1>4, <2>2 DEF GuestReset, QmpSend, RunnerInv, Queues
<1>5. CASE OtherEvent
  <2>1. "other event" \in Messages /\ sock \in Seq(Messages)
    BY DEF RunnerInv, Queues, Messages, Events
  <2>2. sock' \in Seq(Messages)
    BY <1>5, <2>1, AppendOf DEF OtherEvent, QmpSend
  <2> QED
    BY <1>5, <2>2 DEF OtherEvent, QmpSend, RunnerInv, Queues
<1>6. ASSUME NEW answer \in {"return", "image", "blank", "error"}, QmpReply(answer)
      PROVE  Queues'
  <2>1. answer \in Messages /\ sock \in Seq(Messages)
    BY DEF RunnerInv, Queues, Messages
  <2>2. sock' \in Seq(Messages)
    BY <1>6, <2>1, AppendOf DEF QmpReply, QmpSend
  <2> QED
    BY <1>6, <2>2 DEF QmpReply, QmpSend, RunnerInv, Queues
<1>7. CASE AwaitEvent
  <2>1. sock \in Seq(Messages) /\ pending \in Seq(Events) /\ sock # <<>> /\ Head(sock) \in Events
    BY <1>7 DEF AwaitEvent, RunnerInv, Queues, Events
  <2>2. sock' \in Seq(Messages) /\ pending' \in Seq(Events)
    BY <1>7, <2>1, TailOf, AppendOf DEF AwaitEvent
  <2> QED
    BY <1>7, <2>2 DEF AwaitEvent, RunnerInv, Queues
<1>8. CASE AwaitReturn
  <2>1. sock' \in Seq(Messages)
    BY <1>8, TailOf DEF AwaitReturn, RunnerInv, Queues
  <2> QED
    BY <1>8, <2>1 DEF AwaitReturn, RunnerInv, Queues
<1>9. CASE DrainRead
  <2>1. log' = log \o pipe /\ pipe' = <<>> /\ Types /\ Plan
    BY <1>9, AskEffect DEF RunnerInv
  <2>2. log' \in Seq(Token) /\ pipe' \in Seq(Token) /\ Len(log') \in Nat
    BY <2>1 DEF RunnerInv, Queues
  <2>3. passAt' \in Nat
    BY <1>9, <2>1, <2>2, ReadEffect
       DEF RunnerInv, Queues, ReadLimit, ReadFails, ReadOn, ReadMatch
  <2>4. matched' \in Seq(Nat)
    <3>1. CASE matched' = matched
      BY <3>1 DEF RunnerInv, Queues
    <3>2. CASE ReadMatch
      <4>1. PICK i \in DOMAIN pipe : FirstOk(pipe) = pipe[i].boot
        BY <3>2, FirstOkFound DEF ReadMatch, Has, RunnerInv, Queues
      <4>2. pipe[i] \in Token
        BY <4>1 DEF RunnerInv, Queues
      <4>3. FirstOk(pipe) \in Nat
        BY <4>1, <4>2 DEF Token
      <4> QED
        BY <3>2, <4>3 DEF ReadMatch, RunnerInv, Queues
    <3> QED
      BY <1>9, <2>1, <3>1, <3>2, ReadEffect DEF ReadLimit, ReadFails, ReadOn
  <2> QED
    BY <1>9, <2>2, <2>3, <2>4 DEF DrainRead, RunnerInv, Queues
<1>10. CASE QmpRecv
  <2>1. inbox' \in Seq(Messages) /\ sock' \in Seq(Messages)
    <3>1. inbox \in Seq(Messages) /\ sock \in Seq(Messages) /\ <<>> \in Seq(Messages)
      BY DEF RunnerInv, Queues
    <3> QED
      BY <1>10, <3>1 DEF QmpRecv
  <2> QED
    BY <1>10, <2>1 DEF QmpRecv, RunnerInv, Queues
<1>11. CASE HandleMessage
  <2>1. inbox' \in Seq(Messages)
    BY <1>11, TailOf DEF HandleMessage, RunnerInv, Queues
  <2> QED
    BY <1>11, <2>1 DEF HandleMessage, RunnerInv, Queues
<1>12. CASE HandlePending
  <2>1. pending' \in Seq(Events)
    <3>1. pending' \in {pending, <<>>} \/ (pending # <<>> /\ pending' = Tail(pending))
      BY <1>12 DEF HandlePending
    <3>2. pending \in Seq(Events) /\ <<>> \in Seq(Events)
      BY DEF RunnerInv, Queues
    <3> QED
      BY <3>1, <3>2, TailOf
  <2> QED
    BY <1>12, <2>1 DEF HandlePending, RunnerInv, Queues
<1>13. CASE HandleError
  <2>1. log' \in Seq(Token) /\ pipe' \in Seq(Token)
    BY <1>13 DEF HandleError, RunnerInv, Queues
  <2> QED
    BY <1>13, <2>1 DEF HandleError, RunnerInv, Queues
<1> QED
  BY <1>2, <1>3, <1>4, <1>5, <1>6, <1>7, <1>8, <1>9, <1>10, <1>11, <1>12, <1>13
     DEF Next, Environment, RunnerStep, Returned

\* The processes.
LEMMA ProcessesStep == RunnerInv /\ [Next]_vars => Processes'
<1> SUFFICES ASSUME RunnerInv, [Next]_vars PROVE Processes'
  OBVIOUS
<1> USE DEF control, verdict, progress, loopVars, runnerVars, clockVars, qemuVars, vars,
            Verdict, NoVerdict, Goto, Drain
<1>1. ASSUME UNCHANGED <<cfg, proc, code, pc, ret, companion, companionComplete>>
      PROVE  Processes'
  BY <1>1 DEF RunnerInv, Processes, Startup
<1>2. CASE \/ \E name \in Names : GuestPrint(name)
           \/ \E answer \in {"return", "image", "blank", "error"} : QmpReply(answer)
           \/ GuestNoise \/ GuestReset \/ OtherEvent \/ QmpClose
           \/ DeadlinePasses \/ GracePasses \/ AwaitEvent \/ DrainTimeout
           \/ HandleMessage \/ UNCHANGED vars
  BY <1>1, <1>2 DEF GuestPrint, GuestNoise, GuestReset, QmpSend, OtherEvent, QmpReply, QmpClose,
     DeadlinePasses, GracePasses, AwaitEvent, DrainTimeout, HandleMessage
<1>3. ASSUME NEW status \in {"accepted", "other"}, NEW leak \in BOOLEAN, QemuExit(status, leak)
      PROVE  Processes'
  BY <1>3 DEF QemuExit, RunnerInv, Processes, Startup
<1>4. ASSUME NEW status \in {"exit 0", "exit 1"}, CompanionExit(status)
      PROVE  Processes'
  BY <1>4 DEF CompanionExit, RunnerInv, Processes, Startup
<1>5. CASE Start
  BY <1>5 DEF Start, RunnerInv, Processes, Startup
<1>6. CASE StartFails
  BY <1>6 DEF StartFails, RunnerInv, Processes, Startup
<1>7. CASE Connect
  BY <1>7 DEF Connect, RunnerInv, Processes, Startup
<1>8. CASE AwaitReturn
  BY <1>8 DEF AwaitReturn, RunnerInv, Processes, Startup
<1>9. CASE StartupRaises
  BY <1>9 DEF StartupRaises, RunnerInv, Processes, Startup
<1>9a. CASE QmpRaises
  BY <1>9a DEF QmpRaises, RunnerInv, Processes, Startup
<1>10. CASE DrainRead
  <2>1. pc = "drain" /\ pc' \in {"drain", "error"} /\ ret' = ret
    BY <1>10, AskEffect
  <2> QED
    BY <1>10, <2>1 DEF DrainRead, RunnerInv, Processes, Startup, Finished
<1>11. CASE DrainReturn
  BY <1>11 DEF DrainReturn, RunnerInv, Types, Processes, Startup
<1>12. CASE LoopTop
  BY <1>12 DEF LoopTop, MachineClose, RunnerInv, Processes, Startup
<1>13. CASE DispatchEvent
  BY <1>13 DEF DispatchEvent, RunnerInv, Processes, Startup
<1>14. CASE QmpRecv
  BY <1>14 DEF QmpRecv, RunnerInv, Processes, Startup
<1>15. CASE MessagesHandled
  BY <1>15 DEF MessagesHandled, RunnerInv, Processes, Startup
<1>16. CASE AfterEvents
  BY <1>16 DEF AfterEvents, RunnerInv, Processes, Startup
<1>17. CASE HandlePending
  BY <1>17 DEF HandlePending, HandleEvent, MachineEvent, RunnerInv, Processes, Startup
<1>18. CASE PollCompanion
  BY <1>18 DEF PollCompanion, CompanionDone, RunnerInv, Processes, Startup
<1>19. CASE PollProcess
  BY <1>19 DEF PollProcess, RunnerInv, Processes, Startup
<1>20. CASE HandleExit
  BY <1>20 DEF HandleExit, MachineClose, RunnerInv, Processes, Startup
<1>21. CASE CheckQmpClosed
  BY <1>21 DEF CheckQmpClosed, RunnerInv, Processes, Startup
<1>22. CASE Stop
  BY <1>22 DEF Stop, StopQemu, TerminateCompanion, RunnerInv, Processes, Startup
<1>23. CASE HandleError
  BY <1>23 DEF HandleError, StopQemu, TerminateCompanion, RunnerInv, Processes, Startup
<1> QED
  BY <1>2, <1>3, <1>4, <1>5, <1>6, <1>7, <1>8, <1>9, <1>9a, <1>10, <1>11, <1>12, <1>13, <1>14,
     <1>15, <1>16, <1>17, <1>18, <1>19, <1>20, <1>21, <1>22, <1>23
     DEF Next, Environment, RunnerStep, Returned

\* One more event, the one answer, and one message less in a queue of the monitor.
LEMMA MoreEvents ==
    ASSUME NEW s \in Seq(Messages), NEW e \in Messages, e \in Events, OneAnswer(s)
    PROVE  (AllEvents(Append(s, e)) <=> AllEvents(s)) /\ OneAnswer(Append(s, e))
<1> DEFINE t == Append(s, e)
<1>1. /\ \A i \in DOMAIN t : (i \in DOMAIN s /\ t[i] = s[i]) \/ t[i] = e
      /\ \A i \in DOMAIN s : i \in DOMAIN t /\ t[i] = s[i]
  BY AppendOf
<1> HIDE DEF t
<1>2. (AllEvents(t) <=> AllEvents(s)) /\ OneAnswer(t)
  BY <1>1 DEF AllEvents, OneAnswer
<1> QED
  BY <1>2 DEF t

\* An answer joins a queue of events: now there is exactly one.
LEMMA TheAnswer ==
    ASSUME NEW s \in Seq(Messages), NEW e \in Messages, e \notin Events, AllEvents(s)
    PROVE  OneAnswer(Append(s, e)) /\ ~AllEvents(Append(s, e))
<1> DEFINE t == Append(s, e)
<1>1. /\ \A i \in DOMAIN t : (i \in DOMAIN s /\ t[i] = s[i]) \/ i = Len(s) + 1
      /\ Len(s) + 1 \in DOMAIN t /\ t[Len(s) + 1] = e
  BY AppendOf
<1> HIDE DEF t
<1>2. OneAnswer(t) /\ ~AllEvents(t)
  BY <1>1 DEF AllEvents, OneAnswer
<1> QED
  BY <1>2 DEF t

\* What is left of a queue with at most one answer when its head is taken.
LEMMA FewerMessages ==
    ASSUME NEW s \in Seq(Messages), s # <<>>, OneAnswer(s)
    PROVE  /\ AllEvents(s) => AllEvents(Tail(s))
           /\ Head(s) \notin Events => AllEvents(Tail(s)) /\ ~AllEvents(s)
           /\ Head(s) \in Events /\ AllEvents(Tail(s)) => AllEvents(s)
           /\ OneAnswer(Tail(s))
<1> DEFINE t == Tail(s)
<1>1. /\ Head(s) = s[1] /\ 1 \in DOMAIN s
      /\ \A i \in DOMAIN t : i + 1 \in DOMAIN s /\ i + 1 # 1 /\ t[i] = s[i + 1]
  BY TailOf
<1>2. DOMAIN t \subseteq Nat
  BY TailOf
<1>3. \A i \in DOMAIN s : i = 1 \/ \E j \in DOMAIN t : s[i] = t[j]
  <2> SUFFICES ASSUME NEW i \in DOMAIN s, i # 1 PROVE \E j \in DOMAIN t : s[i] = t[j]
    OBVIOUS
  <2>1. i - 1 \in DOMAIN t /\ t[i - 1] = s[i]
    OBVIOUS
  <2> QED
    BY <2>1
<1> HIDE DEF t
<1>4. Head(s) \in Events /\ AllEvents(t) => AllEvents(s)
  BY <1>1, <1>3 DEF AllEvents
<1>5. AllEvents(s) => AllEvents(t)
  BY <1>1 DEF AllEvents
<1>6. Head(s) \notin Events => AllEvents(t) /\ ~AllEvents(s)
  BY <1>1 DEF AllEvents, OneAnswer
<1>7. OneAnswer(t)
  <2> SUFFICES ASSUME NEW i \in DOMAIN t, NEW j \in DOMAIN t, t[i] \notin Events, t[j] \notin Events
               PROVE  i = j
    BY DEF OneAnswer
  <2>1. i + 1 = j + 1
    BY <1>1 DEF OneAnswer
  <2> QED
    BY <1>2, <2>1
<1> QED
  BY <1>4, <1>5, <1>6, <1>7 DEF t

\* The monitor.
LEMMA MonitorStep == RunnerInv /\ [Next]_vars => Monitor'
<1> SUFFICES ASSUME RunnerInv, [Next]_vars PROVE Monitor'
  OBVIOUS
<1> USE DEF control, verdict, progress, loopVars, runnerVars, clockVars, qemuVars, vars,
            Verdict, NoVerdict, Goto, Drain
<1>1. ASSUME UNCHANGED <<cfg, request, sock, inbox, pc, shotAsked, shotComplete>>
      PROVE  Monitor'
  BY <1>1 DEF RunnerInv, Monitor, Answered
<1>2. CASE \/ \E name \in Names : GuestPrint(name)
           \/ \E status \in {"accepted", "other"}, leak \in BOOLEAN : QemuExit(status, leak)
           \/ \E status \in {"exit 0", "exit 1"} : CompanionExit(status)
           \/ GuestNoise \/ QmpClose \/ DeadlinePasses \/ GracePasses
           \/ DrainTimeout \/ UNCHANGED vars
  BY <1>1, <1>2 DEF GuestPrint, GuestNoise, QmpClose, QemuExit, CompanionExit, DeadlinePasses,
     GracePasses, DrainTimeout
<1>3. CASE GuestReset
  <2>1. sock \in Seq(Messages) /\ "RESET" \in Messages /\ "RESET" \in Events
    BY DEF RunnerInv, Queues, Messages, Events
  <2>2. sock' = Append(sock, "RESET")
    BY <1>3 DEF GuestReset, QmpSend
  <2>3. (AllEvents(sock') <=> AllEvents(sock)) /\ OneAnswer(sock')
    BY <2>1, <2>2, MoreEvents DEF RunnerInv, Monitor, Answered
  <2> QED
    BY <1>3, <2>3 DEF GuestReset, QmpSend, RunnerInv, Monitor, Answered
<1>4. CASE OtherEvent
  <2>1. sock \in Seq(Messages) /\ "other event" \in Messages /\ "other event" \in Events
    BY DEF RunnerInv, Queues, Messages, Events
  <2>2. sock' = Append(sock, "other event")
    BY <1>4 DEF OtherEvent, QmpSend
  <2>3. (AllEvents(sock') <=> AllEvents(sock)) /\ OneAnswer(sock')
    BY <2>1, <2>2, MoreEvents DEF RunnerInv, Monitor, Answered
  <2> QED
    BY <1>4, <2>3 DEF OtherEvent, QmpSend, RunnerInv, Monitor, Answered
<1>5. ASSUME NEW answer \in {"return", "image", "blank", "error"}, QmpReply(answer)
      PROVE  Monitor'
  <2>1. sock \in Seq(Messages) /\ answer \in Messages /\ answer \notin Events
    BY DEF RunnerInv, Queues, Messages, Events
  <2>2. sock' = Append(sock, answer) /\ request # "none" /\ request' = "none"
    BY <1>5 DEF QmpReply, QmpSend
  <2>3. AllEvents(sock) /\ AllEvents(inbox)
    BY <2>2 DEF RunnerInv, Monitor, Answered
  <2>4. OneAnswer(sock') /\ ~AllEvents(sock')
    BY <2>1, <2>2, <2>3, TheAnswer
  <2>5. pc \in Loop => shotAsked
    BY <2>2 DEF RunnerInv, Monitor, Answered
  <2> QED
    BY <1>5, <2>2, <2>3, <2>4, <2>5 DEF QmpReply, QmpSend, RunnerInv, Monitor
<1>6. CASE Start
  <2>1. inbox = <<>> /\ AllEvents(inbox) /\ pc \in {"start", "connect"}
    BY <1>6 DEF Start, RunnerInv, Monitor, Answered, AllEvents
  <2>2. request = "none" /\ AllEvents(sock) /\ ~shotAsked
    BY <2>1 DEF RunnerInv, Monitor, Answered, Startup
  <2>3. UNCHANGED <<cfg, sock, inbox, shotAsked, shotComplete>> /\ request' # "screendump"
    BY <1>6, <2>2 DEF Start
  <2> QED
    BY <1>6, <2>1, <2>2, <2>3 DEF Start, RunnerInv, Monitor, Answered, Startup, Loop
<1>7. CASE StartFails
  BY <1>7 DEF StartFails, RunnerInv, Monitor, Answered, Startup, Loop
<1>8. CASE Connect
  <2>1. inbox = <<>> /\ AllEvents(inbox) /\ pc \in {"start", "connect"}
    BY <1>8 DEF Connect, RunnerInv, Monitor, Answered, AllEvents
  <2>2. request = "none" /\ AllEvents(sock) /\ ~shotAsked
    BY <2>1 DEF RunnerInv, Monitor, Answered, Startup
  <2>3. UNCHANGED <<cfg, sock, inbox, shotAsked, shotComplete>> /\ request' # "screendump"
    BY <1>8, <2>2 DEF Connect
  <2> QED
    BY <1>8, <2>1, <2>2, <2>3 DEF Connect, RunnerInv, Monitor, Answered, Startup, Loop
<1>9. CASE AwaitEvent
  <2>1. sock \in Seq(Messages) /\ sock # <<>> /\ sock' = Tail(sock) /\ Head(sock) \in Events
        /\ pc \in {"negotiate", "resolve"}
    BY <1>9 DEF AwaitEvent, RunnerInv, Queues, Events
  <2>2. (AllEvents(sock') <=> AllEvents(sock)) /\ OneAnswer(sock')
    BY <2>1, FewerMessages DEF RunnerInv, Monitor, Answered
  <2> QED
    BY <1>9, <2>1, <2>2 DEF AwaitEvent, RunnerInv, Monitor, Answered, Startup, Loop
<1>10. CASE AwaitReturn
  <2>1. /\ sock \in Seq(Messages) /\ sock # <<>> /\ sock' = Tail(sock) /\ Head(sock) \notin Events
        /\ pc \in {"negotiate", "resolve"}
    BY <1>10 DEF AwaitReturn, RunnerInv, Queues, Events
  <2>2. AllEvents(sock') /\ OneAnswer(sock') /\ ~AllEvents(sock)
    BY <2>1, FewerMessages DEF RunnerInv, Monitor, Answered
  <2>3. request = "none" /\ AllEvents(inbox) /\ ~shotAsked /\ inbox = <<>>
    BY <2>1, <2>2 DEF RunnerInv, Monitor, Answered, Startup
  <2>4. pc' \in {"resolve", "top"} /\ (pc' = "top" => request' = request)
        /\ (pc' = "resolve" => request' = "info usernet")
    BY <1>10 DEF AwaitReturn
  <2>5. inbox' = inbox /\ cfg' = cfg /\ shotComplete' = shotComplete /\ shotAsked' = shotAsked
    BY <1>10 DEF AwaitReturn
  <2>6. request' # "screendump"
    BY <1>10, <2>3 DEF AwaitReturn
  <2> QED
    BY <2>1, <2>2, <2>3, <2>4, <2>5, <2>6 DEF RunnerInv, Monitor, Answered, Startup, Loop
<1>11. CASE StartupRaises
  BY <1>11 DEF StartupRaises, RunnerInv, Monitor, Answered, Startup, Loop
<1>11a. CASE QmpRaises
  BY <1>11a DEF QmpRaises, RunnerInv, Monitor, Answered, Startup, Loop
<1>12. CASE DrainRead
  <2>1. pc = "drain" /\ pc' \in {"drain", "error"} /\ cfg' = cfg
    BY <1>12, AskEffect
  <2>2. sock' = sock /\ inbox' = inbox /\ shotComplete' = shotComplete
    BY <1>12 DEF DrainRead
  <2>3. CASE (shotAsked' <=> shotAsked) /\ request' = request
    BY <2>1, <2>2, <2>3 DEF RunnerInv, Monitor, Answered, Startup, Loop
  <2>4. CASE ~shotComplete /\ ~shotAsked /\ shotAsked' /\ request' \in {request, "screendump"}
    BY <2>1, <2>2, <2>4 DEF RunnerInv, Monitor, Answered, Startup, Loop
  <2> QED
    BY <1>12, <2>3, <2>4, AskEffect
<1>13. CASE DrainReturn
  <2>1. pc' \in {"top", "events", "recv", "pending", "exit"} /\ pc = "drain"
    BY <1>13 DEF DrainReturn, RunnerInv, Types
  <2> QED
    BY <1>13, <2>1 DEF DrainReturn, RunnerInv, Monitor, Answered, Startup, Loop
<1>14. CASE LoopTop
  BY <1>14 DEF LoopTop, MachineClose, RunnerInv, Monitor, Answered, Startup, Loop
<1>15. CASE DispatchEvent
  BY <1>15 DEF DispatchEvent, RunnerInv, Monitor, Answered, Startup, Loop
<1>16. CASE QmpRecv
  <2>1. pc = "recv" /\ inbox = <<>>
    BY <1>16 DEF QmpRecv, RunnerInv, Monitor, Answered
  <2>2. AllEvents(<<>>) /\ OneAnswer(<<>>)
    BY DEF AllEvents, OneAnswer
  <2>3. \/ pc' = "messages" /\ inbox' = sock /\ sock' = <<>>
        \/ pc' = "after" /\ inbox' = inbox /\ sock' = sock
    BY <1>16 DEF QmpRecv
  <2>4. UNCHANGED <<cfg, request, shotAsked, shotComplete>>
    BY <1>16 DEF QmpRecv
  <2> QED
    BY <2>1, <2>2, <2>3, <2>4 DEF RunnerInv, Monitor, Answered, Startup, Loop
<1>17. CASE HandleMessage
  <2>1. pc = "messages" /\ inbox \in Seq(Messages) /\ inbox # <<>> /\ inbox' = Tail(inbox)
    BY <1>17 DEF HandleMessage, RunnerInv, Queues
  <2>2. /\ AllEvents(inbox) => AllEvents(inbox')
        /\ Head(inbox) \notin Events => AllEvents(inbox') /\ ~AllEvents(inbox)
        /\ OneAnswer(inbox')
    BY <2>1, FewerMessages DEF RunnerInv, Monitor, Answered
  <2>3. UNCHANGED <<cfg, pc, request, sock, shotAsked>>
    BY <1>17 DEF HandleMessage
  <2>4. shotComplete' = shotComplete \/ (shotComplete' = TRUE /\ Head(inbox) \notin Events)
    BY <1>17 DEF HandleMessage, Events
  <2>5. CASE shotComplete' = shotComplete
    BY <2>1, <2>2, <2>3, <2>5 DEF RunnerInv, Monitor, Answered, Startup, Loop
  <2>6. CASE shotComplete' = TRUE /\ Head(inbox) \notin Events
    <3>1. shotAsked /\ request = "none"
      BY <2>1, <2>2, <2>6 DEF RunnerInv, Monitor, Answered, Loop
    <3> QED
      BY <2>1, <2>2, <2>3, <2>6, <3>1 DEF RunnerInv, Monitor, Answered, Startup, Loop
  <2> QED
    BY <2>4, <2>5, <2>6
<1>18. CASE MessagesHandled
  BY <1>18 DEF MessagesHandled, RunnerInv, Monitor, Answered, Startup, Loop
<1>19. CASE AfterEvents
  BY <1>19 DEF AfterEvents, RunnerInv, Monitor, Answered, Startup, Loop
<1>20. CASE HandlePending
  BY <1>20 DEF HandlePending, HandleEvent, MachineEvent, RunnerInv, Monitor, Answered, Startup, Loop
<1>21. CASE PollCompanion
  BY <1>21 DEF PollCompanion, CompanionDone, RunnerInv, Monitor, Answered, Startup, Loop
<1>22. CASE PollProcess
  BY <1>22 DEF PollProcess, RunnerInv, Monitor, Answered, Startup, Loop
<1>23. CASE HandleExit
  BY <1>23 DEF HandleExit, MachineClose, RunnerInv, Monitor, Answered, Startup, Loop
<1>24. CASE CheckQmpClosed
  BY <1>24 DEF CheckQmpClosed, RunnerInv, Monitor, Answered, Startup, Loop
<1>25. CASE Stop
  BY <1>25 DEF Stop, StopQemu, TerminateCompanion, RunnerInv, Monitor, Answered, Startup, Loop
<1>26. CASE HandleError
  BY <1>26 DEF HandleError, StopQemu, TerminateCompanion, RunnerInv, Monitor, Answered, Startup, Loop
<1> QED
  BY <1>2, <1>3, <1>4, <1>5, <1>6, <1>7, <1>8, <1>9, <1>10, <1>11, <1>11a, <1>12, <1>13, <1>14,
     <1>15, <1>16, <1>17, <1>18, <1>19, <1>20, <1>21, <1>22, <1>23, <1>24, <1>25, <1>26
     DEF Next, Environment, RunnerStep, Returned

\* The machine when QEMU has exited or the time is over.
LEMMA ClosedMachine ==
    ASSUME machine \in MachineState
    PROVE  /\ MachineClose(machine) \in MachineState
           /\ \/ MachineClose(machine) = machine
              \/ /\ HasMachine /\ machine.outcome = "running" /\ MachineClose(machine).outcome = "fail"
                 /\ MachineClose(machine).phase = machine.phase
                 /\ MachineClose(machine).waiting = machine.waiting
<1> QED
  BY DEF MachineClose, MachineState

\* The plan.
LEMMA PlanStep == RunnerInv /\ [Next]_vars => Plan'
<1> SUFFICES ASSUME RunnerInv, [Next]_vars PROVE Plan'
  OBVIOUS
<1> USE DEF control, verdict, progress, loopVars, runnerVars, clockVars, qemuVars, vars,
            Verdict, NoVerdict, Goto, Drain
<1>1. ASSUME UNCHANGED <<cfg, machine, matched, outcome, guestComplete, shotAsked, log,
                          code>>
      PROVE  Plan'
  BY <1>1 DEF RunnerInv, Plan, HasMachine
<1>2. CASE \/ \E name \in Names : GuestPrint(name)
           \/ \E answer \in {"return", "image", "blank", "error"} : QmpReply(answer)
           \/ \E status \in {"exit 0", "exit 1"} : CompanionExit(status)
           \/ GuestNoise \/ GuestReset \/ OtherEvent \/ QmpClose
           \/ DeadlinePasses \/ GracePasses \/ Start \/ Connect \/ AwaitEvent
           \/ AwaitReturn \/ StartupRaises \/ QmpRaises \/ DrainReturn \/ DispatchEvent
           \/ QmpRecv \/ MessagesHandled \/ AfterEvents \/ PollProcess \/ Stop
           \/ UNCHANGED vars
  BY <1>1, <1>2 DEF GuestPrint, GuestNoise, GuestReset, QmpSend, OtherEvent, QmpReply, QmpClose,
     CompanionExit, DeadlinePasses, GracePasses, Start, Connect, AwaitEvent,
     AwaitReturn, StartupRaises, QmpRaises, DrainReturn, DispatchEvent, QmpRecv, MessagesHandled,
     AfterEvents, PollProcess, Stop, StopQemu, TerminateCompanion
<1>3. ASSUME NEW status \in {"accepted", "other"}, NEW leak \in BOOLEAN, QemuExit(status, leak)
      PROVE  Plan'
  <2>1. code = "none" /\ UNCHANGED <<cfg, machine, matched, outcome, guestComplete, shotAsked, log>>
    BY <1>3 DEF QemuExit, RunnerInv, Processes
  <2> QED
    BY <2>1 DEF RunnerInv, Plan, HasMachine
<1>4. CASE StartFails
  BY <1>4 DEF StartFails, RunnerInv, Plan, HasMachine
<1>5. CASE DrainRead
  <2>1. /\ log' = log \o pipe /\ cfg' = cfg /\ outcome = "none" /\ Types /\ Plan /\ code' = code
        /\ pipe \in Seq(Token) /\ log \in Seq(Token) /\ matched \in Seq(Nat)
    BY <1>5, AskEffect DEF RunnerInv, Queues, DrainRead
  <2>2. /\ \A i \in DOMAIN log : i \in DOMAIN log' /\ log'[i] = log[i]
        /\ \A i \in DOMAIN pipe : Len(log) + i \in DOMAIN log' /\ log'[Len(log) + i] = pipe[i]
    BY <2>1, ConcatOf
  <2>3. Has(pipe, "ok") => \E i \in DOMAIN log' : log'[i].name = "ok"
    BY <2>2 DEF Has
  <2>4. (\E i \in DOMAIN log : log[i].name = "ok") => \E i \in DOMAIN log' : log'[i].name = "ok"
    BY <2>2
  <2>5. machine.phase \in Nat \ {0} /\ machine'.phase \in Nat \ {0}
    BY <1>5, <2>1, ReadEffect DEF Types, MachineState
  <2>6. shotAsked' => shotAsked \/ guestComplete'
    BY <1>5, AskEffect
  <2>7. CASE ReadLimit
    BY <2>1, <2>4, <2>6, <2>7 DEF ReadLimit, Plan, HasMachine
  <2>8. CASE ReadFails
    BY <2>1, <2>4, <2>5, <2>6, <2>8 DEF ReadFails, Plan, HasMachine
  <2>9. CASE ReadOn
    BY <2>1, <2>3, <2>4, <2>6, <2>9 DEF ReadOn, Plan, HasMachine
  <2>10. CASE ReadMatch
    <3>1. Len(matched') = machine.phase
      <4>1. Len(matched) = machine.phase - 1
        BY <2>1, <2>10 DEF ReadMatch, Plan
      <4>2. matched' = Append(matched, FirstOk(pipe))
        BY <2>10 DEF ReadMatch
      <4> QED
        BY <2>1, <2>5, <4>1, <4>2
    <3>2. guestComplete' => HasMachine /\ machine'.outcome = "pass"
      BY <2>1, <2>10 DEF ReadMatch, Plan
    <3>3. machine.phase <= cfg.phases /\ cfg.phases \in Nat
      BY <2>1, TargetFacts DEF Plan, Types
    <3> QED
      BY <2>1, <2>5, <2>6, <2>10, <3>1, <3>2, <3>3 DEF ReadMatch, Plan, HasMachine
  <2> QED
    BY <1>5, <2>1, <2>7, <2>8, <2>9, <2>10, ReadEffect
<1>6. CASE DrainTimeout
  <2>1. UNCHANGED <<cfg, matched, log, code, guestComplete, shotAsked>>
    BY <1>6 DEF DrainTimeout
  <2>2. machine' = machine \/ (outcome' = "fail" /\ machine' = MachineClose(machine))
    BY <1>6 DEF DrainTimeout
  <2>3. outcome' = outcome \/ outcome' = "fail"
    BY <1>6 DEF DrainTimeout
  <2> QED
    BY <2>1, <2>2, <2>3, ClosedMachine DEF RunnerInv, Types, Plan, HasMachine
<1>7. CASE LoopTop
  <2>1. UNCHANGED <<cfg, matched, log, code, guestComplete, shotAsked>>
    BY <1>7 DEF LoopTop
  <2>2. machine' = machine \/ (outcome' = "fail" /\ machine' = MachineClose(machine))
    BY <1>7 DEF LoopTop
  <2>3. outcome' = outcome \/ outcome' = "fail"
    BY <1>7 DEF LoopTop
  <2> QED
    BY <2>1, <2>2, <2>3, ClosedMachine DEF RunnerInv, Types, Plan, HasMachine
<1>8. CASE HandleMessage
  <2>1. /\ cfg' = cfg /\ matched' = matched /\ log' = log /\ code' = code
        /\ guestComplete' = guestComplete /\ shotAsked' = shotAsked
    BY <1>8 DEF HandleMessage
  <2>2. Types /\ Plan /\ cfg.phases \in Nat
    BY TargetFacts DEF RunnerInv, Types
  <2>3. CASE machine' = machine /\ (outcome' = outcome \/ outcome' = "fail")
    BY <2>1, <2>2, <2>3 DEF Plan, HasMachine
  <2>4. CASE HandleEvent(Head(inbox))
    <3>1. CASE machine'.outcome = "fail" /\ outcome' = "fail" /\ HasMachine
               /\ machine'.phase = machine.phase /\ machine'.waiting = machine.waiting
               /\ (machine.outcome = "running" \/ machine' = machine)
      BY <2>1, <2>2, <3>1 DEF Plan, HasMachine
    <3>2. CASE machine.outcome = "running" /\ machine.waiting /\ machine'.phase = machine.phase + 1
               /\ ~machine'.waiting /\ machine'.outcome = "running" /\ outcome' = outcome
      <4>1. machine.phase \in Nat
        BY <2>2 DEF Types, MachineState
      <4> QED
        BY <2>1, <2>2, <3>2, <4>1 DEF Plan, HasMachine
    <3> QED
      BY <2>2, <2>3, <2>4, <3>1, <3>2, EventEffect DEF Types
  <2> QED
    BY <1>8, <2>3, <2>4 DEF HandleMessage
<1>9. CASE HandlePending
  <2>1. /\ cfg' = cfg /\ matched' = matched /\ log' = log /\ code' = code
        /\ guestComplete' = guestComplete /\ shotAsked' = shotAsked
    BY <1>9 DEF HandlePending
  <2>2. Types /\ Plan /\ cfg.phases \in Nat
    BY TargetFacts DEF RunnerInv, Types
  <2>3. CASE machine' = machine /\ (outcome' = outcome \/ outcome' = "fail")
    BY <2>1, <2>2, <2>3 DEF Plan, HasMachine
  <2>4. CASE HandleEvent(Head(pending))
    <3>1. CASE machine'.outcome = "fail" /\ outcome' = "fail" /\ HasMachine
               /\ machine'.phase = machine.phase /\ machine'.waiting = machine.waiting
               /\ (machine.outcome = "running" \/ machine' = machine)
      BY <2>1, <2>2, <3>1 DEF Plan, HasMachine
    <3>2. CASE machine.outcome = "running" /\ machine.waiting /\ machine'.phase = machine.phase + 1
               /\ ~machine'.waiting /\ machine'.outcome = "running" /\ outcome' = outcome
      <4>1. machine.phase \in Nat
        BY <2>2 DEF Types, MachineState
      <4> QED
        BY <2>1, <2>2, <3>2, <4>1 DEF Plan, HasMachine
    <3> QED
      BY <2>2, <2>3, <2>4, <3>1, <3>2, EventEffect DEF Types
  <2> QED
    BY <1>9, <2>3, <2>4 DEF HandlePending
<1>10. CASE PollCompanion
  <2>1. UNCHANGED <<cfg, machine, matched, guestComplete, shotAsked, log, code>> /\ pc = "companion"
    BY <1>10 DEF PollCompanion
  <2>2. outcome = "fail" => HasMachine /\ machine.outcome = "fail"
    BY <2>1 DEF RunnerInv, Decided
  <2>3. outcome = "fail" => ~guestComplete
    BY <2>2 DEF RunnerInv, Plan
  <2>4. outcome' = outcome \/ (guestComplete /\ outcome' = "pass") \/ outcome' = "fail"
    BY <1>10 DEF PollCompanion
  <2> QED
    BY <2>1, <2>3, <2>4 DEF RunnerInv, Plan, HasMachine
<1>11. CASE HandleExit
  <2>1. UNCHANGED <<cfg, matched, log, code, shotAsked>>
    BY <1>11 DEF HandleExit
  <2>2. machine' = machine \/ (outcome' = "fail" /\ machine' = MachineClose(machine))
    BY <1>11 DEF HandleExit
  <2>3. outcome' = outcome \/ (outcome = "none" /\ outcome' = "pass") \/ outcome' = "fail"
    BY <1>11 DEF HandleExit
  <2>4. \/ guestComplete' <=> guestComplete
        \/ guestComplete' /\ cfg.accept /\ code = "accepted"
    BY <1>11 DEF HandleExit
  <2>5. cfg.accept => ~HasMachine
    BY TargetFacts DEF RunnerInv, Types, HasMachine
  <2> QED
    BY <2>1, <2>2, <2>3, <2>4, <2>5, ClosedMachine DEF RunnerInv, Types, Plan, HasMachine
<1>12. CASE CheckQmpClosed
  BY <1>12 DEF CheckQmpClosed, RunnerInv, Plan, HasMachine
<1>13. CASE HandleError
  <2>1. log' = log \o pipe /\ pipe \in Seq(Token) /\ log \in Seq(Token)
    BY <1>13 DEF HandleError, RunnerInv, Queues
  <2>2. \A i \in DOMAIN log : i \in DOMAIN log' /\ log'[i] = log[i]
    BY <2>1, ConcatOf
  <2>3. (\E i \in DOMAIN log : log[i].name = "ok") => \E i \in DOMAIN log' : log'[i].name = "ok"
    BY <2>2
  <2>4. UNCHANGED <<cfg, machine, matched, guestComplete, shotAsked, code>> /\ outcome' = "fail"
    BY <1>13 DEF HandleError
  <2> QED
    BY <2>3, <2>4 DEF RunnerInv, Plan, HasMachine
<1> QED
  BY <1>2, <1>3, <1>4, <1>5, <1>6, <1>7, <1>8, <1>9, <1>10, <1>11, <1>12, <1>13
     DEF Next, Environment, RunnerStep, Returned

\* The output.
LEMMA OutputStep == RunnerInv /\ [Next]_vars => Output'
<1> SUFFICES ASSUME RunnerInv, [Next]_vars PROVE Output'
  OBVIOUS
<1> USE DEF control, verdict, progress, loopVars, runnerVars, clockVars, qemuVars, vars,
            Verdict, NoVerdict, Goto, Drain
<1>1. ASSUME UNCHANGED <<cfg, passAt, log, outcome, machine>>
      PROVE  Output'
  BY <1>1 DEF RunnerInv, Output, HasMachine
<1>2. CASE \/ \E name \in Names : GuestPrint(name)
           \/ \E answer \in {"return", "image", "blank", "error"} : QmpReply(answer)
           \/ \E status \in {"accepted", "other"}, leak \in BOOLEAN : QemuExit(status, leak)
           \/ \E status \in {"exit 0", "exit 1"} : CompanionExit(status)
           \/ GuestNoise \/ GuestReset \/ OtherEvent \/ QmpClose
           \/ DeadlinePasses \/ GracePasses \/ Start \/ Connect \/ AwaitEvent
           \/ AwaitReturn \/ StartupRaises \/ QmpRaises \/ DrainReturn \/ DispatchEvent
           \/ QmpRecv \/ MessagesHandled \/ AfterEvents \/ PollProcess \/ Stop
           \/ UNCHANGED vars
  BY <1>1, <1>2 DEF GuestPrint, GuestNoise, GuestReset, QmpSend, OtherEvent, QmpReply, QmpClose,
     QemuExit, CompanionExit, DeadlinePasses, GracePasses, Start, Connect, AwaitEvent,
     AwaitReturn, StartupRaises, QmpRaises, DrainReturn, DispatchEvent, QmpRecv, MessagesHandled,
     AfterEvents, PollProcess, Stop, StopQemu, TerminateCompanion
<1>3. CASE StartFails
  BY <1>3 DEF StartFails, RunnerInv, Output, HasMachine
<1>4. CASE DrainRead
  <2>1. /\ log' = log \o pipe /\ cfg' = cfg /\ outcome = "none" /\ Types /\ Plan
        /\ pipe \in Seq(Token) /\ log \in Seq(Token) /\ passAt \in Nat
    BY <1>4, AskEffect DEF RunnerInv, Queues
  <2>2. /\ Len(log) <= Len(log') /\ Len(log) \in Nat /\ Len(log') \in Nat /\ log' \in Seq(Token)
        /\ \A i \in DOMAIN log : i \in DOMAIN log' /\ log'[i] = log[i]
        /\ \A i \in DOMAIN log' : \/ i \in DOMAIN log /\ log'[i] = log[i]
                                 \/ \E j \in DOMAIN pipe : log'[i] = pipe[j]
    BY <2>1, ConcatOf
  <2>3. ASSUME NEW name, \A i \in DOMAIN log : log[i].name # name, ~Has(pipe, name)
        PROVE  \A i \in DOMAIN log' : log'[i].name # name
    BY <2>2, <2>3 DEF Has
  <2>4. \A i \in 1..passAt : i \in DOMAIN log /\ log'[i] = log[i]
    BY <2>1, <2>2 DEF RunnerInv, Output
  <2>5. passAt <= Len(log')
    BY <2>1, <2>2 DEF RunnerInv, Output
  <2>6. CASE outcome' = "fail" /\ passAt' = passAt
    BY <2>5, <2>6 DEF Output
  <2>7. CASE ReadOn
    <3>1. \A i \in DOMAIN log' : log'[i].name # "fail"
      BY <2>1, <2>3, <2>7 DEF ReadOn, RunnerInv, Output
    <3>2. CASE ~HasMachine \/ machine.outcome = "running"
      <4>1. \A i \in DOMAIN log' : log'[i].name # "bad"
        BY <2>1, <2>3, <2>7, <3>2 DEF ReadOn, RunnerInv, Output
      <4>2. HasMachine => machine'.outcome = "running"
        BY <2>7, <3>2 DEF ReadOn
      <4> QED
        BY <2>1, <2>5, <2>7, <3>1, <4>1, <4>2 DEF ReadOn, Output, HasMachine
    <3>3. CASE HasMachine /\ machine.outcome # "running"
      <4>1. machine.outcome = "pass" => \A i \in 1..passAt : log'[i].name # "bad"
        BY <2>1, <2>4, <3>3 DEF RunnerInv, Output
      <4> QED
        BY <2>1, <2>5, <2>7, <3>1, <3>3, <4>1 DEF ReadOn, Output, HasMachine
    <3> QED
      BY <3>2, <3>3
  <2>8. CASE ReadMatch
    <3>1. /\ \A i \in DOMAIN log' : log'[i].name # "fail"
          /\ \A i \in DOMAIN log' : log'[i].name # "bad"
      BY <2>1, <2>3, <2>8 DEF ReadMatch, RunnerInv, Output
    <3>2. passAt' = Len(log') \/ (passAt' = passAt /\ machine'.outcome = "running")
      BY <2>8 DEF ReadMatch
    <3>3. DOMAIN log' = 1..Len(log')
      BY <2>2
    <3>4. passAt' <= Len(log') /\ \A i \in 1..passAt' : i \in DOMAIN log'
      BY <2>1, <2>2, <2>5, <3>2, <3>3
    <3> QED
      BY <3>1, <3>4 DEF Output
  <2> QED
    BY <1>4, <2>1, <2>6, <2>7, <2>8, ReadEffect DEF ReadLimit, ReadFails
<1>5. CASE DrainTimeout
  <2>1. cfg' = cfg /\ log' = log /\ passAt' = passAt
    BY <1>5 DEF DrainTimeout
  <2>2. outcome' = "fail" \/ (outcome # "fail" /\ machine' = machine) \/ (outcome' = outcome /\ machine' = machine)
    BY <1>5 DEF DrainTimeout
  <2> QED
    BY <2>1, <2>2 DEF RunnerInv, Output, HasMachine
<1>6. CASE LoopTop
  <2>1. cfg' = cfg /\ log' = log /\ passAt' = passAt
    BY <1>6 DEF LoopTop
  <2>2. outcome' = "fail" \/ (outcome # "fail" /\ machine' = machine) \/ (outcome' = outcome /\ machine' = machine)
    BY <1>6 DEF LoopTop
  <2> QED
    BY <2>1, <2>2 DEF RunnerInv, Output, HasMachine
<1>7. CASE HandleMessage
  <2>1. cfg' = cfg /\ log' = log /\ passAt' = passAt
    BY <1>7 DEF HandleMessage
  <2>2. \/ outcome' = "fail"
        \/ outcome' = outcome /\ machine' = machine
        \/ outcome' = outcome /\ machine.outcome = "running" /\ machine'.outcome = "running"
    <3>1. CASE HandleEvent(Head(inbox))
      BY <3>1, EventEffect DEF RunnerInv, Types
    <3>2. CASE machine' = machine /\ outcome' \in {outcome, "fail"}
      BY <3>2
    <3> QED
      BY <1>7, <3>1, <3>2 DEF HandleMessage
  <2> QED
    BY <2>1, <2>2 DEF RunnerInv, Output, HasMachine
<1>8. CASE HandlePending
  <2>1. cfg' = cfg /\ log' = log /\ passAt' = passAt
    BY <1>8 DEF HandlePending
  <2>2. \/ outcome' = "fail"
        \/ outcome' = outcome /\ machine' = machine
        \/ outcome' = outcome /\ machine.outcome = "running" /\ machine'.outcome = "running"
    <3>1. CASE HandleEvent(Head(pending))
      BY <3>1, EventEffect DEF RunnerInv, Types
    <3>2. CASE machine' = machine /\ outcome' \in {outcome, "fail"}
      BY <3>2
    <3> QED
      BY <1>8, <3>1, <3>2 DEF HandlePending
  <2> QED
    BY <2>1, <2>2 DEF RunnerInv, Output, HasMachine
<1>9. CASE PollCompanion
  <2>1. UNCHANGED <<cfg, machine, log, passAt, guestComplete>> /\ pc = "companion"
    BY <1>9 DEF PollCompanion
  <2>2. outcome = "fail" => ~guestComplete
    BY <2>1 DEF RunnerInv, Decided, Plan
  <2>3. outcome' = "fail" \/ outcome # "fail"  \/ outcome' = outcome
    BY <1>9, <2>2 DEF PollCompanion
  <2> QED
    BY <2>1, <2>3 DEF RunnerInv, Output, HasMachine
<1>10. CASE HandleExit
  <2>1. cfg' = cfg /\ log' = log /\ passAt' = passAt
    BY <1>10 DEF HandleExit
  <2>2. outcome' = "fail" \/ (outcome # "fail" /\ machine' = machine) \/ (outcome' = outcome /\ machine' = machine)
    BY <1>10 DEF HandleExit
  <2> QED
    BY <2>1, <2>2 DEF RunnerInv, Output, HasMachine
<1>11. CASE CheckQmpClosed
  BY <1>11 DEF CheckQmpClosed, RunnerInv, Output, HasMachine
<1>12. CASE HandleError
  <2>1. log' = log \o pipe /\ pipe \in Seq(Token) /\ log \in Seq(Token)
    BY <1>12 DEF HandleError, RunnerInv, Queues
  <2>2. Len(log) <= Len(log') /\ Len(log) \in Nat /\ Len(log') \in Nat
    BY <2>1, ConcatOf
  <2>3. passAt' = passAt /\ passAt \in Nat /\ outcome' = "fail"
    BY <1>12 DEF HandleError, RunnerInv, Queues
  <2> QED
    BY <2>2, <2>3 DEF RunnerInv, Output
<1> QED
  BY <1>2, <1>3, <1>4, <1>5, <1>6, <1>7, <1>8, <1>9, <1>10, <1>11, <1>12
     DEF Next, Environment, RunnerStep, Returned

\* The verdict.
LEMMA DecidedStep == RunnerInv /\ [Next]_vars => Decided'
<1> SUFFICES ASSUME RunnerInv, [Next]_vars PROVE Decided'
  OBVIOUS
<1> USE DEF control, verdict, progress, loopVars, runnerVars, clockVars, qemuVars, vars,
            Verdict, NoVerdict, Goto, Drain
<1>1. ASSUME UNCHANGED <<cfg, outcome, pc, ret, pending, guestComplete, shotComplete,
                          companionComplete, machine>>
      PROVE  Decided'
  BY <1>1 DEF RunnerInv, Decided, HasMachine
<1>2. CASE \/ \E name \in Names : GuestPrint(name)
           \/ \E answer \in {"return", "image", "blank", "error"} : QmpReply(answer)
           \/ \E status \in {"accepted", "other"}, leak \in BOOLEAN : QemuExit(status, leak)
           \/ \E status \in {"exit 0", "exit 1"} : CompanionExit(status)
           \/ GuestNoise \/ GuestReset \/ OtherEvent \/ QmpClose
           \/ DeadlinePasses \/ GracePasses \/ UNCHANGED vars
  BY <1>1, <1>2 DEF GuestPrint, GuestNoise, GuestReset, QmpSend, OtherEvent, QmpReply, QmpClose,
     QemuExit, CompanionExit, DeadlinePasses, GracePasses
<1>3. CASE Start
  BY <1>3 DEF Start, RunnerInv, Decided, Startup, HasMachine
<1>4. CASE StartFails
  BY <1>4 DEF StartFails, RunnerInv, Decided, Startup, HasMachine
<1>5. CASE Connect
  BY <1>5 DEF Connect, RunnerInv, Decided, Startup, HasMachine
<1>6. CASE AwaitEvent
  BY <1>6 DEF AwaitEvent, RunnerInv, Decided, Startup, HasMachine
<1>7. CASE AwaitReturn
  BY <1>7 DEF AwaitReturn, RunnerInv, Decided, Startup, HasMachine
<1>8. CASE StartupRaises
  BY <1>8 DEF StartupRaises, RunnerInv, Decided, Startup, HasMachine
<1>8a. CASE QmpRaises
  BY <1>8a DEF QmpRaises, RunnerInv, Decided, Startup, HasMachine
<1>9. CASE DrainRead
  <2>1. pc = "drain" /\ pc' \in {"drain", "error"} /\ ret' = ret /\ outcome = "none"
    BY <1>9, AskEffect
  <2>2. outcome' \in {"none", "fail"} /\ pending' = pending
    BY <1>9, <2>1, ReadEffect DEF RunnerInv, ReadLimit, ReadFails, ReadOn, ReadMatch, DrainRead
  <2> QED
    BY <2>1, <2>2 DEF RunnerInv, Decided, Startup
<1>10. CASE DrainTimeout
  BY <1>10 DEF DrainTimeout, MachineClose, RunnerInv, Decided, Startup, HasMachine
<1>11. CASE DrainReturn
  <2>1. pc = "drain" /\ pc' = ret /\ ret' = ret /\ ret \in {"top", "events", "recv", "pending", "exit"}
    BY <1>11 DEF DrainReturn, RunnerInv, Types
  <2>2. UNCHANGED <<cfg, outcome, machine, pending, guestComplete, shotComplete, companionComplete>>
    BY <1>11 DEF DrainReturn
  <2> QED
    BY <2>1, <2>2 DEF RunnerInv, Decided, Startup, HasMachine
<1>12. CASE LoopTop
  BY <1>12 DEF LoopTop, MachineClose, RunnerInv, Decided, Startup, HasMachine
<1>13. CASE DispatchEvent
  BY <1>13 DEF DispatchEvent, RunnerInv, Decided, Startup, HasMachine
<1>14. CASE QmpRecv
  BY <1>14 DEF QmpRecv, RunnerInv, Decided, Startup, HasMachine
<1>15. CASE HandleMessage
  <2>1. pc = "messages" /\ pc' = pc
    BY <1>15 DEF HandleMessage
  <2>2. outcome # "pass"
    BY <2>1 DEF RunnerInv, Decided
  <2>3. outcome' \in {outcome, "fail"}
    <3>1. CASE HandleEvent(Head(inbox))
      BY <3>1, EventEffect DEF RunnerInv, Types
    <3>2. CASE outcome' \in {outcome, "fail"}
      BY <3>2
    <3> QED
      BY <1>15, <3>1, <3>2 DEF HandleMessage
  <2> QED
    BY <2>1, <2>2, <2>3 DEF Decided, Startup
<1>16. CASE MessagesHandled
  BY <1>16 DEF MessagesHandled, RunnerInv, Decided, Startup, HasMachine
<1>17. CASE AfterEvents
  BY <1>17 DEF AfterEvents, RunnerInv, Decided, Startup, HasMachine
<1>18. CASE HandlePending
  <2>1. pc = "pending" /\ cfg' = cfg /\ outcome # "pass"
    BY <1>18 DEF HandlePending, RunnerInv, Decided
  <2>2. CASE pending = <<>> \/ outcome # "none"
    <3>1. /\ pc' = IF pending # <<>> THEN "stop" ELSE "companion"
          /\ outcome' = outcome /\ pending' = pending /\ machine' = machine
      BY <1>18, <2>2 DEF HandlePending
    <3> QED
      BY <2>1, <2>2, <3>1 DEF RunnerInv, Decided, Startup, HasMachine
  <2>3. CASE ~(pending = <<>> \/ outcome # "none")
    <3>1. HandleEvent(Head(pending)) /\ pc' = pc
      BY <1>18, <2>3 DEF HandlePending
    <3>2. outcome' = outcome \/ (outcome' = "fail" /\ HasMachine /\ machine'.outcome = "fail")
      BY <3>1, EventEffect DEF RunnerInv, Types
    <3> QED
      BY <2>1, <2>3, <3>1, <3>2 DEF Decided, Startup, HasMachine
  <2> QED
    BY <2>2, <2>3
<1>19. CASE PollCompanion
  <2>1. pc = "companion" /\ UNCHANGED <<guestComplete, shotComplete>> /\ outcome # "pass"
    BY <1>19 DEF PollCompanion, RunnerInv, Decided
  <2>2. \/ /\ outcome' = "pass" /\ pc' = "stop" /\ guestComplete /\ shotComplete /\ companionComplete'
        \/ outcome' \in {outcome, "fail"} /\ pc' = "poll"
    BY <1>19 DEF PollCompanion
  <2> QED
    BY <2>1, <2>2 DEF Decided, Startup
<1>20. CASE PollProcess
  BY <1>20 DEF PollProcess, RunnerInv, Decided, Startup, HasMachine
<1>21. CASE HandleExit
  <2>1. pc = "exit" /\ UNCHANGED <<shotComplete, companionComplete>> /\ outcome # "pass"
    BY <1>21 DEF HandleExit, RunnerInv, Decided
  <2>2. /\ pc' \in {"top", "closed"}
        /\ outcome' = "pass" => outcome = "pass" \/ (guestComplete' /\ shotComplete /\ companionComplete)
    BY <1>21 DEF HandleExit
  <2> QED
    BY <2>1, <2>2 DEF Decided, Startup
<1>22. CASE CheckQmpClosed
  <2>1. pc = "closed" /\ pc' = "top" /\ outcome' \in {outcome, "fail"} /\ (outcome' = "pass" => outcome = "pass")
    BY <1>22 DEF CheckQmpClosed
  <2>2. UNCHANGED <<guestComplete, shotComplete, companionComplete>>
    BY <1>22 DEF CheckQmpClosed
  <2> QED
    BY <2>1, <2>2 DEF RunnerInv, Decided, Startup
<1>23. CASE Stop
  BY <1>23 DEF Stop, StopQemu, TerminateCompanion, RunnerInv, Decided, Startup, HasMachine
<1>24. CASE HandleError
  BY <1>24 DEF HandleError, StopQemu, TerminateCompanion, RunnerInv, Decided, Startup, HasMachine
<1> QED
  BY <1>2, <1>3, <1>4, <1>5, <1>6, <1>7, <1>8, <1>8a, <1>9, <1>10, <1>11, <1>12, <1>13, <1>14,
     <1>15, <1>16, <1>17, <1>18, <1>19, <1>20, <1>21, <1>22, <1>23, <1>24
     DEF Next, Environment, RunnerStep, Returned

\* The reason.
LEMMA ReasonedStep == RunnerInv /\ [Next]_vars => Reasoned'
<1> SUFFICES ASSUME RunnerInv, [Next]_vars PROVE Reasoned'
  OBVIOUS
<1> USE DEF control, verdict, progress, loopVars, runnerVars, clockVars, qemuVars, vars,
            Verdict, NoVerdict, Goto, Drain
<1>1. ASSUME UNCHANGED <<outcome, why, proc, pc, cfg, log, expired, code, graceOver>>
      PROVE  Reasoned'
  BY <1>1 DEF RunnerInv, Reasoned, HasMachine
<1>2. CASE \/ \E name \in Names : GuestPrint(name)
           \/ \E answer \in {"return", "image", "blank", "error"} : QmpReply(answer)
           \/ \E status \in {"exit 0", "exit 1"} : CompanionExit(status)
           \/ GuestNoise \/ GuestReset \/ OtherEvent \/ QmpClose \/ AwaitEvent
           \/ UNCHANGED vars
  BY <1>1, <1>2 DEF GuestPrint, GuestNoise, GuestReset, QmpSend, OtherEvent, QmpReply, QmpClose,
     CompanionExit, AwaitEvent
<1>3. ASSUME NEW status \in {"accepted", "other"}, NEW leak \in BOOLEAN, QemuExit(status, leak)
      PROVE  Reasoned'
  <2>1. code = "none" /\ proc = "running" /\ pc' = pc
    BY <1>3 DEF QemuExit, RunnerInv, Processes
  <2>2. UNCHANGED <<outcome, why, cfg, log, expired, graceOver>>
    BY <1>3 DEF QemuExit
  <2> QED
    BY <2>1, <2>2 DEF RunnerInv, Reasoned, HasMachine
<1>4. CASE DeadlinePasses
  BY <1>4 DEF DeadlinePasses, RunnerInv, Reasoned, HasMachine
<1>5. CASE GracePasses
  BY <1>5 DEF GracePasses, RunnerInv, Reasoned, HasMachine
<1>6. CASE Start
  BY <1>6 DEF Start, RunnerInv, Reasoned, HasMachine
<1>7. CASE StartFails
  BY <1>7 DEF StartFails, RunnerInv, Processes, Reasoned
<1>8. CASE Connect
  BY <1>8 DEF Connect, RunnerInv, Reasoned, HasMachine
<1>9. CASE AwaitReturn
  BY <1>9 DEF AwaitReturn, RunnerInv, Reasoned, HasMachine
<1>10. CASE StartupRaises
  BY <1>10 DEF StartupRaises, RunnerInv, Reasoned, HasMachine
<1>10a. CASE QmpRaises
  BY <1>10a DEF QmpRaises, RunnerInv, Reasoned, HasMachine
<1>11. CASE DrainRead
  <2>1. /\ log' = log \o pipe /\ cfg' = cfg /\ outcome = "none" /\ Types /\ Plan
        /\ pipe \in Seq(Token) /\ log \in Seq(Token)
    BY <1>11, AskEffect DEF RunnerInv, Queues
  <2>2. \A i \in DOMAIN pipe : Len(log) + i \in DOMAIN log' /\ log'[Len(log) + i] = pipe[i]
    BY <2>1, ConcatOf
  <2>3. \/ why' = "log limit"
        \/ why' = "serial" /\ (HasMachine \/ Has(pipe, "fail") \/ Has(pipe, "bad"))
        \/ outcome' = outcome
    BY <1>11, <2>1, ReadEffect DEF ReadLimit, ReadFails, ReadOn, ReadMatch
  <2>4. Has(pipe, "fail") \/ Has(pipe, "bad") =>
            \E i \in DOMAIN log' : log'[i].name \in {"fail", "bad"}
    BY <2>2 DEF Has
  <2> QED
    BY <2>1, <2>3, <2>4 DEF Reasoned, HasMachine
<1>12. CASE DrainTimeout
  <2>1. why' = "timeout" /\ expired /\ expired' = expired
    BY <1>12 DEF DrainTimeout, DrainDeadline
  <2> QED
    BY <2>1 DEF Reasoned
<1>13. CASE DrainReturn
  BY <1>13 DEF DrainReturn, RunnerInv, Reasoned, HasMachine
<1>14. CASE LoopTop
  <2>1. UNCHANGED <<cfg, proc, log, expired, code, graceOver>> /\ pc = "top"
    BY <1>14 DEF LoopTop
  <2>2. (outcome' = outcome /\ why' = why) \/ (why' = "timeout" /\ expired)
    BY <1>14 DEF LoopTop
  <2> QED
    BY <2>1, <2>2 DEF RunnerInv, Reasoned, HasMachine
<1>15. CASE DispatchEvent
  BY <1>15 DEF DispatchEvent, RunnerInv, Reasoned, HasMachine
<1>16. CASE QmpRecv
  BY <1>16 DEF QmpRecv, RunnerInv, Reasoned, HasMachine
<1>17. CASE HandleMessage
  <2>1. UNCHANGED <<cfg, pc, proc, log, expired, code, graceOver>> /\ pc = "messages" /\ inbox # <<>>
    BY <1>17 DEF HandleMessage
  <2>2. CASE HandleEvent(Head(inbox))
    <3>1. (outcome' = outcome /\ why' = why) \/ (why' = "reset" /\ HasMachine)
      BY <2>2, EventEffect DEF RunnerInv, Types
    <3> QED
      BY <2>1, <3>1 DEF RunnerInv, Reasoned, HasMachine
  <2>3. CASE Head(inbox) \in {"blank", "error"} /\ why' = "screendump"
    <3>1. ~AllEvents(inbox)
      <4>1. inbox \in Seq(Messages)
        BY DEF RunnerInv, Queues
      <4>2. inbox[1] = Head(inbox) /\ 1 \in DOMAIN inbox
        BY <2>1, <4>1, TailOf
      <4> QED
        BY <2>3, <4>2 DEF AllEvents, Events
    <3>2. cfg.shot
      BY <2>1, <3>1 DEF RunnerInv, Monitor, Loop
    <3> QED
      BY <2>1, <2>3, <3>2 DEF Reasoned
  <2>4. CASE outcome' = outcome /\ why' = why
    BY <2>1, <2>4 DEF RunnerInv, Reasoned, HasMachine
  <2> QED
    BY <1>17, <2>2, <2>3, <2>4 DEF HandleMessage
<1>18. CASE MessagesHandled
  BY <1>18 DEF MessagesHandled, RunnerInv, Reasoned, HasMachine
<1>19. CASE AfterEvents
  BY <1>19 DEF AfterEvents, RunnerInv, Reasoned, HasMachine
<1>20. CASE HandlePending
  <2>1. UNCHANGED <<cfg, proc, log, expired, code, graceOver>> /\ pc = "pending"
    BY <1>20 DEF HandlePending
  <2>2. (outcome' = outcome /\ why' = why) \/ (why' = "reset" /\ HasMachine)
    <3>1. CASE HandleEvent(Head(pending))
      BY <3>1, EventEffect DEF RunnerInv, Types
    <3> QED
      BY <1>20, <3>1 DEF HandlePending
  <2> QED
    BY <2>1, <2>2 DEF RunnerInv, Reasoned, HasMachine
<1>21. CASE PollCompanion
  <2>1. UNCHANGED <<cfg, proc, log, expired, code, graceOver>> /\ pc = "companion"
    BY <1>21 DEF PollCompanion
  <2>2. \/ outcome' = outcome /\ why' = why
        \/ outcome' = "pass"
        \/ why' = "companion" /\ companion = "exit 1"
    BY <1>21 DEF PollCompanion
  <2>3. companion = "exit 1" => cfg.companion
    BY DEF RunnerInv, Processes
  <2> QED
    BY <2>1, <2>2, <2>3 DEF RunnerInv, Reasoned, HasMachine
<1>22. CASE PollProcess
  BY <1>22 DEF PollProcess, RunnerInv, Reasoned, HasMachine
<1>23. CASE HandleExit
  <2>1. UNCHANGED <<cfg, proc, log, expired, code, graceOver>> /\ pc = "exit"
    BY <1>23 DEF HandleExit
  <2>2. code \in {"accepted", "other"}
    BY <2>1 DEF RunnerInv, Processes
  <2>3. cfg.accept => shotComplete
    BY TargetFacts DEF RunnerInv, Types, Monitor
  <2>4. \/ outcome' = outcome /\ why' = why
        \/ outcome' = "pass"
        \/ why' = "exited" /\ outcome = "none" /\ ~(guestComplete' /\ shotComplete) /\ serialEof
    BY <1>23 DEF HandleExit
  <2>5. CASE why' = "exited" /\ outcome = "none" /\ ~(guestComplete' /\ shotComplete) /\ serialEof
    <3>1. cfg.accept => ~(cfg.accept /\ code = "accepted")
      BY <1>23, <2>3, <2>5 DEF HandleExit
    <3> QED
      BY <2>1, <2>2, <2>5, <3>1 DEF Reasoned
  <2> QED
    BY <2>1, <2>4, <2>5 DEF RunnerInv, Reasoned, HasMachine
<1>24. CASE CheckQmpClosed
  <2>1. UNCHANGED <<cfg, proc, log, expired, code, graceOver>> /\ pc = "closed"
    BY <1>24 DEF CheckQmpClosed
  <2>2. (outcome' = outcome /\ why' = why) \/ (why' = "qmp closed" /\ graceOver)
    BY <1>24 DEF CheckQmpClosed, QmpLost
  <2> QED
    BY <2>1, <2>2 DEF RunnerInv, Reasoned, HasMachine
<1>25. CASE Stop
  BY <1>25 DEF Stop, StopQemu, TerminateCompanion, RunnerInv, Reasoned, HasMachine
<1>26. CASE HandleError
  <2>1. why' = "error"
    BY <1>26 DEF HandleError
  <2> QED
    BY <2>1 DEF Reasoned
<1> QED
  BY <1>2, <1>3, <1>4, <1>5, <1>6, <1>7, <1>8, <1>9, <1>10, <1>10a, <1>11, <1>12, <1>13, <1>14,
     <1>15, <1>16, <1>17, <1>18, <1>19, <1>20, <1>21, <1>22, <1>23, <1>24, <1>25, <1>26
     DEF Next, Environment, RunnerStep, Returned

\* A queue of RESETs stays one.
LEMMA ResetsLeft ==
    ASSUME NEW S, NEW s \in Seq(S), OnlyResets(s)
    PROVE  /\ OnlyResets(<<>>)
           /\ s # <<>> => OnlyResets(Tail(s)) /\ Head(s) # "other event"
<1>1. OnlyResets(<<>>)
  <2>1. DOMAIN <<>> = {}
    OBVIOUS
  <2> QED
    BY <2>1 DEF OnlyResets
<1>2. ASSUME s # <<>> PROVE OnlyResets(Tail(s)) /\ Head(s) # "other event"
  <2> DEFINE t == Tail(s)
  <2>1. /\ Head(s) = s[1] /\ 1 \in DOMAIN s
        /\ \A i \in DOMAIN t : i + 1 \in DOMAIN s /\ t[i] = s[i + 1]
    BY <1>2, TailOf
  <2> HIDE DEF t
  <2>2. OnlyResets(t) /\ Head(s) # "other event"
    BY <2>1 DEF OnlyResets
  <2> QED
    BY <2>2 DEF t
<1> QED
  BY <1>1, <1>2

\* The sources the selector watches.
LEMMA SourcesStep == RunnerInv /\ [Next]_vars => Sources'
<1> SUFFICES ASSUME RunnerInv, [Next]_vars PROVE Sources'
  OBVIOUS
<1> USE DEF control, verdict, progress, loopVars, runnerVars, clockVars, qemuVars, vars,
            Verdict, NoVerdict, Goto, Drain
<1>1. ASSUME UNCHANGED <<pipeClosed, proc, serialEof, pipe, ready, sock, sockClosed,
                          pc, ret>>
      PROVE  Sources'
  BY <1>1 DEF RunnerInv, Sources
<1>2. CASE \/ \E status \in {"exit 0", "exit 1"} : CompanionExit(status)
           \/ GuestNoise \/ DeadlinePasses \/ GracePasses \/ DrainTimeout
           \/ HandleMessage \/ UNCHANGED vars
  BY <1>1, <1>2 DEF GuestNoise, CompanionExit, DeadlinePasses, GracePasses, DrainTimeout, HandleMessage
<1>3. ASSUME NEW name \in Names, GuestPrint(name)
      PROVE  Sources'
  <2>1. ~serialEof /\ UNCHANGED <<pipeClosed, proc, serialEof, ready, sock, sockClosed, pc, ret>>
    BY <1>3 DEF GuestPrint, RunnerInv, Sources
  <2> QED
    BY <2>1 DEF RunnerInv, Sources, Startup
<1>4. CASE GuestReset
  <2>1. sock' # <<>> /\ UNCHANGED <<pipeClosed, proc, serialEof, pipe, ready, sockClosed, pc, ret>>
    <3>1. sock \in Seq(Messages) /\ "RESET" \in Messages /\ sock' = Append(sock, "RESET")
      BY <1>4 DEF GuestReset, QmpSend, RunnerInv, Queues, Messages, Events
    <3>2. sock' # <<>>
      BY <3>1, AppendOf
    <3> QED
      BY <1>4, <3>2 DEF GuestReset, QmpSend
  <2> QED
    BY <2>1 DEF RunnerInv, Sources, Startup
<1>5. CASE OtherEvent
  <2>1. sock' # <<>> /\ UNCHANGED <<pipeClosed, proc, serialEof, pipe, ready, sockClosed, pc, ret>>
    <3>1. sock \in Seq(Messages) /\ "other event" \in Messages /\ sock' = Append(sock, "other event")
      BY <1>5 DEF OtherEvent, QmpSend, RunnerInv, Queues, Messages, Events
    <3>2. sock' # <<>>
      BY <3>1, AppendOf
    <3> QED
      BY <1>5, <3>2 DEF OtherEvent, QmpSend
  <2> QED
    BY <2>1 DEF RunnerInv, Sources, Startup
<1>6. ASSUME NEW answer \in {"return", "image", "blank", "error"}, QmpReply(answer)
      PROVE  Sources'
  <2>1. sock' # <<>> /\ UNCHANGED <<pipeClosed, proc, serialEof, pipe, ready, sockClosed, pc, ret>>
    <3>1. sock \in Seq(Messages) /\ answer \in Messages /\ sock' = Append(sock, answer)
      BY <1>6 DEF QmpReply, QmpSend, RunnerInv, Queues, Messages, Events
    <3>2. sock' # <<>>
      BY <3>1, AppendOf
    <3> QED
      BY <1>6, <3>2 DEF QmpReply, QmpSend
  <2> QED
    BY <2>1 DEF RunnerInv, Sources, Startup
<1>7. CASE QmpClose
  BY <1>7 DEF QmpClose, RunnerInv, Sources, Startup
<1>8. ASSUME NEW status \in {"accepted", "other"}, NEW leak \in BOOLEAN, QemuExit(status, leak)
      PROVE  Sources'
  BY <1>8 DEF QemuExit, RunnerInv, Sources, Startup
<1>9. CASE Start
  BY <1>9 DEF Start, RunnerInv, Processes, Sources, Startup
<1>10. CASE StartFails
  BY <1>10 DEF StartFails, RunnerInv, Sources, Startup
<1>11. CASE Connect
  BY <1>11 DEF Connect, RunnerInv, Sources, Startup
<1>12. CASE AwaitEvent
  <2>1. pc \in {"negotiate", "resolve"} /\ ready = {}
    BY <1>12 DEF AwaitEvent, RunnerInv, Sources, Startup
  <2> QED
    BY <1>12, <2>1 DEF AwaitEvent, RunnerInv, Sources, Startup
<1>13. CASE AwaitReturn
  <2>1. pc \in {"negotiate", "resolve"} /\ ready = {}
    BY <1>13 DEF AwaitReturn, RunnerInv, Sources, Startup
  <2> QED
    BY <1>13, <2>1 DEF AwaitReturn, RunnerInv, Sources, Startup
<1>14. CASE StartupRaises
  BY <1>14 DEF StartupRaises, RunnerInv, Sources, Startup
<1>14a. CASE QmpRaises
  BY <1>14a DEF QmpRaises, RunnerInv, Sources, Startup
<1>15. CASE DrainRead
  <2>1. /\ pc = "drain" /\ pc' \in {"drain", "error"} /\ ret' = ret /\ ~serialEof
        /\ UNCHANGED <<pipeClosed, proc, serialEof, ready, sock, sockClosed>>
    BY <1>15, AskEffect DEF DrainRead
  <2> QED
    BY <2>1 DEF RunnerInv, Sources, Startup
<1>16. CASE DrainReturn
  <2>1. /\ pc = "drain" /\ pc' = ret /\ ret' = ret /\ serialEof' = (serialEof \/ (outcome = "none" /\ pipeClosed))
        /\ serialEof \/ outcome # "none" \/ pipe = <<>>
    BY <1>16 DEF DrainReturn
  <2>2. UNCHANGED <<pipeClosed, proc, pipe, ready, sock, sockClosed>>
    BY <1>16 DEF DrainReturn
  <2> QED
    BY <2>1, <2>2 DEF RunnerInv, Sources, Types, Startup
<1>17. CASE LoopTop
  <2>1. /\ pc' \in {"stop", "events"}
        /\ ready' = ready \/ ready' = {source \in {"serial", "qmp"} : Readable(source)}
        /\ UNCHANGED <<pipeClosed, proc, serialEof, pipe, sock, sockClosed>>
    BY <1>17 DEF LoopTop
  <2>2. Readable("qmp") => sock # <<>> \/ sockClosed
    BY DEF Readable
  <2> QED
    BY <2>1, <2>2 DEF RunnerInv, Sources, Startup
<1>18. CASE DispatchEvent
  BY <1>18 DEF DispatchEvent, RunnerInv, Sources, Startup
<1>19. CASE QmpRecv
  BY <1>19 DEF QmpRecv, RunnerInv, Sources, Startup
<1>20. CASE MessagesHandled
  BY <1>20 DEF MessagesHandled, RunnerInv, Sources, Startup
<1>21. CASE AfterEvents
  BY <1>21 DEF AfterEvents, RunnerInv, Sources, Startup
<1>22. CASE HandlePending
  BY <1>22 DEF HandlePending, HandleEvent, MachineEvent, RunnerInv, Sources, Startup
<1>23. CASE PollCompanion
  BY <1>23 DEF PollCompanion, CompanionDone, RunnerInv, Sources, Startup
<1>24. CASE PollProcess
  BY <1>24 DEF PollProcess, RunnerInv, Sources, Startup
<1>25. CASE HandleExit
  BY <1>25 DEF HandleExit, MachineClose, RunnerInv, Sources, Startup
<1>26. CASE CheckQmpClosed
  BY <1>26 DEF CheckQmpClosed, RunnerInv, Sources, Startup
<1>27. CASE Stop
  BY <1>27 DEF Stop, StopQemu, TerminateCompanion, RunnerInv, Sources, Startup
<1>28. CASE HandleError
  BY <1>28 DEF HandleError, StopQemu, TerminateCompanion, RunnerInv, Sources, Startup
<1> QED
  BY <1>2, <1>3, <1>4, <1>5, <1>6, <1>7, <1>8, <1>9, <1>10, <1>11, <1>12, <1>13, <1>14, <1>14a,
     <1>15, <1>16, <1>17, <1>18, <1>19, <1>20, <1>21, <1>22, <1>23, <1>24, <1>25, <1>26,
     <1>27, <1>28
     DEF Next, Environment, RunnerStep, Returned

\* The events of a target that is not chatty.
LEMMA ResetsStep == RunnerInv /\ [Next]_vars => Resets'
<1> SUFFICES ASSUME RunnerInv, [Next]_vars PROVE Resets'
  OBVIOUS
<1> USE DEF control, verdict, progress, loopVars, runnerVars, clockVars, qemuVars, vars,
            Verdict, NoVerdict, Goto, Drain
<1>1. ASSUME UNCHANGED <<cfg, sock, inbox, pending>>
      PROVE  Resets'
  BY <1>1 DEF RunnerInv, Resets
<1>2. CASE \/ \E name \in Names : GuestPrint(name)
           \/ \E status \in {"accepted", "other"}, leak \in BOOLEAN : QemuExit(status, leak)
           \/ \E status \in {"exit 0", "exit 1"} : CompanionExit(status)
           \/ GuestNoise \/ QmpClose \/ DeadlinePasses \/ GracePasses \/ Start
           \/ StartFails \/ Connect \/ StartupRaises \/ QmpRaises \/ DrainRead \/ DrainTimeout
           \/ DrainReturn \/ LoopTop \/ DispatchEvent \/ MessagesHandled
           \/ AfterEvents \/ PollCompanion \/ PollProcess \/ HandleExit
           \/ CheckQmpClosed \/ Stop \/ HandleError \/ UNCHANGED vars
  BY <1>1, <1>2 DEF GuestPrint, GuestNoise, QmpClose, QemuExit, CompanionExit, DeadlinePasses,
     GracePasses, Start, StartFails, Connect, StartupRaises, QmpRaises, DrainRead, DrainTimeout,
     DrainReturn, LoopTop, DispatchEvent, MessagesHandled, AfterEvents, PollCompanion,
     PollProcess, HandleExit, CheckQmpClosed, Stop, StopQemu, TerminateCompanion,
     HandleError
<1>3. CASE GuestReset
  <2>1. sock \in Seq(Messages) /\ "RESET" \in Messages /\ sock' = Append(sock, "RESET") /\ "RESET" # "other event"
    BY <1>3 DEF GuestReset, QmpSend, RunnerInv, Queues, Messages, Events
  <2>2. OnlyResets(sock) => OnlyResets(sock')
    <3>1. \A i \in DOMAIN sock' : (i \in DOMAIN sock /\ sock'[i] = sock[i]) \/ sock'[i] = "RESET"
      BY <2>1, AppendOf
    <3> QED
      BY <2>1, <3>1 DEF OnlyResets
  <2> QED
    BY <1>3, <2>2 DEF GuestReset, QmpSend, RunnerInv, Resets
<1>4. CASE OtherEvent
  BY <1>4 DEF OtherEvent, QmpSend, Resets
<1>5. ASSUME NEW answer \in {"return", "image", "blank", "error"}, QmpReply(answer)
      PROVE  Resets'
  <2>1. sock \in Seq(Messages) /\ answer \in Messages /\ sock' = Append(sock, answer) /\ answer # "other event"
    BY <1>5 DEF QmpReply, QmpSend, RunnerInv, Queues, Messages, Events
  <2>2. OnlyResets(sock) => OnlyResets(sock')
    <3>1. \A i \in DOMAIN sock' : (i \in DOMAIN sock /\ sock'[i] = sock[i]) \/ sock'[i] = answer
      BY <2>1, AppendOf, ZenonT(60)
    <3> QED
      BY <2>1, <3>1 DEF OnlyResets
  <2> QED
    BY <1>5, <2>2 DEF QmpReply, QmpSend, RunnerInv, Resets
<1>6. CASE AwaitEvent
  <2>1. /\ sock \in Seq(Messages) /\ sock # <<>> /\ pending \in Seq(Events) /\ Head(sock) \in Events
        /\ sock' = Tail(sock)
        /\ Head(sock) # "other event" => pending' = Append(pending, Head(sock))
    BY <1>6 DEF AwaitEvent, RunnerInv, Queues, Events
  <2>2. OnlyResets(sock) => OnlyResets(sock') /\ Head(sock) # "other event"
    BY <2>1, ResetsLeft
  <2>3. OnlyResets(pending) /\ Head(sock) # "other event" => OnlyResets(pending')
    <3>0. SUFFICES ASSUME OnlyResets(pending), Head(sock) # "other event"
                   PROVE  OnlyResets(pending')
      OBVIOUS
    <3>1. \A i \in DOMAIN pending' : (i \in DOMAIN pending /\ pending'[i] = pending[i]) \/ pending'[i] = Head(sock)
      <4>1. pending \in Seq(Events) /\ Head(sock) \in Events /\ pending' = Append(pending, Head(sock))
        BY <2>1, <3>0
      <4> QED
        BY <4>1, AppendOf
    <3> QED
      BY <3>0, <3>1 DEF OnlyResets
  <2> QED
    BY <1>6, <2>2, <2>3 DEF AwaitEvent, RunnerInv, Resets
<1>7. CASE AwaitReturn
  <2>1. sock \in Seq(Messages) /\ sock # <<>> /\ sock' = Tail(sock)
    BY <1>7 DEF AwaitReturn, RunnerInv, Queues
  <2>2. OnlyResets(sock) => OnlyResets(sock')
    BY <2>1, ResetsLeft
  <2> QED
    BY <1>7, <2>2 DEF AwaitReturn, RunnerInv, Resets
<1>8. CASE QmpRecv
  <2>1. OnlyResets(<<>>)
    <3>1. DOMAIN <<>> = {}
      OBVIOUS
    <3> QED
      BY <3>1 DEF OnlyResets
  <2> QED
    BY <1>8, <2>1 DEF QmpRecv, RunnerInv, Resets
<1>9. CASE HandleMessage
  <2>1. inbox \in Seq(Messages) /\ inbox # <<>> /\ inbox' = Tail(inbox)
    BY <1>9 DEF HandleMessage, RunnerInv, Queues
  <2>2. OnlyResets(inbox) => OnlyResets(inbox')
    BY <2>1, ResetsLeft
  <2> QED
    BY <1>9, <2>2 DEF HandleMessage, RunnerInv, Resets
<1>10. CASE HandlePending
  <2>1. pending \in Seq(Events) /\ (pending' \in {pending, <<>>} \/ (pending # <<>> /\ pending' = Tail(pending)))
    BY <1>10 DEF HandlePending, RunnerInv, Queues
  <2>2. OnlyResets(pending) => OnlyResets(pending')
    BY <2>1, ResetsLeft
  <2> QED
    BY <1>10, <2>2 DEF HandlePending, RunnerInv, Resets
<1> QED
  BY <1>2, <1>3, <1>4, <1>5, <1>6, <1>7, <1>8, <1>9, <1>10
     DEF Next, Environment, RunnerStep, Returned

\* While the machine runs no screendump has been asked for.
LEMMA MatchingAsksNothing ==
    ASSUME RunnerInv, HasMachine, machine.outcome # "pass"
    PROVE  ~shotAsked /\ ~guestComplete
<1> QED
  BY DEF RunnerInv, Plan

\* Lengths, as numbers.
LEMMA Lengths ==
    ASSUME RunnerInv
    PROVE  /\ Len(sock) \in Nat /\ Len(inbox) \in Nat /\ Len(pending) \in Nat
           /\ boot \in Nat /\ machine.phase \in Nat
<1> QED
  BY DEF RunnerInv, Queues, Types, MachineState


\* Where only RESETs are sent, a message handled while the machine runs on is the
\* RESET it was waiting for.
LEMMA MessageIsReset ==
    ASSUME RunnerInv, HandleMessage, ~cfg.chatty, HasMachine, machine'.outcome = "running"
    PROVE  /\ machine.outcome = "running" /\ machine.waiting /\ ~machine'.waiting
           /\ machine'.phase = machine.phase + 1 /\ outcome' = outcome
<1>1. inbox \in Seq(Messages) /\ inbox # <<>> /\ pc = "messages" /\ machine \in MachineState
  BY DEF HandleMessage, RunnerInv, Queues, Types
<1>2. machine.outcome = "running"
  <2>1. CASE HandleEvent(Head(inbox))
    BY <1>1, <2>1, EventEffect
  <2>2. CASE machine' = machine
    BY <2>2
  <2> QED
    BY <2>1, <2>2 DEF HandleMessage, NoVerdict, Verdict
<1>3. AllEvents(inbox) /\ OnlyResets(inbox)
  BY <1>1, <1>2, MatchingAsksNothing DEF RunnerInv, Monitor, Resets, Loop
<1>4. Head(inbox) = "RESET"
  BY <1>1, <1>3, TailOf DEF AllEvents, OnlyResets, Events
<1>5. HandleEvent("RESET")
  BY <1>4 DEF HandleMessage, Events
<1> QED
  BY <1>1, <1>2, <1>5, EventEffect

\* The same of the events set aside during the start.
LEMMA PendingIsReset ==
    ASSUME RunnerInv, HandlePending, ~cfg.chatty, HasMachine, machine'.outcome = "running",
           pending # <<>>, outcome = "none"
    PROVE  /\ machine.outcome = "running" /\ machine.waiting /\ ~machine'.waiting
           /\ machine'.phase = machine.phase + 1 /\ pending' = Tail(pending) /\ pc' = pc
<1>1. pending \in Seq(Events) /\ OnlyResets(pending) /\ machine \in MachineState
  BY DEF RunnerInv, Queues, Resets, Types
<1>2. Head(pending) = "RESET"
  <2>1. Head(pending) \in Events /\ Head(pending) # "other event"
    BY <1>1, TailOf, ResetsLeft
  <2> QED
    BY <2>1 DEF Events
<1>3. HandleEvent("RESET")
  BY <1>2 DEF HandlePending
<1>4. /\ machine.outcome = "running" /\ machine.waiting /\ ~machine'.waiting
      /\ machine'.phase = machine.phase + 1 /\ outcome' = outcome
  BY <1>1, <1>3, EventEffect
<1>5. outcome' # "fail"
  BY <1>4
<1> QED
  BY <1>4, <1>5 DEF HandlePending, control

\* The RESETs.
LEMMA CountedStep == RunnerInv /\ [Next]_vars => Counted'
<1> SUFFICES ASSUME RunnerInv, [Next]_vars PROVE Counted'
  OBVIOUS
<1> USE DEF control, verdict, progress, loopVars, runnerVars, clockVars, qemuVars, vars,
            Verdict, NoVerdict, Goto, Drain
<1>1. ASSUME UNCHANGED <<cfg, boot, pc, request, machine, sock, inbox, pending>>
      PROVE  Counted'
  BY <1>1 DEF RunnerInv, Counted, Matching, Answered, HasMachine
<1>2. CASE \/ \E name \in Names : GuestPrint(name)
           \/ \E status \in {"accepted", "other"}, leak \in BOOLEAN : QemuExit(status, leak)
           \/ \E status \in {"exit 0", "exit 1"} : CompanionExit(status)
           \/ GuestNoise \/ QmpClose \/ DeadlinePasses \/ GracePasses
           \/ UNCHANGED vars
  BY <1>1, <1>2 DEF GuestPrint, GuestNoise, QmpClose, QemuExit, CompanionExit, DeadlinePasses,
     GracePasses
<1>3. CASE GuestReset
  <2>1. UNCHANGED <<cfg, pc, request, machine, inbox, pending>> /\ boot' = boot + 1
    BY <1>3 DEF GuestReset, QmpSend
  <2>2. Len(sock') = Len(sock) + 1
    <3>1. sock \in Seq(Messages) /\ "RESET" \in Messages /\ sock' = Append(sock, "RESET")
      BY <1>3 DEF GuestReset, QmpSend, RunnerInv, Queues, Messages, Events
    <3> QED
      BY <3>1, AppendOf
  <2>3. boot \in Nat /\ Len(sock) \in Nat /\ Len(inbox) \in Nat /\ Len(pending) \in Nat
        /\ machine.phase \in Nat
    BY Lengths
  <2>4. (Matching' <=> Matching) /\ (Answered' <=> Answered)
    BY <2>1 DEF Matching, Answered, HasMachine
  <2> QED
    <3>1. Counted
      BY DEF RunnerInv
    <3> QED
      BY <2>1, <2>2, <2>3, <2>4, <3>1, SMTT(40) DEF Counted
<1>4. CASE OtherEvent
  BY <1>4 DEF OtherEvent, QmpSend, Counted
<1>5. ASSUME NEW answer \in {"return", "image", "blank", "error"}, QmpReply(answer)
      PROVE  Counted'
  <2>1. /\ UNCHANGED <<cfg, pc, boot, machine, inbox, pending>>
        /\ request # "none" /\ request' = "none"
    BY <1>5 DEF QmpReply, QmpSend
  <2>2. Len(sock') = Len(sock) + 1
    <3>1. sock \in Seq(Messages) /\ answer \in Messages /\ sock' = Append(sock, answer)
      BY <1>5 DEF QmpReply, QmpSend, RunnerInv, Queues, Messages, Events
    <3> QED
      BY <3>1, AppendOf
  <2>3. boot \in Nat /\ Len(sock) \in Nat /\ Len(inbox) \in Nat /\ Len(pending) \in Nat
        /\ machine.phase \in Nat
    BY Lengths
  <2>4. Matching => pc \in {"negotiate", "resolve"}
    <3>1. pc \notin {"start", "connect"}
      BY <2>1 DEF RunnerInv, Monitor
    <3>2. pc \in Loop => ~Matching
      BY <2>1, MatchingAsksNothing DEF RunnerInv, Monitor, Matching
    <3> QED
      BY <3>1, <3>2 DEF RunnerInv, Types, Startup, Matching
  <2> QED
    BY <2>1, <2>2, <2>3, <2>4, SMTT(40) DEF RunnerInv, Counted, Matching, Answered, HasMachine
<1>6. CASE Start
  BY <1>6 DEF Start, RunnerInv, Counted, Matching, Answered, HasMachine, Finished
<1>7. CASE StartFails
  BY <1>7 DEF StartFails, RunnerInv, Counted, Matching, Answered, HasMachine, Finished
<1>8. CASE Connect
  BY <1>8 DEF Connect, RunnerInv, Counted, Matching, Answered, HasMachine, Finished
<1>9. CASE AwaitEvent
  <2>1. UNCHANGED <<cfg, pc, request, boot, machine, inbox>>
    BY <1>9 DEF AwaitEvent
  <2>0. SUFFICES ASSUME ~cfg.chatty PROVE Counted'
    BY <2>1 DEF Counted
  <2>2. Len(sock') = Len(sock) - 1 /\ Len(pending') = Len(pending) + 1
    <3>1. /\ sock \in Seq(Messages) /\ sock # <<>> /\ pending \in Seq(Events) /\ Head(sock) \in Events
          /\ sock' = Tail(sock)
          /\ Head(sock) # "other event" => pending' = Append(pending, Head(sock))
      BY <1>9 DEF AwaitEvent, RunnerInv, Queues, Events
    <3>2. Head(sock) # "other event"
      BY <2>0, <3>1, ResetsLeft DEF RunnerInv, Resets
    <3>3. pending' = Append(pending, Head(sock))
      BY <3>1, <3>2
    <3> QED
      BY <3>1, <3>3, TailOf, AppendOf
  <2>3. boot \in Nat /\ Len(sock) \in Nat /\ Len(inbox) \in Nat /\ Len(pending) \in Nat
        /\ machine.phase \in Nat
    BY Lengths
  <2>4. (Matching' <=> Matching) /\ (Answered' <=> Answered)
    BY <2>1 DEF Matching, Answered, HasMachine
  <2> QED
    <3>1. Counted
      BY DEF RunnerInv
    <3>2. machine'.phase + Len(sock') + Len(inbox') + Len(pending')
            = machine.phase + Len(sock) + Len(inbox) + Len(pending)
      <4>1. machine'.phase = machine.phase /\ Len(inbox') = Len(inbox)
        BY <2>1
      <4> DEFINE a == Len(sock)
                 b == Len(inbox)
                 c == Len(pending)
                 n == machine.phase
      <4>2. a \in Nat /\ b \in Nat /\ c \in Nat /\ n \in Nat
        BY <2>3
      <4>3. machine'.phase = n /\ Len(sock') = a - 1 /\ Len(inbox') = b /\ Len(pending') = c + 1
        BY <2>2, <4>1
      <4> HIDE DEF a, b, c, n
      <4>4. n + (a - 1) + b + (c + 1) = n + a + b + c
        BY <4>2
      <4> QED
        BY <4>3, <4>4 DEF a, b, c, n
    <3> QED
      BY <2>1, <2>4, <3>1, <3>2 DEF Counted
<1>10. CASE AwaitReturn
  <2>1. UNCHANGED <<cfg, boot, machine, inbox, pending>> /\ pc \in {"negotiate", "resolve"}
    BY <1>10 DEF AwaitReturn
  <2>2. /\ sock \in Seq(Messages) /\ sock # <<>> /\ sock' = Tail(sock) /\ Head(sock) \notin Events
    BY <1>10 DEF AwaitReturn, RunnerInv, Queues, Events
  <2>3. boot \in Nat /\ Len(sock) \in Nat /\ Len(inbox) \in Nat /\ Len(pending) \in Nat
        /\ machine.phase \in Nat
    BY Lengths
  <2>4. Len(sock') = Len(sock) - 1
    BY <2>2, TailOf
  <2>5. Answered /\ ~Answered'
    <3>1. ~AllEvents(sock)
      BY <2>2, FewerMessages DEF RunnerInv, Monitor
    <3>2. request = "none"
      BY <3>1 DEF RunnerInv, Monitor
    <3>3. pc' = "top" \/ (pc' = "resolve" /\ request' = "info usernet")
      BY <1>10 DEF AwaitReturn
    <3> QED
      BY <2>1, <3>2, <3>3 DEF Answered
  <2>6. Matching' => Matching
    BY <2>1 DEF Matching, HasMachine, Finished
  <2> QED
    BY <2>1, <2>3, <2>4, <2>5, <2>6, SMTT(40) DEF RunnerInv, Counted
<1>11. CASE StartupRaises
  BY <1>11 DEF StartupRaises, RunnerInv, Counted, Matching, Answered, HasMachine, Finished
<1>11a. CASE QmpRaises
  BY <1>11a DEF QmpRaises, RunnerInv, Counted, Matching, Answered, HasMachine, Finished
<1>12. CASE DrainRead
  <2>1. cfg' = cfg /\ pc = "drain" /\ pc' \in {"drain", "error"}
    BY <1>12, AskEffect
  <2>2. UNCHANGED <<boot, sock, inbox, pending>>
    BY <1>12 DEF DrainRead
  <2>3. machine'.outcome = "running" => machine.outcome = "running" /\ machine'.phase = machine.phase
    BY <1>12, ReadEffect DEF RunnerInv, ReadLimit, ReadFails, ReadOn, ReadMatch
  <2> QED
    BY <2>1, <2>2, <2>3 DEF RunnerInv, Counted, Matching, Answered, HasMachine, Finished
<1>13. CASE DrainTimeout
  <2>1. UNCHANGED <<cfg, boot, sock, inbox, pending>> /\ pc \in {"drain", "top", "exit"}
        /\ pc' \in {"drain", "stop", "events", "top", "closed"}
    BY <1>13 DEF DrainTimeout
  <2>2. machine' = machine \/ machine' = MachineClose(machine)
    BY <1>13 DEF DrainTimeout
  <2>3. machine'.outcome = "running" => machine' = machine
    BY <2>2, ClosedMachine DEF RunnerInv, Types
  <2> QED
    BY <2>1, <2>3 DEF RunnerInv, Counted, Matching, Answered, HasMachine, Finished
<1>14. CASE DrainReturn
  <2>1. UNCHANGED <<cfg, boot, request, machine, sock, inbox, pending>> /\ pc = "drain" /\ pc' = ret
    BY <1>14 DEF DrainReturn
  <2>2. pc' \in {"top", "events", "recv", "pending", "exit"}
    BY <2>1 DEF RunnerInv, Types
  <2> QED
    BY <2>1, <2>2 DEF RunnerInv, Counted, Matching, Answered, HasMachine, Finished
<1>15. CASE LoopTop
  <2>1. UNCHANGED <<cfg, boot, sock, inbox, pending>> /\ pc \in {"drain", "top", "exit"}
        /\ pc' \in {"drain", "stop", "events", "top", "closed"}
    BY <1>15 DEF LoopTop
  <2>2. machine' = machine \/ machine' = MachineClose(machine)
    BY <1>15 DEF LoopTop
  <2>3. machine'.outcome = "running" => machine' = machine
    BY <2>2, ClosedMachine DEF RunnerInv, Types
  <2> QED
    BY <2>1, <2>3 DEF RunnerInv, Counted, Matching, Answered, HasMachine, Finished
<1>16. CASE DispatchEvent
  BY <1>16 DEF DispatchEvent, RunnerInv, Counted, Matching, Answered, HasMachine, Finished
<1>17. CASE QmpRecv
  <2>1. UNCHANGED <<cfg, boot, machine, pending>> /\ pc = "recv" /\ pc' \in {"after", "messages"}
    BY <1>17 DEF QmpRecv
  <2>2. inbox = <<>> /\ Len(<<>>) = 0
    BY <2>1 DEF RunnerInv, Monitor
  <2>3. (inbox' = sock /\ sock' = <<>>) \/ (inbox' = inbox /\ sock' = sock)
    BY <1>17 DEF QmpRecv
  <2>4. boot \in Nat /\ Len(sock) \in Nat /\ Len(inbox) \in Nat /\ Len(pending) \in Nat
        /\ machine.phase \in Nat
    BY Lengths
  <2> QED
    BY <2>1, <2>2, <2>3, <2>4, SMTT(40) DEF RunnerInv, Counted, Matching, Answered, HasMachine, Finished
<1>18. CASE HandleMessage
  <2>1. UNCHANGED <<cfg, pc, boot, sock, pending>> /\ pc = "messages" /\ inbox # <<>> /\ inbox' = Tail(inbox)
    BY <1>18 DEF HandleMessage
  <2>2. Len(inbox') = Len(inbox) - 1
    BY <2>1, TailOf DEF RunnerInv, Queues
  <2>3. boot \in Nat /\ Len(sock) \in Nat /\ Len(inbox) \in Nat /\ Len(pending) \in Nat
        /\ machine.phase \in Nat
    BY Lengths
  <2>4. SUFFICES ASSUME ~cfg.chatty, Matching' PROVE Counted'
    BY <2>1 DEF Counted
  <2>5. /\ HasMachine /\ machine.outcome = "running" /\ machine.waiting
        /\ machine'.phase = machine.phase + 1
    BY <1>18, <2>1, <2>4, MessageIsReset DEF Matching, HasMachine
  <2>6. Matching /\ ~Answered /\ ~Answered'
    BY <2>1, <2>5 DEF Matching, Answered, Finished
  <2> QED
    <3>1. Counted
      BY DEF RunnerInv
    <3>2. UNCHANGED <<cfg, boot, sock, pending>>
      BY <2>1
    <3>3. machine'.phase + Len(sock') + Len(inbox') + Len(pending')
            = machine.phase + Len(sock) + Len(inbox) + Len(pending)
      BY <2>2, <2>3, <2>5, <3>2
    <3> QED
      BY <2>4, <2>6, <3>1, <3>2, <3>3 DEF Counted
<1>19. CASE MessagesHandled
  BY <1>19 DEF MessagesHandled, RunnerInv, Counted, Matching, Answered, HasMachine, Finished
<1>20. CASE AfterEvents
  BY <1>20 DEF AfterEvents, RunnerInv, Counted, Matching, Answered, HasMachine, Finished
<1>21. CASE HandlePending
  <2>1. UNCHANGED <<cfg, boot, sock, inbox>> /\ pc = "pending" /\ pc' \in {"pending", "stop", "companion"}
    BY <1>21 DEF HandlePending
  <2>2. CASE pending' = pending /\ machine' = machine
    BY <2>1, <2>2 DEF RunnerInv, Counted, Matching, Answered, HasMachine, Finished
  <2>3. boot \in Nat /\ Len(sock) \in Nat /\ Len(inbox) \in Nat /\ Len(pending) \in Nat
        /\ machine.phase \in Nat
    BY Lengths
  <2>4. CASE pending # <<>> /\ outcome = "none"
    <3>1. SUFFICES ASSUME ~cfg.chatty, Matching' PROVE Counted'
      BY <2>1 DEF Counted
    <3>2. /\ HasMachine /\ machine.outcome = "running" /\ machine'.phase = machine.phase + 1
          /\ pending' = Tail(pending)
      BY <1>21, <2>1, <2>4, <3>1, PendingIsReset DEF Matching, HasMachine
    <3>3. Len(pending') = Len(pending) - 1
      BY <2>4, <3>2, TailOf DEF RunnerInv, Queues
    <3>4. Matching /\ ~Answered /\ ~Answered'
      BY <2>1, <3>2 DEF Matching, Answered, Finished
    <3> QED
      BY <2>1, <2>3, <3>1, <3>2, <3>3, <3>4, SMTT(40) DEF RunnerInv, Counted
  <2> QED
    BY <1>21, <2>2, <2>4 DEF HandlePending
<1>22. CASE PollCompanion
  BY <1>22 DEF PollCompanion, CompanionDone, RunnerInv, Counted, Matching, Answered, HasMachine,
     Finished
<1>23. CASE PollProcess
  BY <1>23 DEF PollProcess, RunnerInv, Counted, Matching, Answered, HasMachine, Finished
<1>24. CASE HandleExit
  <2>1. UNCHANGED <<cfg, boot, sock, inbox, pending>> /\ pc \in {"drain", "top", "exit"}
        /\ pc' \in {"drain", "stop", "events", "top", "closed"}
    BY <1>24 DEF HandleExit
  <2>2. machine' = machine \/ machine' = MachineClose(machine)
    BY <1>24 DEF HandleExit
  <2>3. machine'.outcome = "running" => machine' = machine
    BY <2>2, ClosedMachine DEF RunnerInv, Types
  <2> QED
    BY <2>1, <2>3 DEF RunnerInv, Counted, Matching, Answered, HasMachine, Finished
<1>25. CASE CheckQmpClosed
  BY <1>25 DEF CheckQmpClosed, RunnerInv, Counted, Matching, Answered, HasMachine, Finished
<1>26. CASE Stop
  BY <1>26 DEF Stop, StopQemu, TerminateCompanion, RunnerInv, Counted, Matching, Answered,
     HasMachine, Finished
<1>27. CASE HandleError
  BY <1>27 DEF HandleError, StopQemu, TerminateCompanion, RunnerInv, Counted, Matching, Answered,
     HasMachine, Finished
<1> QED
  BY <1>2, <1>3, <1>4, <1>5, <1>6, <1>7, <1>8, <1>9, <1>10, <1>11, <1>11a, <1>12, <1>13, <1>14,
     <1>15, <1>16, <1>17, <1>18, <1>19, <1>20, <1>21, <1>22, <1>23, <1>24, <1>25, <1>26,
     <1>27
     DEF Next, Environment, RunnerStep, Returned

\* The boot the guest prints in, against the phase of the machine.
LEMMA BootsAhead ==
    ASSUME RunnerInv, ~cfg.chatty, Matching
    PROVE  /\ boot >= machine.phase
           /\ pc = "recv" /\ sock # <<>> => boot >= machine.phase + 1
           /\ pc = "messages" /\ inbox # <<>> => boot >= machine.phase + 1
           /\ pc = "pending" /\ pending # <<>> => boot >= machine.phase + 1
<1> DEFINE a == Len(sock)
           b == Len(inbox)
           c == Len(pending)
           n == machine.phase
<1>1. a \in Nat /\ b \in Nat /\ c \in Nat /\ n \in Nat /\ boot \in Nat
  BY Lengths
<1>2. boot + (IF Answered THEN 1 ELSE 0) = n + a + b + c
  BY DEF RunnerInv, Counted
<1>3. (sock # <<>> => a # 0) /\ (inbox # <<>> => b # 0) /\ (pending # <<>> => c # 0)
  BY DEF RunnerInv, Queues
<1>4. Answered => a # 0
  <2>1. Answered => ~AllEvents(sock)
    BY DEF RunnerInv, Monitor
  <2>2. sock = <<>> => AllEvents(sock)
    BY DEF AllEvents
  <2> QED
    BY <1>3, <2>1, <2>2
<1>5. Answered => pc \notin {"recv", "messages", "pending"}
  BY DEF Answered
<1> HIDE DEF a, b, c, n
<1>6. CASE Answered
  <2>1. boot + 1 = n + a + b + c /\ a # 0
    BY <1>2, <1>4, <1>6
  <2>2. boot >= n
    BY <1>1, <2>1
  <2> QED
    BY <1>5, <1>6, <2>2 DEF n
<1>7. CASE ~Answered
  <2>1. boot = n + a + b + c
    BY <1>1, <1>2, <1>7
  <2>2. boot >= n /\ (a # 0 \/ b # 0 \/ c # 0 => boot >= n + 1)
    BY <1>1, <2>1
  <2> QED
    BY <1>3, <2>2 DEF n
<1> QED
  BY <1>6, <1>7

\* What the pipe holds.
LEMMA DrainedStep == RunnerInv /\ [Next]_vars => Drained'
<1> SUFFICES ASSUME RunnerInv, [Next]_vars PROVE Drained'
  OBVIOUS
<1> USE DEF control, verdict, progress, loopVars, runnerVars, clockVars, qemuVars, vars,
            Verdict, NoVerdict, Goto, Drain
<1>1. ASSUME UNCHANGED <<cfg, pipe, machine, pc, outcome, sock, inbox, pending>>
      PROVE  Drained'
  BY <1>1 DEF RunnerInv, Drained, Matching, HasMachine, Beyond
<1>2. CASE \/ \E status \in {"accepted", "other"}, leak \in BOOLEAN : QemuExit(status, leak)
           \/ \E status \in {"exit 0", "exit 1"} : CompanionExit(status)
           \/ GuestNoise \/ QmpClose \/ DeadlinePasses \/ GracePasses
           \/ UNCHANGED vars
  BY <1>1, <1>2 DEF GuestNoise, QmpClose, QemuExit, CompanionExit, DeadlinePasses, GracePasses
<1>3. ASSUME NEW name \in Names, GuestPrint(name)
      PROVE  Drained'
  <2>1. UNCHANGED <<cfg, machine, pc, outcome, sock, inbox, pending, boot>>
    BY <1>3 DEF GuestPrint
  <2>2. SUFFICES ASSUME ~cfg.chatty, Matching PROVE Drained'
    BY <2>1 DEF Drained, Matching, HasMachine
  <2> DEFINE token == [name |-> name, boot |-> boot]
  <2>3. token \in Token /\ pipe \in Seq(Token) /\ pipe' = Append(pipe, token) /\ token.boot = boot
    BY <1>3, RunnerAssumption DEF GuestPrint, RunnerInv, Queues, Token
  <2> HIDE DEF token
  <2>4. \A i \in DOMAIN pipe' : (i \in DOMAIN pipe /\ pipe'[i] = pipe[i]) \/ pipe'[i] = token
    BY <2>3, AppendOf
  <2>5. \A k : Beyond(k) /\ boot >= k => \A i \in DOMAIN pipe' : pipe'[i].boot >= k
    BY <2>3, <2>4 DEF Beyond
  <2>6. /\ Beyond(machine.phase) /\ boot >= machine.phase
        /\ pc = "recv" /\ outcome = "none" /\ sock # <<>> =>
               Beyond(machine.phase + 1) /\ boot >= machine.phase + 1
        /\ pc = "messages" /\ machine.waiting /\ inbox # <<>> =>
               Beyond(machine.phase + 1) /\ boot >= machine.phase + 1
        /\ pc = "pending" /\ outcome = "none" /\ machine.waiting /\ pending # <<>> =>
               Beyond(machine.phase + 1) /\ boot >= machine.phase + 1
    BY <2>2, BootsAhead DEF RunnerInv, Drained
  <2>7. /\ \A i \in DOMAIN pipe' : pipe'[i].boot >= machine.phase
        /\ Beyond(machine.phase + 1) /\ boot >= machine.phase + 1 =>
               \A i \in DOMAIN pipe' : pipe'[i].boot >= machine.phase + 1
    BY <2>5, <2>6
  <2> QED
    BY <2>1, <2>6, <2>7 DEF Drained, Beyond
<1>4. CASE GuestReset
  <2>1. UNCHANGED <<cfg, pipe, machine, pc, outcome, inbox, pending>> /\ ~sockClosed
    BY <1>4 DEF GuestReset, QmpSend
  <2>2. pc = "recv" => sock # <<>>
    BY <2>1 DEF RunnerInv, Sources
  <2> QED
    BY <2>1, <2>2 DEF RunnerInv, Drained, Matching, Beyond, HasMachine
<1>5. CASE OtherEvent
  BY <1>5 DEF OtherEvent, QmpSend, Drained
<1>6. ASSUME NEW answer \in {"return", "image", "blank", "error"}, QmpReply(answer)
      PROVE  Drained'
  <2>1. UNCHANGED <<cfg, pipe, machine, pc, outcome, inbox, pending>> /\ ~sockClosed
    BY <1>6 DEF QmpReply, QmpSend
  <2>2. pc = "recv" => sock # <<>>
    BY <2>1 DEF RunnerInv, Sources
  <2> QED
    BY <2>1, <2>2 DEF RunnerInv, Drained, Matching, Beyond, HasMachine
<1>7. CASE Start
  BY <1>7 DEF Start, RunnerInv, Drained, Matching, HasMachine, Beyond, Finished
<1>8. CASE StartFails
  BY <1>8 DEF StartFails, RunnerInv, Drained, Matching, HasMachine, Beyond, Finished
<1>9. CASE Connect
  BY <1>9 DEF Connect, RunnerInv, Drained, Matching, HasMachine, Beyond, Finished
<1>10. CASE AwaitEvent
  BY <1>10 DEF AwaitEvent, RunnerInv, Drained, Matching, HasMachine, Beyond, Finished
<1>11. CASE AwaitReturn
  BY <1>11 DEF AwaitReturn, RunnerInv, Drained, Matching, HasMachine, Beyond, Finished
<1>12. CASE StartupRaises
  BY <1>12 DEF StartupRaises, RunnerInv, Drained, Matching, HasMachine, Beyond, Finished
<1>12a. CASE QmpRaises
  BY <1>12a DEF QmpRaises, RunnerInv, Drained, Matching, HasMachine, Beyond, Finished
<1>13. CASE DrainRead
  <2>1. pipe' = <<>>
    BY <1>13, AskEffect
  <2> QED
    BY <2>1 DEF Drained, Beyond
<1>14. CASE DrainTimeout
  <2>1. UNCHANGED <<cfg, pipe, sock, inbox, pending>> /\ pc \in {"drain", "top", "exit"}
        /\ pc' \in {"drain", "stop", "events", "top", "closed"}
    BY <1>14 DEF DrainTimeout
  <2>2. machine' = machine \/ machine' = MachineClose(machine)
    BY <1>14 DEF DrainTimeout
  <2>3. machine'.outcome = "running" => machine' = machine
    BY <2>2, ClosedMachine DEF RunnerInv, Types
  <2>4. Matching' => Matching
    BY <2>1, <2>3 DEF Matching, HasMachine, Finished
  <2> QED
    BY <2>1, <2>3, <2>4 DEF RunnerInv, Drained, Matching, Beyond
<1>15. CASE DrainReturn
  <2>1. UNCHANGED <<cfg, pipe, machine, outcome, sock, inbox, pending>> /\ pc = "drain" /\ pc' = ret
    BY <1>15 DEF DrainReturn
  <2>2. ret \in {"top", "events", "recv", "pending", "exit"}
    BY DEF RunnerInv, Types
  <2>3. outcome # "none" \/ pipe = <<>>
    BY <1>15 DEF DrainReturn, RunnerInv, Sources
  <2>4. pipe = <<>> => Beyond(machine.phase + 1)
    BY DEF Beyond
  <2>5. Matching' => Matching
    BY <2>1, <2>2 DEF Matching, HasMachine, Finished
  <2> QED
    BY <2>1, <2>2, <2>3, <2>4, <2>5 DEF RunnerInv, Drained, Beyond
<1>16. CASE LoopTop
  <2>1. UNCHANGED <<cfg, pipe, sock, inbox, pending>> /\ pc \in {"drain", "top", "exit"}
        /\ pc' \in {"drain", "stop", "events", "top", "closed"}
    BY <1>16 DEF LoopTop
  <2>2. machine' = machine \/ machine' = MachineClose(machine)
    BY <1>16 DEF LoopTop
  <2>3. machine'.outcome = "running" => machine' = machine
    BY <2>2, ClosedMachine DEF RunnerInv, Types
  <2>4. Matching' => Matching
    BY <2>1, <2>3 DEF Matching, HasMachine, Finished
  <2> QED
    BY <2>1, <2>3, <2>4 DEF RunnerInv, Drained, Matching, Beyond
<1>17. CASE DispatchEvent
  BY <1>17 DEF DispatchEvent, RunnerInv, Drained, Matching, HasMachine, Beyond, Finished
<1>18. CASE QmpRecv
  <2>1. UNCHANGED <<cfg, pipe, machine, outcome, pending>> /\ pc = "recv"
    BY <1>18 DEF QmpRecv
  <2>2. pc' = "after" \/ (pc' = "messages" /\ sock # <<>> /\ outcome = "none")
    BY <1>18 DEF QmpRecv
  <2>3. Matching' => Matching
    BY <2>1 DEF Matching, HasMachine, Finished
  <2> QED
    BY <2>1, <2>2, <2>3 DEF RunnerInv, Drained, Beyond
<1>19. CASE HandleMessage
  <2>1. UNCHANGED <<cfg, pc, pipe>> /\ pc = "messages" /\ inbox # <<>>
    BY <1>19 DEF HandleMessage
  <2>2. SUFFICES ASSUME ~cfg.chatty, Matching' PROVE Drained'
    BY <2>1 DEF Drained
  <2>3. /\ HasMachine /\ machine.outcome = "running" /\ machine.waiting /\ ~machine'.waiting
        /\ machine'.phase = machine.phase + 1
    BY <1>19, <2>1, <2>2, MessageIsReset DEF Matching, HasMachine
  <2>4. Beyond(machine.phase + 1)
    BY <2>1, <2>2, <2>3 DEF RunnerInv, Drained, Matching, Finished
  <2> QED
    BY <2>1, <2>3, <2>4 DEF Drained, Beyond
<1>20. CASE MessagesHandled
  BY <1>20 DEF MessagesHandled, RunnerInv, Drained, Matching, HasMachine, Beyond, Finished
<1>21. CASE AfterEvents
  BY <1>21 DEF AfterEvents, RunnerInv, Drained, Matching, HasMachine, Beyond, Finished
<1>22. CASE HandlePending
  <2>1. UNCHANGED <<cfg, pipe>> /\ pc = "pending"
    BY <1>22 DEF HandlePending
  <2>2. CASE pc' \in {"stop", "companion"} /\ machine' = machine
    BY <2>1, <2>2 DEF RunnerInv, Drained, Matching, HasMachine, Beyond, Finished
  <2>3. CASE pending # <<>> /\ outcome = "none"
    <3>1. SUFFICES ASSUME ~cfg.chatty, Matching' PROVE Drained'
      BY <2>1 DEF Drained
    <3>2. /\ HasMachine /\ machine.outcome = "running" /\ machine.waiting /\ ~machine'.waiting
          /\ machine'.phase = machine.phase + 1 /\ pc' = pc
      BY <1>22, <2>1, <2>3, <3>1, PendingIsReset DEF Matching, HasMachine
    <3>3. Beyond(machine.phase + 1)
      BY <2>1, <2>3, <3>1, <3>2 DEF RunnerInv, Drained, Matching, Finished
    <3> QED
      BY <2>1, <3>2, <3>3 DEF Drained, Beyond
  <2> QED
    BY <1>22, <2>2, <2>3 DEF HandlePending
<1>23. CASE PollCompanion
  BY <1>23 DEF PollCompanion, CompanionDone, RunnerInv, Drained, Matching, HasMachine, Beyond,
     Finished
<1>24. CASE PollProcess
  BY <1>24 DEF PollProcess, RunnerInv, Drained, Matching, HasMachine, Beyond, Finished
<1>25. CASE HandleExit
  <2>1. UNCHANGED <<cfg, pipe, sock, inbox, pending>> /\ pc \in {"drain", "top", "exit"}
        /\ pc' \in {"drain", "stop", "events", "top", "closed"}
    BY <1>25 DEF HandleExit
  <2>2. machine' = machine \/ machine' = MachineClose(machine)
    BY <1>25 DEF HandleExit
  <2>3. machine'.outcome = "running" => machine' = machine
    BY <2>2, ClosedMachine DEF RunnerInv, Types
  <2>4. Matching' => Matching
    BY <2>1, <2>3 DEF Matching, HasMachine, Finished
  <2> QED
    BY <2>1, <2>3, <2>4 DEF RunnerInv, Drained, Matching, Beyond
<1>26. CASE CheckQmpClosed
  BY <1>26 DEF CheckQmpClosed, RunnerInv, Drained, Matching, HasMachine, Beyond, Finished
<1>27. CASE Stop
  BY <1>27 DEF Stop, StopQemu, TerminateCompanion, RunnerInv, Drained, Matching, HasMachine,
     Beyond, Finished
<1>28. CASE HandleError
  <2>1. pipe' = <<>>
    BY <1>28 DEF HandleError
  <2> QED
    BY <2>1 DEF Drained, Beyond
<1> QED
  BY <1>2, <1>3, <1>4, <1>5, <1>6, <1>7, <1>8, <1>9, <1>10, <1>11, <1>12, <1>12a, <1>13, <1>14,
     <1>15, <1>16, <1>17, <1>18, <1>19, <1>20, <1>21, <1>22, <1>23, <1>24, <1>25, <1>26,
     <1>27, <1>28
     DEF Next, Environment, RunnerStep, Returned

\* The boots of the markers.
LEMMA BehindStep == RunnerInv /\ [Next]_vars => Behind'
<1> SUFFICES ASSUME RunnerInv, [Next]_vars PROVE Behind'
  OBVIOUS
<1> USE DEF control, verdict, progress, loopVars, runnerVars, clockVars, qemuVars, vars,
            Verdict, NoVerdict, Goto, Drain
<1>1. ASSUME UNCHANGED <<cfg, matched>>
      PROVE  Behind'
  BY <1>1 DEF RunnerInv, Behind, PreResetBytesStayBehind
<1>2. CASE \/ \E name \in Names : GuestPrint(name)
           \/ \E answer \in {"return", "image", "blank", "error"} : QmpReply(answer)
           \/ \E status \in {"accepted", "other"}, leak \in BOOLEAN : QemuExit(status, leak)
           \/ \E status \in {"exit 0", "exit 1"} : CompanionExit(status)
           \/ GuestNoise \/ GuestReset \/ OtherEvent \/ QmpClose
           \/ DeadlinePasses \/ GracePasses \/ Start \/ StartFails \/ Connect
           \/ AwaitEvent \/ AwaitReturn \/ StartupRaises \/ QmpRaises \/ DrainTimeout
           \/ DrainReturn \/ LoopTop \/ DispatchEvent \/ QmpRecv \/ HandleMessage
           \/ MessagesHandled \/ AfterEvents \/ HandlePending \/ PollCompanion
           \/ PollProcess \/ HandleExit \/ CheckQmpClosed \/ Stop \/ HandleError
           \/ UNCHANGED vars
  BY <1>1, <1>2 DEF GuestPrint, GuestNoise, GuestReset, QmpSend, OtherEvent, QmpReply, QmpClose,
     QemuExit, CompanionExit, DeadlinePasses, GracePasses, Start, StartFails, Connect,
     AwaitEvent, AwaitReturn, StartupRaises, QmpRaises, DrainTimeout, DrainReturn, LoopTop,
     DispatchEvent, QmpRecv, HandleMessage, MessagesHandled, AfterEvents, HandlePending,
     PollCompanion, PollProcess, HandleExit, CheckQmpClosed, Stop, StopQemu,
     TerminateCompanion, HandleError
<1>3. CASE DrainRead
  <2>1. cfg' = cfg /\ pc = "drain" /\ Types /\ Plan
    BY <1>3, AskEffect DEF RunnerInv
  <2>2. CASE matched' = matched
    BY <2>1, <2>2 DEF RunnerInv, Behind, PreResetBytesStayBehind
  <2>3. CASE ReadMatch
    <3>1. SUFFICES ASSUME ~cfg.chatty PROVE PreResetBytesStayBehind'
      BY <2>1 DEF Behind
    <3>2. Matching /\ machine.phase \in Nat /\ Len(matched) = machine.phase - 1
      BY <2>1, <2>3 DEF ReadMatch, Matching, Finished, Plan, Types, MachineState
    <3>3. PICK i \in DOMAIN pipe : FirstOk(pipe) = pipe[i].boot
      BY <2>3, FirstOkFound DEF ReadMatch, Has, RunnerInv, Queues
    <3>4. FirstOk(pipe) >= machine.phase /\ FirstOk(pipe) \in Nat
      <4>1. pipe[i] \in Token
        BY <3>3 DEF RunnerInv, Queues
      <4>2. pipe[i].boot >= machine.phase
        BY <3>1, <3>2, <3>3 DEF RunnerInv, Drained, Beyond
      <4> QED
        BY <3>3, <4>1, <4>2 DEF Token
    <3>5. matched \in Seq(Nat) /\ matched' = Append(matched, FirstOk(pipe))
      BY <2>3 DEF ReadMatch, RunnerInv, Queues
    <3>6. \A p \in DOMAIN matched' : \/ p \in DOMAIN matched /\ matched'[p] = matched[p]
                                     \/ p = Len(matched) + 1 /\ matched'[p] = FirstOk(pipe)
      BY <3>4, <3>5, AppendOf
    <3>7. \A p \in DOMAIN matched : matched[p] >= p
      BY <3>1 DEF RunnerInv, Behind, PreResetBytesStayBehind
    <3>8. Len(matched) + 1 = machine.phase
      BY <3>2
    <3> QED
      BY <3>4, <3>6, <3>7, <3>8 DEF PreResetBytesStayBehind
  <2> QED
    BY <1>3, <2>1, <2>2, <2>3, ReadEffect DEF ReadLimit, ReadFails, ReadOn
<1> QED
  BY <1>2, <1>3
     DEF Next, Environment, RunnerStep, Returned

-----------------------------------------------------------------------------
(***************************************************************************)
(* The theorems.                                                           *)
(***************************************************************************)

\* The inductive invariant holds throughout every run of every target.
THEOREM RunnerInvariant == Spec => []RunnerInv
<1>1. Init => RunnerInv
  <2> SUFFICES ASSUME Init PROVE RunnerInv
    OBVIOUS
  <2>1. /\ cfg \in Configs /\ cfg.phases \in Nat \ {0}
        /\ cfg.accept => cfg.kind = "legacy" /\ ~cfg.shot
    BY TargetFacts DEF Init
  <2>2. /\ machine \in MachineState /\ machine.phase = 1 /\ ~machine.waiting
        /\ machine.outcome = "running"
    BY DEF Init, MachineState
  <2>3. \A S : <<>> \in Seq(S) /\ Len(<<>>) = 0 /\ DOMAIN <<>> = {}
    OBVIOUS
  <2>4. Types /\ Queues
    BY <2>1, <2>2, <2>3 DEF Init, Types, Queues
  <2>5. Processes /\ Monitor
    BY <2>1, <2>3 DEF Init, Processes, Monitor, AllEvents, OneAnswer, Answered, Startup, Loop
  <2>6. Plan /\ Output
    BY <2>1, <2>2, <2>3 DEF Init, Plan, Output, HasMachine
  <2>7. Decided /\ Reasoned
    BY DEF Init, Decided, Reasoned, Startup
  <2>8. Sources /\ Resets
    BY <2>3 DEF Init, Sources, Resets, OnlyResets, Startup
  <2>9. Counted /\ Drained /\ Behind
    BY <2>2, <2>3 DEF Init, Counted, Drained, Behind, PreResetBytesStayBehind, Answered, Beyond
  <2> QED
    BY <2>4, <2>5, <2>6, <2>7, <2>8, <2>9 DEF RunnerInv
<1>2. RunnerInv /\ [Next]_vars => RunnerInv'
  BY TypesStep, QueuesStep, ProcessesStep, MonitorStep, PlanStep, OutputStep, DecidedStep,
     ReasonedStep, SourcesStep, ResetsStep, CountedStep, DrainedStep, BehindStep DEF RunnerInv
<1> QED
  BY <1>1, <1>2, PTL DEF Spec

\* A test passes only when all of it succeeded: the three branches that give the
\* verdict look at flags, and the flags tell the truth about the machine, the output,
\* the exit status, the screendump and the companion.
THEOREM PassEarned == Spec => []PassIsEarned
<1>1. RunnerInv => PassIsEarned
  <2> SUFFICES ASSUME RunnerInv, outcome = "pass" PROVE PassIsEarned
    BY DEF PassIsEarned
  <2>1. guestComplete /\ shotComplete /\ companionComplete
    BY DEF RunnerInv, Decided
  <2>2. HasMachine => machine.outcome = "pass" /\ Len(matched) = cfg.phases
    BY <2>1 DEF RunnerInv, Plan
  <2>3. ~HasMachine => "ok" \in NamesIn(log) \/ (cfg.accept /\ code = "accepted")
    BY <2>1 DEF RunnerInv, Plan, NamesIn
  <2>4. cfg.shot => shotAsked /\ request # "screendump"
    BY <2>1 DEF RunnerInv, Monitor
  <2>5. cfg.companion => companion = "exit 0"
    BY <2>1 DEF RunnerInv, Processes
  <2> QED
    BY <2>2, <2>3, <2>4, <2>5 DEF PassIsEarned
<1> QED
  BY <1>1, RunnerInvariant, PTL

\* Output that fails the test is never overlooked, in whatever pieces it is read.
THEOREM FailuresNeverPass == Spec => []FailureOutputNeverPasses
<1>1. RunnerInv => FailureOutputNeverPasses
  <2> SUFFICES ASSUME RunnerInv, outcome = "pass" PROVE FailureOutputNeverPasses
    BY DEF FailureOutputNeverPasses
  <2>1. "fail" \notin NamesIn(log)
    BY DEF RunnerInv, Output, NamesIn
  <2>2. CASE ~HasMachine
    BY <2>1, <2>2 DEF RunnerInv, Output, NamesIn, FailureOutputNeverPasses
  <2>3. CASE HasMachine
    <3>1. machine.outcome = "pass" /\ log \in Seq(Token) /\ passAt \in Nat /\ passAt <= Len(log)
      BY <2>3 DEF RunnerInv, Decided, Plan, Output, Queues
    <3>2. \A k \in 1..passAt : log[k].name # "bad"
      BY <2>3, <3>1 DEF RunnerInv, Output
    <3> DEFINE s == SubSeq(log, 1, passAt)
    <3>3. \A k \in DOMAIN s : k \in 1..passAt /\ s[k] = log[k]
      BY <3>1
    <3> HIDE DEF s
    <3>4. "bad" \notin NamesIn(s)
      BY <3>2, <3>3 DEF NamesIn
    <3> QED
      BY <2>1, <2>3, <3>4 DEF FailureOutputNeverPasses, s
  <2> QED
    BY <2>2, <2>3
<1> QED
  BY <1>1, RunnerInvariant, PTL

\* An accepted exit status decides the test whatever the order in which the end of the
\* monitor, the exit and the last output become visible.
THEOREM ExitStatusDecides == Spec => []AcceptedExitIsAuthoritative
<1>1. RunnerInv => AcceptedExitIsAuthoritative
  <2> SUFFICES ASSUME RunnerInv, pc = "done", cfg.accept, ~cfg.companion, code = "accepted",
                      ~expired, ~graceOver, NamesIn(log) \cap {"fail", "bad"} = {},
                      why \notin {"error", "log limit"}, outcome # "pass"
               PROVE  FALSE
    BY DEF AcceptedExitIsAuthoritative
  <2>1. outcome = "fail"
    BY DEF RunnerInv, Decided, Types
  <2>2. ~HasMachine /\ ~cfg.shot
    BY TargetFacts DEF RunnerInv, Types, HasMachine
  <2>3. proc # "none"
    BY DEF RunnerInv, Processes
  <2>4. ~ \E k \in DOMAIN log : log[k].name \in {"fail", "bad"}
    BY DEF NamesIn
  <2> QED
    BY <2>1, <2>2, <2>3, <2>4 DEF RunnerInv, Reasoned
<1> QED
  BY <1>1, RunnerInvariant, PTL

\* For a target whose QEMU sends no event but RESETs, a phase is never completed by
\* bytes printed before the RESET that opened it.  (With other events it may be: see
\* the run RunnerResetRace.)
THEOREM BytesStayBehind == Spec => [](~cfg.chatty => PreResetBytesStayBehind)
<1>1. RunnerInv => (~cfg.chatty => PreResetBytesStayBehind)
  BY DEF RunnerInv, Behind
<1> QED
  BY <1>1, RunnerInvariant, PTL

-----------------------------------------------------------------------------
(***************************************************************************)
(* Every step of the runner is a step of TestRun.                          *)
(***************************************************************************)

\* What is owed never grows when none of its parts is taken back.
LEMMA OwedShrinks ==
    ASSUME cfg' = cfg,
           machine.outcome = "pass" => machine'.outcome = "pass",
           "ok" \in NamesIn(log) => "ok" \in NamesIn(log'),
           code = "accepted" => code' = "accepted",
           shotComplete => shotComplete',
           companion = "exit 0" => companion' = "exit 0"
    PROVE  Owed' \subseteq Owed
<1> QED
  BY DEF Owed, HasMachine, NamesIn

\* A step that touches none of what Owed reads leaves it alone.
LEMMA OwedSame ==
    ASSUME UNCHANGED <<cfg, machine, log, code>>, shotComplete' = shotComplete, companion' = companion
    PROVE  Owed' = Owed
<1> QED
  BY DEF Owed, HasMachine, NamesIn

\* The steps of TestRun, from what changes in Runner: first the steps it does not see.
LEMMA Stutters ==
    ASSUME Owed' = Owed, UNCHANGED <<proc, companion, outcome>>, pc' = "done" <=> pc = "done"
    PROVE  [Promise!Next]_(Promise!vars)
<1>1. Live' = Live
  BY DEF Live
<1>2. (pc = "done")' = (pc = "done")
  OBVIOUS
<1> QED
  BY <1>1, <1>2 DEF Promise!vars

\* The step of TestRun that gives the verdict.
LEMMA Decides ==
    ASSUME UNCHANGED <<proc, companion>>, pc # "done", pc' # "done", outcome = "none",
           outcome' \in {"pass", "fail"}, outcome' = "pass" => Owed = {}, Owed' \subseteq Owed
    PROVE  [Promise!Next]_(Promise!vars)
<1>1. Live' = Live
  BY DEF Live
<1>2. (pc = "done")' = (pc = "done") /\ ~(pc = "done")
  OBVIOUS
<1>3. Promise!Decide(outcome')
  BY <1>1, <1>2 DEF Promise!Decide
<1> QED
  BY <1>3 DEF Promise!Next

\* The step that meets one goal.
LEMMA Reaches ==
    ASSUME NEW g \in {"guest", "screen", "companion"}, g \in Owed, Owed' = Owed \ {g},
           UNCHANGED <<proc, companion, outcome>>, pc # "done", pc' # "done"
    PROVE  [Promise!Next]_(Promise!vars)
<1>1. Live' = Live
  BY DEF Live
<1>2. (pc = "done")' = (pc = "done") /\ ~(pc = "done")
  OBVIOUS
<1>3. Promise!Reach(g)
  BY <1>1, <1>2 DEF Promise!Reach
<1> QED
  BY <1>3 DEF Promise!Next

\* The step that returns.
LEMMA Returns ==
    ASSUME pc # "done", pc' = "done", proc' # "running", companion' # "running",
           outcome' = IF outcome = "none" THEN "fail" ELSE outcome, Owed' \subseteq Owed
    PROVE  [Promise!Next]_(Promise!vars)
<1>1. Live' = {}
  BY DEF Live
<1>2. (pc = "done")' = TRUE /\ ~(pc = "done")
  OBVIOUS
<1>3. Promise!Return
  BY <1>1, <1>2 DEF Promise!Return
<1> QED
  BY <1>3 DEF Promise!Next

\* The step in which a process ends.
LEMMA Exits ==
    ASSUME NEW p \in {"qemu", "companion"}, p \in Live, Live' = Live \ {p},
           UNCHANGED <<outcome, pc>>, Owed' \subseteq Owed
    PROVE  [Promise!Next]_(Promise!vars)
<1>1. Promise!Exit(p)
  BY DEF Promise!Exit
<1> QED
  BY <1>1 DEF Promise!Next

\* The step that starts a process.
LEMMA Launches ==
    ASSUME NEW p \in {"qemu", "companion"}, p \notin Live, Live' = Live \cup {p},
           outcome = "none", outcome' = outcome, pc # "done", pc' # "done", Owed' = Owed
    PROVE  [Promise!Next]_(Promise!vars)
<1>1. (pc = "done")' = (pc = "done") /\ ~(pc = "done")
  OBVIOUS
<1>2. Promise!Launch(p)
  BY <1>1 DEF Promise!Launch
<1> QED
  BY <1>2 DEF Promise!Next

\* Nothing is owed when the flags say so.
LEMMA NothingOwed ==
    ASSUME RunnerInv, guestComplete \/ (cfg.accept /\ code = "accepted"), shotComplete,
           cfg.companion => companion = "exit 0"
    PROVE  Owed = {}
<1>1. \/ HasMachine /\ machine.outcome = "pass"
      \/ ~HasMachine /\ "ok" \in NamesIn(log)
      \/ cfg.accept /\ code = "accepted"
  BY DEF RunnerInv, Plan, NamesIn
<1> QED
  BY <1>1 DEF Owed

\* One step per action.
LEMMA RefinementStep == RunnerInv /\ [Next]_vars => [Promise!Next]_(Promise!vars)
<1> SUFFICES ASSUME RunnerInv, [Next]_vars PROVE [Promise!Next]_(Promise!vars)
  OBVIOUS
<1> USE DEF control, verdict, progress, loopVars, runnerVars, clockVars, qemuVars, vars,
            Verdict, NoVerdict, Goto, Drain
<1>1. ASSUME UNCHANGED <<cfg, machine, log, code, shotComplete, companion, proc,
                          outcome, pc>>
      PROVE  [Promise!Next]_(Promise!vars)
  BY <1>1, OwedSame, Stutters
<1>2. CASE \/ \E name \in Names : GuestPrint(name)
           \/ \E answer \in {"return", "image", "blank", "error"} : QmpReply(answer)
           \/ GuestNoise \/ GuestReset \/ OtherEvent \/ QmpClose
           \/ DeadlinePasses \/ GracePasses \/ AwaitEvent \/ UNCHANGED vars
  BY <1>1, <1>2 DEF GuestPrint, GuestNoise, GuestReset, QmpSend, OtherEvent, QmpReply, QmpClose,
     DeadlinePasses, GracePasses, AwaitEvent
<1>3. ASSUME NEW status \in {"accepted", "other"}, NEW leak \in BOOLEAN, QemuExit(status, leak)
      PROVE  [Promise!Next]_(Promise!vars)
  <2>1. /\ UNCHANGED <<cfg, machine, log, shotComplete, companion, outcome, pc>> /\ code = "none"
        /\ proc = "running" /\ proc' = "exited"
    BY <1>3 DEF QemuExit, RunnerInv, Processes
  <2>2. Owed' \subseteq Owed
    BY <2>1, OwedShrinks
  <2>3. "qemu" \in Live /\ Live' = Live \ {"qemu"}
    BY <2>1 DEF Live
  <2> QED
    BY <2>1, <2>2, <2>3, Exits
<1>4. ASSUME NEW status \in {"exit 0", "exit 1"}, CompanionExit(status)
      PROVE  [Promise!Next]_(Promise!vars)
  <2>1. /\ UNCHANGED <<cfg, machine, log, code, shotComplete, proc, outcome, pc>>
        /\ companion = "running" /\ companion' = status
    BY <1>4 DEF CompanionExit
  <2>2. Owed' \subseteq Owed
    BY <2>1, OwedShrinks
  <2>3. "companion" \in Live /\ Live' = Live \ {"companion"}
    BY <2>1 DEF Live
  <2> QED
    BY <2>1, <2>2, <2>3, Exits
<1>5. CASE Start
  <2>1. /\ UNCHANGED <<cfg, machine, log, code, shotComplete, companion, outcome>>
        /\ proc = "none" /\ proc' = "running" /\ outcome = "none" /\ pc # "done" /\ pc' # "done"
    BY <1>5 DEF Start, RunnerInv, Processes, Decided
  <2>2. "qemu" \notin Live /\ Live' = Live \cup {"qemu"}
    BY <2>1 DEF Live
  <2> QED
    BY <2>1, <2>2, OwedSame, Launches
<1>6. CASE StartFails
  <2>1. /\ UNCHANGED <<cfg, machine, log, code, shotComplete, companion, proc>>
        /\ pc = "start" /\ pc' = "done" /\ outcome' = "fail"
    BY <1>6 DEF StartFails
  <2>2. proc = "none" /\ companion = "none" /\ outcome = "none"
    BY <2>1 DEF RunnerInv, Processes, Decided
  <2> QED
    BY <2>1, <2>2, OwedSame, Returns
<1>7. CASE Connect
  <2>1. UNCHANGED <<cfg, machine, log, code, shotComplete, companion, proc, outcome>>
    BY <1>7 DEF Connect
  <2>2. pc # "done" /\ pc' # "done"
    BY <1>7 DEF Connect
  <2> QED
    BY <2>1, <2>2, OwedSame, Stutters
<1>8. CASE AwaitReturn
  <2>1. /\ UNCHANGED <<cfg, machine, log, code, shotComplete, proc, outcome>>
        /\ pc \in Startup /\ pc # "done" /\ pc' # "done" /\ companion' \in {companion, "running"}
    BY <1>8 DEF AwaitReturn, Startup
  <2>2. outcome = "none" /\ companion = "none"
    BY <2>1 DEF RunnerInv, Decided, Processes
  <2>3. CASE companion' = companion
    BY <2>1, <2>3, OwedSame, Stutters
  <2>4. CASE companion' = "running"
    <3>1. Owed' = Owed
      <4>1. cfg.companion' = cfg.companion /\ companion # "exit 0" /\ companion' # "exit 0"
        BY <2>1, <2>2, <2>4
      <4> QED
        BY <2>1, <4>1 DEF Owed, HasMachine, NamesIn
    <3>2. "companion" \notin Live /\ Live' = Live \cup {"companion"}
      BY <2>1, <2>2, <2>4 DEF Live
    <3> QED
      BY <2>1, <2>2, <3>1, <3>2, Launches
  <2> QED
    BY <2>1, <2>3, <2>4
<1>9. CASE StartupRaises
  <2>1. UNCHANGED <<cfg, machine, log, code, shotComplete, companion, proc, outcome>>
    BY <1>9 DEF StartupRaises
  <2>2. pc # "done" /\ pc' # "done"
    BY <1>9 DEF StartupRaises
  <2> QED
    BY <2>1, <2>2, OwedSame, Stutters
<1>9a. CASE QmpRaises
  <2>1. UNCHANGED <<cfg, machine, log, code, shotComplete, companion, proc, outcome>>
    BY <1>9a DEF QmpRaises
  <2>2. pc # "done" /\ pc' # "done"
    BY <1>9a DEF QmpRaises
  <2> QED
    BY <2>1, <2>2, OwedSame, Stutters
<1>10. CASE DrainRead
  <2>1. /\ cfg' = cfg /\ pc = "drain" /\ pc' \in {"drain", "error"} /\ outcome = "none"
        /\ log' = log \o pipe /\ log \in Seq(Token) /\ pipe \in Seq(Token)
    BY <1>10, AskEffect DEF RunnerInv, Queues
  <2>2. UNCHANGED <<code, shotComplete, companion, proc>>
    BY <1>10 DEF DrainRead
  <2>3. machine.outcome = "pass" => machine'.outcome = "pass"
    BY <1>10, ReadEffect DEF RunnerInv, ReadLimit, ReadFails, ReadOn, ReadMatch
  <2>4. \A k \in DOMAIN log : k \in DOMAIN log' /\ log'[k] = log[k]
    BY <2>1, ConcatOf
  <2>5. "ok" \in NamesIn(log) => "ok" \in NamesIn(log')
    BY <2>4 DEF NamesIn
  <2>6. Owed' \subseteq Owed
    BY <2>1, <2>2, <2>3, <2>5, OwedShrinks
  <2>7. outcome' \in {outcome, "fail"}
    BY <1>10, ReadEffect DEF RunnerInv, ReadLimit, ReadFails, ReadOn, ReadMatch
  <2>8. CASE outcome' = "fail"
    BY <2>1, <2>2, <2>6, <2>8, Decides
  <2>9. CASE outcome' = outcome
    <3>1. Owed' = Owed \/ ("guest" \in Owed /\ Owed' = Owed \ {"guest"})
      BY <2>1, <2>2, <2>6 DEF Owed
    <3> QED
      BY <2>1, <2>2, <2>9, <3>1, Stutters, Reaches
  <2> QED
    BY <2>7, <2>8, <2>9
<1>11. CASE DrainTimeout
  <2>1. UNCHANGED <<cfg, log, code, shotComplete, companion, proc>> /\ pc # "done" /\ pc' # "done"
    BY <1>11 DEF DrainTimeout
  <2>2. \/ outcome' = outcome /\ machine' = machine
        \/ outcome = "none" /\ outcome' = "fail" /\ machine' = MachineClose(machine)
    BY <1>11 DEF DrainTimeout
  <2>3. CASE outcome' = outcome /\ machine' = machine
    BY <2>1, <2>3, OwedSame, Stutters
  <2>4. CASE outcome = "none" /\ outcome' = "fail" /\ machine' = MachineClose(machine)
    <3>1. machine.outcome = "pass" => machine'.outcome = "pass"
      BY <2>4, ClosedMachine DEF RunnerInv, Types
    <3>2. Owed' \subseteq Owed
      BY <2>1, <3>1, OwedShrinks
    <3> QED
      BY <2>1, <2>4, <3>2, Decides
  <2> QED
    BY <2>2, <2>3, <2>4
<1>12. CASE DrainReturn
  <2>1. UNCHANGED <<cfg, machine, log, code, shotComplete, companion, proc, outcome>>
    BY <1>12 DEF DrainReturn
  <2>2. pc # "done" /\ pc' # "done"
    BY <1>12 DEF DrainReturn, RunnerInv, Types
  <2> QED
    BY <2>1, <2>2, OwedSame, Stutters
<1>13. CASE LoopTop
  <2>1. UNCHANGED <<cfg, log, code, shotComplete, companion, proc>> /\ pc # "done" /\ pc' # "done"
    BY <1>13 DEF LoopTop
  <2>2. \/ outcome' = outcome /\ machine' = machine
        \/ outcome = "none" /\ outcome' = "fail" /\ machine' = MachineClose(machine)
    BY <1>13 DEF LoopTop
  <2>3. CASE outcome' = outcome /\ machine' = machine
    BY <2>1, <2>3, OwedSame, Stutters
  <2>4. CASE outcome = "none" /\ outcome' = "fail" /\ machine' = MachineClose(machine)
    <3>1. machine.outcome = "pass" => machine'.outcome = "pass"
      BY <2>4, ClosedMachine DEF RunnerInv, Types
    <3>2. Owed' \subseteq Owed
      BY <2>1, <3>1, OwedShrinks
    <3> QED
      BY <2>1, <2>4, <3>2, Decides
  <2> QED
    BY <2>2, <2>3, <2>4
<1>14. CASE DispatchEvent
  <2>1. UNCHANGED <<cfg, machine, log, code, shotComplete, companion, proc, outcome>>
    BY <1>14 DEF DispatchEvent
  <2>2. pc # "done" /\ pc' # "done"
    BY <1>14 DEF DispatchEvent
  <2> QED
    BY <2>1, <2>2, OwedSame, Stutters
<1>15. CASE QmpRecv
  <2>1. UNCHANGED <<cfg, machine, log, code, shotComplete, companion, proc, outcome>>
    BY <1>15 DEF QmpRecv
  <2>2. pc # "done" /\ pc' # "done"
    BY <1>15 DEF QmpRecv
  <2> QED
    BY <2>1, <2>2, OwedSame, Stutters
<1>16. CASE HandleMessage
  <2>1. UNCHANGED <<cfg, log, code, companion, proc, pc>> /\ pc # "done"
    BY <1>16 DEF HandleMessage
  <2>2. outcome # "pass" /\ outcome \in {"none", "pass", "fail"}
    BY <1>16 DEF HandleMessage, RunnerInv, Decided, Types
  <2>3. /\ machine.outcome = "pass" => machine'.outcome = "pass"
        /\ machine'.outcome = "pass" => machine.outcome = "pass"
        /\ outcome' \in {outcome, "fail"}
        /\ shotComplete' = shotComplete \/ (shotComplete' = TRUE /\ outcome' = outcome)
    <3>1. CASE HandleEvent(Head(inbox)) /\ shotComplete' = shotComplete
      BY <3>1, EventEffect DEF RunnerInv, Types
    <3>2. CASE /\ machine' = machine /\ outcome' \in {outcome, "fail"}
               /\ shotComplete' = shotComplete \/ (shotComplete' = TRUE /\ outcome' = outcome)
      BY <3>2
    <3> QED
      BY <1>16, <3>1, <3>2 DEF HandleMessage
  <2> shotComplete => shotComplete'
    BY <2>3
  <2> "ok" \in NamesIn(log) => "ok" \in NamesIn(log')
    BY <2>1
  <2>4. Owed' \subseteq Owed
    BY <2>1, <2>3, OwedShrinks
  <2>5. Owed' = Owed \/ (outcome' = outcome /\ "screen" \in Owed /\ Owed' = Owed \ {"screen"})
    BY <2>1, <2>3, <2>4, ZenonT(60) DEF Owed, HasMachine
  <2>6. CASE outcome' = outcome
    BY <2>1, <2>5, <2>6, Stutters, Reaches
  <2>7. CASE outcome' = "fail" /\ outcome = "none"
    BY <2>1, <2>4, <2>7, Decides
  <2> QED
    BY <2>2, <2>3, <2>6, <2>7
<1>17. CASE MessagesHandled
  <2>1. UNCHANGED <<cfg, machine, log, code, shotComplete, companion, proc, outcome>>
    BY <1>17 DEF MessagesHandled
  <2>2. pc # "done" /\ pc' # "done"
    BY <1>17 DEF MessagesHandled
  <2> QED
    BY <2>1, <2>2, OwedSame, Stutters
<1>18. CASE AfterEvents
  <2>1. UNCHANGED <<cfg, machine, log, code, shotComplete, companion, proc, outcome>>
    BY <1>18 DEF AfterEvents
  <2>2. pc # "done" /\ pc' # "done"
    BY <1>18 DEF AfterEvents
  <2> QED
    BY <2>1, <2>2, OwedSame, Stutters
<1>19. CASE HandlePending
  <2>1. /\ UNCHANGED <<cfg, log, code, companion, proc>> /\ pc # "done" /\ pc' # "done"
        /\ shotComplete' = shotComplete
    BY <1>19 DEF HandlePending
  <2>2. CASE machine' = machine /\ outcome' = outcome
    BY <2>1, <2>2, OwedSame, Stutters
  <2>3. CASE HandleEvent(Head(pending)) /\ outcome = "none"
    <3>1. /\ machine.outcome = "pass" => machine'.outcome = "pass"
          /\ machine'.outcome = "pass" => machine.outcome = "pass"
          /\ outcome' \in {outcome, "fail"}
      BY <2>3, EventEffect DEF RunnerInv, Types
    <3>2. Owed' \subseteq Owed /\ Owed \subseteq Owed'
      BY <2>1, <3>1 DEF Owed, HasMachine
    <3> QED
      BY <2>1, <2>3, <3>1, <3>2, Stutters, Decides
  <2> QED
    BY <1>19, <2>2, <2>3 DEF HandlePending
<1>20. CASE PollCompanion
  <2>1. /\ UNCHANGED <<cfg, machine, log, code, companion, proc>> /\ pc = "companion" /\ pc' # "done"
        /\ shotComplete' = shotComplete
    BY <1>20 DEF PollCompanion
  <2>2. Owed' = Owed
    BY <2>1, OwedSame
  <2>3. outcome = "none" \/ (outcome = "fail" /\ ~guestComplete)
    BY <2>1 DEF RunnerInv, Decided, Plan, Types
  <2>4. \/ outcome' = "pass" /\ guestComplete /\ shotComplete /\ companionComplete'
        \/ outcome' \in {outcome, "fail"}
    BY <1>20 DEF PollCompanion
  <2>5. CASE outcome' = "pass" /\ guestComplete /\ shotComplete /\ companionComplete'
    <3>1. cfg.companion => companion = "exit 0"
      BY <1>20, <2>5 DEF PollCompanion, CompanionDone, RunnerInv, Processes
    <3>2. Owed = {}
      BY <2>5, <3>1, NothingOwed
    <3> QED
      BY <2>1, <2>2, <2>3, <2>5, <3>2, Decides
  <2>6. CASE outcome' = outcome
    BY <2>1, <2>2, <2>6, Stutters
  <2>7. CASE outcome' = "fail" /\ outcome = "none"
    BY <2>1, <2>2, <2>7, Decides
  <2> QED
    BY <2>3, <2>4, <2>5, <2>6, <2>7
<1>21. CASE PollProcess
  <2>1. UNCHANGED <<cfg, machine, log, code, shotComplete, companion, proc, outcome>>
    BY <1>21 DEF PollProcess
  <2>2. pc # "done" /\ pc' # "done"
    BY <1>21 DEF PollProcess
  <2> QED
    BY <2>1, <2>2, OwedSame, Stutters
<1>22. CASE HandleExit
  <2>1. /\ UNCHANGED <<cfg, log, code, companion, proc>> /\ pc = "exit" /\ pc' # "done"
        /\ shotComplete' = shotComplete
    BY <1>22 DEF HandleExit
  <2>2. \/ outcome' = outcome /\ machine' = machine
        \/ outcome = "none" /\ outcome' = "fail" /\ machine' = MachineClose(machine)
        \/ /\ outcome = "none" /\ outcome' = "pass" /\ machine' = machine
           /\ guestComplete \/ (cfg.accept /\ code = "accepted")
           /\ shotComplete /\ companionComplete
    BY <1>22 DEF HandleExit
  <2>3. CASE outcome' = outcome /\ machine' = machine
    BY <2>1, <2>3, OwedSame, Stutters
  <2>4. CASE outcome = "none" /\ outcome' = "fail" /\ machine' = MachineClose(machine)
    <3>1. machine.outcome = "pass" => machine'.outcome = "pass"
      BY <2>4, ClosedMachine DEF RunnerInv, Types
    <3>2. Owed' \subseteq Owed
      BY <2>1, <3>1, OwedShrinks
    <3> QED
      BY <2>1, <2>4, <3>2, Decides
  <2>5. CASE /\ outcome = "none" /\ outcome' = "pass" /\ machine' = machine
             /\ guestComplete \/ (cfg.accept /\ code = "accepted")
             /\ shotComplete /\ companionComplete
    <3>1. cfg.companion => companion = "exit 0"
      BY <2>5 DEF RunnerInv, Processes
    <3>2. Owed = {} /\ Owed' = Owed
      BY <2>1, <2>5, <3>1, NothingOwed, OwedSame
    <3> QED
      BY <2>1, <2>5, <3>2, Decides
  <2> QED
    BY <2>2, <2>3, <2>4, <2>5
<1>23. CASE CheckQmpClosed
  <2>1. /\ UNCHANGED <<cfg, machine, log, code, shotComplete, companion, proc>>
        /\ pc # "done" /\ pc' # "done"
    BY <1>23 DEF CheckQmpClosed
  <2>2. outcome' = outcome \/ (outcome = "none" /\ outcome' = "fail")
    BY <1>23 DEF CheckQmpClosed
  <2> QED
    BY <2>1, <2>2, OwedSame, Stutters, Decides
<1>24. CASE Stop
  <2>1. /\ UNCHANGED <<cfg, machine, log, code, shotComplete, outcome>>
        /\ pc = "stop" /\ pc' = "done" /\ proc' = "stopped"
        /\ companion' = IF ~companionComplete /\ companion = "running" THEN "terminated" ELSE companion
    BY <1>24 DEF Stop, StopQemu, TerminateCompanion
  <2>2. outcome # "none" /\ companion' # "running"
    BY <2>1 DEF RunnerInv, Decided, Processes
  <2>3. Owed' \subseteq Owed
    BY <2>1, OwedShrinks
  <2> QED
    BY <2>1, <2>2, <2>3, Returns
<1>25. CASE HandleError
  <2>1. /\ UNCHANGED <<cfg, machine, code, shotComplete>> /\ outcome' = "fail"
        /\ pc = "error" /\ pc' = "done" /\ proc' = "stopped"
        /\ companion' = IF companion = "running" THEN "terminated" ELSE companion
        /\ log' = log \o pipe /\ log \in Seq(Token) /\ pipe \in Seq(Token)
    BY <1>25 DEF HandleError, StopQemu, TerminateCompanion, RunnerInv, Queues
  <2>2. outcome \in {"none", "fail"}
    BY <2>1 DEF RunnerInv, Decided, Types
  <2>3. \A k \in DOMAIN log : k \in DOMAIN log' /\ log'[k] = log[k]
    BY <2>1, ConcatOf
  <2>4. "ok" \in NamesIn(log) => "ok" \in NamesIn(log')
    BY <2>3 DEF NamesIn
  <2>5. Owed' \subseteq Owed
    BY <2>1, <2>4, OwedShrinks
  <2> QED
    BY <2>1, <2>2, <2>5, Returns
<1> QED
  BY <1>2, <1>3, <1>4, <1>5, <1>6, <1>7, <1>8, <1>9, <1>9a, <1>10, <1>11, <1>12, <1>13, <1>14,
     <1>15, <1>16, <1>17, <1>18, <1>19, <1>20, <1>21, <1>22, <1>23, <1>24, <1>25
     DEF Next, Environment, RunnerStep, Returned

\* _run_qemu does what TestRun says, step by step: one verdict that is kept, a pass only
\* when nothing is owed, a return only with a verdict and with nothing left running.
\* This is the safety part of ImplementsTestRun; that the run ends is model-checked.
THEOREM RunIsTestRun == Spec => Promise!Spec
<1>1. Init => Promise!Init
  <2> SUFFICES ASSUME Init PROVE Promise!Init
    OBVIOUS
  <2>1. Owed \subseteq {"guest", "screen", "companion"}
    BY DEF Owed
  <2>2. "guest" \in Owed
    BY DEF Init, Owed, NamesIn
  <2>3. Live = {} /\ (pc = "done") = FALSE /\ outcome = "none"
    BY DEF Init, Live
  <2> QED
    BY <2>1, <2>2, <2>3 DEF Promise!Init
<1>2. RunnerInv /\ [Next]_vars => [Promise!Next]_(Promise!vars)
  BY RefinementStep
<1> QED
  BY <1>1, <1>2, RunnerInvariant, PTL DEF Spec, Promise!Spec

=============================================================================
