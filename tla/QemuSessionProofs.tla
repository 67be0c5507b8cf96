-------------------------- MODULE QemuSessionProofs -------------------------
(***************************************************************************)
(* Theorems about QemuSession, for every alphabet, buffer size and number  *)
(* of commands and messages: a call that succeeds had its own answer, no   *)
(* event and no serial output is lost or reordered, and a medium in the    *)
(* script's hands is not written any more.                                 *)
(***************************************************************************)
EXTENDS QemuSession, TLAPS

-----------------------------------------------------------------------------
(***************************************************************************)
(* Sequences.                                                              *)
(***************************************************************************)

\* Two sequences of one length with the same elements are equal.
LEMMA SameSequence ==
    ASSUME NEW S, NEW s \in Seq(S), NEW t \in Seq(S), Len(s) = Len(t),
           \A i \in 1..Len(s) : s[i] = t[i]
    PROVE  s = t
  OBVIOUS

\* What a concatenation is.
LEMMA Concatenation ==
    ASSUME NEW S, NEW s \in Seq(S), NEW t \in Seq(S)
    PROVE  /\ s \o t \in Seq(S) /\ Len(s \o t) = Len(s) + Len(t)
           /\ \A i \in 1..Len(s) : (s \o t)[i] = s[i]
           /\ \A i \in Len(s) + 1..Len(s) + Len(t) : (s \o t)[i] = t[i - Len(s)]
  OBVIOUS

\* What Append is, element by element.
LEMMA Appended ==
    ASSUME NEW S, NEW s \in Seq(S), NEW e \in S
    PROVE  /\ Append(s, e) \in Seq(S) /\ Len(Append(s, e)) = Len(s) + 1 /\ Len(s) \in Nat
           /\ \A i \in 1..Len(s) : Append(s, e)[i] = s[i]
           /\ Append(s, e)[Len(s) + 1] = e
  OBVIOUS

\* What Head and Tail are, element by element.
LEMMA TailOf ==
    ASSUME NEW S, NEW s \in Seq(S), s # <<>>
    PROVE  /\ Head(s) = s[1] /\ Head(s) \in S /\ Len(s) \in Nat \ {0}
           /\ Tail(s) \in Seq(S) /\ Len(Tail(s)) = Len(s) - 1
           /\ \A i \in 1..Len(s) - 1 : Tail(s)[i] = s[i + 1]
  OBVIOUS

\* What the last pieces of a sequence are, when it is longer than that.
LEMMA LastPiecesOfLong ==
    ASSUME NEW S, NEW s \in Seq(S), NEW n \in Nat, n < Len(s)
    PROVE  /\ LastPieces(s, n) \in Seq(S) /\ Len(LastPieces(s, n)) = n
           /\ \A i \in 1..n : LastPieces(s, n)[i] = s[Len(s) - n + i]
<1>1. LastPieces(s, n) = SubSeq(s, Len(s) - n + 1, Len(s))
  BY DEF LastPieces
<1>2. Len(s) - n + 1 \in 1..Len(s) + 1 /\ Len(s) \in Nat
  OBVIOUS
<1> QED
  BY <1>1, <1>2

\* Trimming before and after a chunk is added is the same as trimming after it.
LEMMA TrimTwice ==
    ASSUME NEW S, NEW s \in Seq(S), NEW t \in Seq(S), NEW n \in Nat
    PROVE  LastPieces(LastPieces(s, n) \o t, n) = LastPieces(s \o t, n)
<1> DEFINE ls == Len(s)
           lt == Len(t)
           u == LastPieces(s, n)
           a == u \o t
           b == s \o t
<1>0. ls \in Nat /\ lt \in Nat
  OBVIOUS
<1>1. CASE ls <= n
  BY <1>1 DEF LastPieces
<1>2. CASE n < ls
  <2>1. u \in Seq(S) /\ Len(u) = n /\ \A i \in 1..n : u[i] = s[ls - n + i]
    BY <1>2, LastPiecesOfLong
  <2>2. /\ b \in Seq(S) /\ Len(b) = ls + lt
        /\ \A i \in 1..ls : b[i] = s[i]
        /\ \A i \in ls + 1..ls + lt : b[i] = t[i - ls]
    BY Concatenation
  <2> HIDE DEF u
  <2>3. /\ a \in Seq(S) /\ Len(a) = n + lt
        /\ \A i \in 1..n : a[i] = u[i]
        /\ \A i \in n + 1..n + lt : a[i] = t[i - n]
    <3>1. /\ a \in Seq(S) /\ Len(a) = Len(u) + lt
          /\ \A i \in 1..Len(u) : a[i] = u[i]
          /\ \A i \in Len(u) + 1..Len(u) + lt : a[i] = t[i - Len(u)]
      BY <2>1, Concatenation, ZenonT(60)
    <3> QED
      BY <2>1, <3>1
  <2> HIDE DEF a, b, ls, lt
  <2>4. \A i \in 1..(n + lt) : a[i] = b[ls - n + i]
    <3> SUFFICES ASSUME NEW i \in 1..(n + lt) PROVE a[i] = b[ls - n + i]
      OBVIOUS
    <3>1. CASE i <= n
      <4>1. i \in 1..n /\ ls - n + i \in 1..ls
        BY <1>0, <1>2, <3>1
      <4> QED
        BY <2>1, <2>2, <2>3, <4>1
    <3>2. CASE i > n
      <4>1. i \in n + 1..n + lt /\ ls - n + i \in ls + 1..ls + lt /\ (ls - n + i) - ls = i - n
        BY <1>0, <1>2, <3>2
      <4> QED
        BY <2>2, <2>3, <4>1
    <3> QED
      BY <1>0, <3>1, <3>2
  <2>5. /\ LastPieces(b, n) \in Seq(S) /\ Len(LastPieces(b, n)) = n
        /\ \A i \in 1..n : LastPieces(b, n)[i] = b[ls + lt - n + i]
    <3>1. n < Len(b) /\ b \in Seq(S)
      BY <1>0, <1>2, <2>2
    <3>2. /\ LastPieces(b, n) \in Seq(S) /\ Len(LastPieces(b, n)) = n
          /\ \A i \in 1..n : LastPieces(b, n)[i] = b[Len(b) - n + i]
      BY <3>1, LastPiecesOfLong
    <3>3. \A i \in 1..n : Len(b) - n + i = ls + lt - n + i
      BY <1>0, <2>2
    <3> QED
      BY <3>2, <3>3
  <2>6. /\ LastPieces(a, n) \in Seq(S) /\ Len(LastPieces(a, n)) = n
        /\ \A i \in 1..n : LastPieces(a, n)[i] = a[lt + i]
    <3>1. CASE lt = 0
      BY <2>3, <3>1 DEF LastPieces
    <3>2. CASE lt > 0
      <4>1. n < Len(a) /\ a \in Seq(S)
        BY <1>0, <2>3, <3>2
      <4>2. /\ LastPieces(a, n) \in Seq(S) /\ Len(LastPieces(a, n)) = n
            /\ \A i \in 1..n : LastPieces(a, n)[i] = a[Len(a) - n + i]
        BY <4>1, LastPiecesOfLong
      <4>3. \A i \in 1..n : Len(a) - n + i = lt + i
        BY <1>0, <2>3
      <4> QED
        BY <4>2, <4>3
    <3> QED
      BY <1>0, <3>1, <3>2
  <2>7. ASSUME NEW i \in 1..n PROVE LastPieces(a, n)[i] = LastPieces(b, n)[i]
    <3>1. lt + i \in 1..(n + lt) /\ ls - n + (lt + i) = ls + lt - n + i
      BY <1>0
    <3> QED
      BY <2>4, <2>5, <2>6, <3>1
  <2>8. LastPieces(a, n) = LastPieces(b, n)
    BY <2>5, <2>6, <2>7, SameSequence
  <2> QED
    BY <2>8 DEF a, b, u
<1> QED
  BY <1>0, <1>1, <1>2

-----------------------------------------------------------------------------
(***************************************************************************)
(* The inductive invariant, in four parts that are about different         *)
(* variables: where the thread is, the commands, the events, the output.   *)
(***************************************************************************)

\* Where the thread is and what it knows of QEMU there.  A start() that fails never
\* comes back to the script, and a session is terminated at most once inside it.
Control ==
    /\ process \in {"none", "running", "exited"}
    /\ pc \in {"new", "idle", "serial", "poll", "wait"} => ~starting
    /\ pc = "new" <=> process = "none"
    /\ pc = "new" => result.kind = "none" /\ ~terminated /\ ~heir
    /\ pc \in {"close", "drain"} => process = "exited"
    /\ pc = "drain" => starting
    /\ starting /\ terminated => pc \in {"drain", "failed"}
    /\ pc = "failed" => starting /\ (terminated => process = "exited" /\ ~heir)
    /\ handed => process = "exited"
    /\ result.kind = "quit" => process = "exited" /\ status = 0

\* The commands under way are numbered in order and not above the last one; an answer
\* on the wire is to a command before all of these.  So when the last command's answer
\* is there no other command is, and the screendump file is the one it wrote.
Answers ==
    /\ qmpId \in Nat /\ dump \in Nat
    /\ requests \in Seq([id : Nat, dumps : BOOLEAN])
    /\ wire \in Seq(Message)
    /\ \A i \in 1..Len(requests) : requests[i].id <= qmpId
    /\ \A i, j \in 1..Len(requests) : i < j => requests[i].id < requests[j].id
    /\ \A i \in 1..Len(wire) : wire[i].kind # "event" =>
           /\ wire[i].id <= qmpId
           /\ \A j \in 1..Len(requests) : wire[i].id < requests[j].id
    /\ pc = "exec" /\ command = "screendump" =>
           /\ \A i \in 1..Len(requests) : requests[i].id = qmpId => requests[i].dumps
           /\ \A i \in 1..Len(wire) : wire[i].kind = "return" /\ wire[i].id = qmpId => dump = qmpId
    /\ pc = "new" => wire = <<>> /\ requests = <<>>
    /\ pc \in {"new", "exec"} => result.kind = "none"
    /\ result.kind = "return" =>
           /\ result.id = qmpId /\ requests = <<>>
           /\ command = "screendump" => dump = qmpId

\* The events on the wire continue those received, in order and without a gap, and
\* while the monitor is open the last one emitted is there.
OnWire(w, n, k) == \E i \in 1..k : w[i].kind = "event" /\ w[i].id = n
EventFlow ==
    /\ events \in Seq(Nat) /\ emitted \in Nat
    /\ \A i \in 1..Len(events) : events[i] = i
    /\ Len(events) <= emitted
    /\ \A i \in 1..Len(wire) : wire[i].kind = "event" =>
           /\ Len(events) < wire[i].id /\ wire[i].id <= emitted
           /\ \A j \in 1..(i - 1) : wire[j].kind = "event" => wire[j].id < wire[i].id
           /\ \A n \in Len(events) + 1..wire[i].id - 1 : OnWire(wire, n, i - 1)
    /\ pc = "new" => emitted = 0
    /\ monitor => \A n \in Len(events) + 1..emitted : OnWire(wire, n, Len(wire))

\* What has been printed is what was read, then what is in the pipe.
Seen == SubSeq(printed, 1, Len(printed) - Len(pipe))
Output ==
    /\ {serialBuffer, log, pipe, printed} \subseteq Seq(Text)
    /\ Len(pipe) <= Len(printed)
    /\ printed = Seen \o pipe
    /\ pc # "failed" => serialBuffer = LastPieces(Seen, MaxBuffer)
    /\ logOpen \/ starting => log = Seen
    /\ pc = "new" => log = <<>> /\ printed = <<>>
    /\ terminated /\ pc = "failed" => pipe = <<>>

SessionInv == Control /\ Answers /\ EventFlow /\ Output

-----------------------------------------------------------------------------
\* A new session has the invariant.
LEMMA SessionInit == Init => SessionInv
<1> SUFFICES ASSUME Init PROVE SessionInv
  OBVIOUS
<1>1. Control
  BY DEF Init, Control, NoResult
<1>2. Answers
  BY DEF Init, Answers, NoResult
<1>3. EventFlow
  BY DEF Init, EventFlow
<1>4. Output
  <2>1. /\ serialBuffer = <<>> /\ log = <<>> /\ pipe = <<>> /\ printed = <<>>
        /\ <<>> \in Seq(Text) /\ Len(<<>>) = 0
    BY DEF Init
  <2>2. Seen = <<>> /\ LastPieces(Seen, MaxBuffer) = <<>> /\ Seen \o pipe = <<>>
    BY <2>1, SessionAssumption DEF Seen, LastPieces
  <2> QED
    BY <2>1, <2>2 DEF Init, Output
<1> QED
  BY <1>1, <1>2, <1>3, <1>4 DEF SessionInv

\* The steps of QEMU, of the clock and of the thread keep the thread's part.
LEMMA ControlStep == SessionInv /\ [Next]_vars => Control'
<1> SUFFICES ASSUME SessionInv, [Next]_vars PROVE Control'
  OBVIOUS
<1> USE DEF SessionInv, callVars, qmpVars, serialVars, ownVars, channelVars, outputVars, otherVars,
            qemuVars, vars
<1>1. CASE \/ \E piece \in Text : QemuPrints(piece)
           \/ QemuEvent \/ \E kind \in {"return", "error"} : QemuAnswers(kind)
           \/ MonitorCloses \/ QemuWrites \/ DeadlinePasses \/ ReadEvent \/ ReadStale
           \/ Failed \/ UNCHANGED vars
  <2>1. UNCHANGED <<pc, process, status, result>> /\ starting' = starting
        /\ terminated' = terminated /\ handed' = handed /\ heir' = heir
    BY <1>1 DEF QemuPrints, QemuEvent, QemuAnswers, MonitorCloses, QemuWrites, DeadlinePasses,
                ReadEvent, ReadStale, Failed
  <2> QED
    BY <2>1 DEF Control
<1>2. CASE (\E code \in 0..1 : QemuExits(code)) \/ HeirShows \/ HeirEnds
  BY <1>2 DEF QemuExits, HeirShows, HeirEnds, Control
<1>3. CASE Start
  BY <1>3 DEF Start, Control
<1>4. CASE \/ \E what \in {"screendump", "quit"} : Execute(what)
           \/ \E piece \in Text : WaitForSerial(piece)
           \/ WriteRaises \/ WaitForExit \/ Terminate
  <2>1. UNCHANGED <<process, status>>
        /\ starting' = starting /\ terminated' = terminated /\ handed' = handed /\ heir' = heir
    BY <1>4 DEF Execute, WaitForSerial, WriteRaises, WaitForExit, Terminate, Call, Raise
  <2>2. /\ pc = "idle" /\ process # "none"
        /\ pc' \in {"exec", "idle", "serial", "wait", "terminate"}
        /\ result'.kind \in {"none", "match", "raised"}
    BY <1>4 DEF Execute, WaitForSerial, WriteRaises, WaitForExit, Terminate, Call, Raise,
                NoResult, Control
  <2> QED
    BY <2>1, <2>2 DEF Control
<1>5. CASE MediaPath
  BY <1>5 DEF MediaPath, Control
<1>6. CASE ReadAnswer \/ ReadTimesOut \/ ReadRaises \/ ReadEof \/ QuitWait
  <2>1. UNCHANGED <<process, status>>
        /\ terminated' = terminated /\ handed' = handed /\ heir' = heir
    BY <1>6 DEF ReadAnswer, ReadTimesOut, ReadRaises, ReadEof, QuitWait
  <2>2. pc \in {"exec", "quit"}
    BY <1>6 DEF ReadAnswer, ReadTimesOut, ReadRaises, ReadEof, QuitWait, CanRead
  <2>3. \/ \E kind \in {"error", "no file", "timeout", "raised", "closed", "status"} : Raise(kind)
        \/ Return("return", Head(wire).id)
        \/ process = "exited" /\ status = 0 /\ Return("quit", qmpId)
        \/ pc' = "quit" /\ starting' = starting /\ result' = result
    <3>1. CASE ReadAnswer
      BY <3>1 DEF ReadAnswer
    <3>2. CASE ReadTimesOut \/ ReadRaises
      BY <3>2 DEF ReadTimesOut, ReadRaises
    <3>3. CASE ReadEof
      BY <3>3 DEF ReadEof
    <3>4. CASE QuitWait
      BY <3>4 DEF QuitWait
    <3> QED
      BY <1>6, <3>1, <3>2, <3>3, <3>4
  <2>4. ASSUME NEW kind \in {"error", "no file", "timeout", "raised", "closed", "status"}, Raise(kind)
        PROVE  Control'
    <3>1. result'.kind = kind /\ starting' = starting /\ (starting => pc' = "terminate")
          /\ (~starting => pc' = "idle")
      BY <2>4 DEF Raise
    <3> QED
      BY <2>1, <2>2, <3>1 DEF Control
  <2>5. CASE Return("return", Head(wire).id)
    BY <2>1, <2>2, <2>5 DEF Return, Control
  <2>6. CASE process = "exited" /\ status = 0 /\ Return("quit", qmpId)
    BY <2>1, <2>2, <2>6 DEF Return, Control
  <2>7. CASE pc' = "quit" /\ starting' = starting /\ result' = result
    BY <2>1, <2>2, <2>7 DEF Control
  <2> QED
    BY <2>3, <2>4, <2>5, <2>6, <2>7
<1>7. CASE SerialRead \/ SerialPoll \/ SerialTimesOut \/ ExitWait
  BY <1>7 DEF SerialRead, SerialPoll, SerialTimesOut, ExitWait, Return, Raise, Control
<1>8. CASE CloseQmp \/ TermWait
  BY <1>8 DEF CloseQmp, TermWait, Control
<1>9. CASE KillWait
  BY <1>9 DEF KillWait, Finish, Control
<1>10. CASE CloseLog
  BY <1>10 DEF CloseLog, Finish, Control
<1>11. CASE DrainPipe
  BY <1>11 DEF DrainPipe, Control
<1> QED
  BY <1>1, <1>2, <1>3, <1>4, <1>5, <1>6, <1>7, <1>8, <1>9, <1>10, <1>11
     DEF Next, Qemu, Script, SessionStep

\* A step that leaves the commands and answers alone, and either the current call too
\* or ends or begins one that waits for no answer.
Quiet ==
    /\ UNCHANGED <<qmpId, dump, requests, wire>>
    /\ \/ UNCHANGED <<pc, command, result>>
       \/ pc' \notin {"new", "exec"} /\ result'.kind # "return"
       \/ pc' \notin {"new", "exec"} /\ UNCHANGED <<command, result>>

\* The steps that are not quiet.
LEMMA QuietSteps ==
    ASSUME [Next]_vars, Control
    PROVE  \/ Quiet
           \/ QemuEvent \/ \E kind \in {"return", "error"} : QemuAnswers(kind)
           \/ MonitorCloses \/ \E code \in 0..1 : QemuExits(code)
           \/ Start \/ \E what \in {"screendump", "quit"} : Execute(what)
           \/ WriteRaises \/ ReadEvent \/ ReadStale \/ ReadAnswer \/ CloseQmp
<1> USE DEF callVars, qmpVars, serialVars, ownVars, channelVars, outputVars, otherVars,
            qemuVars, vars
<1>1. CASE \/ \E piece \in Text : QemuPrints(piece)
           \/ QemuWrites \/ HeirShows \/ HeirEnds \/ DeadlinePasses \/ MediaPath
           \/ Failed \/ UNCHANGED vars
  BY <1>1 DEF QemuPrints, QemuWrites, HeirShows, HeirEnds, DeadlinePasses, MediaPath, Failed, Quiet
<1>2. CASE (\E piece \in Text : WaitForSerial(piece)) \/ WaitForExit \/ Terminate
  BY <1>2 DEF WaitForSerial, WaitForExit, Terminate, Call, NoResult, Quiet
<1>3. CASE ReadTimesOut \/ ReadRaises \/ ReadEof
  <2>1. UNCHANGED <<qmpId, dump, requests, wire>>
    BY <1>3 DEF ReadTimesOut, ReadRaises, ReadEof
  <2>2. \/ pc' \in {"terminate", "idle"} /\ result'.kind \in {"timeout", "raised", "closed"}
        \/ pc' = "quit" /\ UNCHANGED <<command, result>>
    <3>1. \/ \E kind \in {"timeout", "raised", "closed"} : Raise(kind)
          \/ pc' = "quit" /\ UNCHANGED <<command, result>>
      BY <1>3 DEF ReadTimesOut, ReadRaises, ReadEof
    <3> QED
      BY <3>1 DEF Raise
  <2> QED
    BY <2>1, <2>2 DEF Quiet
<1>4. CASE QuitWait \/ ExitWait
  BY <1>4 DEF QuitWait, ExitWait, Return, Raise, Quiet
<1>5. CASE SerialRead \/ SerialPoll \/ SerialTimesOut
  BY <1>5 DEF SerialRead, SerialPoll, SerialTimesOut, Return, Raise, Quiet
<1>6. CASE TermWait \/ KillWait \/ CloseLog \/ DrainPipe
  BY <1>6 DEF TermWait, KillWait, CloseLog, DrainPipe, Finish, Quiet
<1> QED
  BY <1>1, <1>2, <1>3, <1>4, <1>5, <1>6 DEF Next, Qemu, Script, SessionStep

\* Every step keeps the numbering of commands and answers.
LEMMA AnswersStep == SessionInv /\ [Next]_vars => Answers'
<1> SUFFICES ASSUME SessionInv, [Next]_vars PROVE Answers'
  OBVIOUS
<1> USE DEF SessionInv, callVars, qmpVars, serialVars, ownVars, channelVars, outputVars, otherVars,
            qemuVars
<1> DEFINE R == [id : Nat, dumps : BOOLEAN]
<1>0. /\ requests \in Seq(R) /\ wire \in Seq(Message) /\ qmpId \in Nat /\ dump \in Nat
      /\ \A i \in 1..Len(requests) : requests[i] \in R /\ requests[i].id \in Nat
      /\ \A i \in 1..Len(wire) : wire[i] \in Message /\ wire[i].id \in Nat
      /\ Len(requests) \in Nat /\ Len(wire) \in Nat
  <2>1. requests \in Seq(R) /\ wire \in Seq(Message) /\ qmpId \in Nat /\ dump \in Nat
    BY DEF Answers
  <2>2. \A i \in 1..Len(requests) : requests[i] \in R
    <3> HIDE DEF R
    <3> QED
      BY <2>1
  <2>3. \A i \in 1..Len(wire) : wire[i] \in Message
    BY <2>1
  <2> QED
    BY <2>1, <2>2, <2>3 DEF Message
<1>1. CASE Quiet
  <2>1. CASE UNCHANGED <<qmpId, dump, requests, wire, pc, command, result>>
    BY <2>1 DEF Answers
  <2>2. CASE /\ UNCHANGED <<qmpId, dump, requests, wire>>
             /\ pc' \notin {"new", "exec"} /\ result'.kind # "return"
    BY <2>2 DEF Answers
  <2>3. CASE /\ UNCHANGED <<qmpId, dump, requests, wire, command, result>>
             /\ pc' \notin {"new", "exec"}
    BY <2>3 DEF Answers
  <2> QED
    BY <1>1, <2>1, <2>2, <2>3 DEF Quiet
<1>2. CASE QemuEvent
  <2> DEFINE m == [kind |-> "event", id |-> emitted']
  <2>1. wire' = Append(wire, m) /\ UNCHANGED <<qmpId, dump, requests, pc, command, result>>
    BY <1>2 DEF QemuEvent
  <2>2. m \in Message /\ m.kind = "event"
    BY <1>2 DEF QemuEvent, EventFlow, Message
  <2> HIDE DEF m
  <2>3. /\ wire' \in Seq(Message) /\ Len(wire') = Len(wire) + 1
        /\ \A i \in 1..Len(wire) : wire'[i] = wire[i]
        /\ wire'[Len(wire) + 1] = m
    BY <1>0, <2>1, <2>2, Appended
  <2>4. pc # "new"
    BY <1>2 DEF QemuEvent, Control
  <2>5. \A i \in 1..Len(wire') : wire'[i].kind # "event" => i \in 1..Len(wire) /\ wire'[i] = wire[i]
    BY <1>0, <2>2, <2>3
  <2> QED
    BY <1>0, <2>1, <2>3, <2>4, <2>5 DEF Answers
<1>3. ASSUME NEW kind \in {"return", "error"}, QemuAnswers(kind) PROVE Answers'
  <2> DEFINE q == requests[1]
             m == [kind |-> kind, id |-> q.id]
  <2>1. /\ requests # <<>> /\ Len(requests) \in Nat \ {0} /\ q \in R /\ Head(requests) = q
        /\ requests' \in Seq(R) /\ Len(requests') = Len(requests) - 1
        /\ \A i \in 1..Len(requests) - 1 : requests'[i] = requests[i + 1]
    BY <1>0, <1>3, TailOf DEF QemuAnswers
  <2>2. /\ wire' = Append(wire, m) /\ UNCHANGED <<qmpId, pc, command, result>>
        /\ dump' = IF kind = "return" /\ q.dumps THEN q.id ELSE dump
    BY <1>3, <2>1 DEF QemuAnswers
  <2>3. q.id \in Nat /\ q.dumps \in BOOLEAN /\ m \in Message /\ m.kind = kind /\ m.id = q.id
    BY <2>1 DEF Message
  <2>4. /\ q.id <= qmpId
        /\ \A i \in 2..Len(requests) : q.id < requests[i].id
        /\ \A i \in 1..Len(wire) : wire[i].kind # "event" => wire[i].id < q.id
    BY <1>0, <2>1, SMTT(40) DEF Answers
  <2> HIDE DEF m, q, R
  <2>5. /\ wire' \in Seq(Message) /\ Len(wire') = Len(wire) + 1
        /\ \A i \in 1..Len(wire) : wire'[i] = wire[i]
        /\ wire'[Len(wire) + 1] = m
    BY <1>0, <2>2, <2>3, Appended
  <2>6. dump' \in Nat /\ pc # "new"
    BY <1>0, <1>3, <2>2, <2>3 DEF QemuAnswers, Control
  <2>7. /\ \A i \in 1..Len(requests') : /\ i + 1 \in 1..Len(requests) /\ requests'[i] = requests[i + 1]
                                        /\ requests'[i].id <= qmpId /\ q.id < requests'[i].id
        /\ \A i, j \in 1..Len(requests') : i < j => requests'[i].id < requests'[j].id
    <3>1. \A i \in 1..Len(requests') : /\ i + 1 \in 2..Len(requests) /\ i + 1 \in 1..Len(requests)
                                        /\ requests'[i] = requests[i + 1]
      BY <2>1
    <3>2. \A i \in 1..Len(requests) : requests[i].id <= qmpId
      BY DEF Answers
    <3>3. \A i, j \in 1..Len(requests) : i < j => requests[i].id < requests[j].id
      BY DEF Answers
    <3>4. \A i, j \in 1..Len(requests') : i < j => i + 1 < j + 1
      BY <2>1
    <3> QED
      BY <2>4, <3>1, <3>2, <3>3, <3>4
  <2>8. \A i \in 1..Len(wire') : wire'[i].kind # "event" =>
            /\ wire'[i].id <= qmpId
            /\ \A j \in 1..Len(requests') : wire'[i].id < requests'[j].id
    <3>1. ASSUME NEW i \in 1..Len(wire'), wire'[i].kind # "event"
          PROVE  wire'[i].id \in Nat /\ wire'[i].id <= q.id
      <4>1. CASE i \in 1..Len(wire)
        BY <1>0, <2>3, <2>4, <2>5, <3>1, <4>1, SMTT(40)
      <4>2. CASE i = Len(wire) + 1
        BY <2>3, <2>5, <4>2
      <4> QED
        BY <1>0, <2>5, <4>1, <4>2
    <3>2. \A j \in 1..Len(requests') : requests'[j].id \in Nat
      BY <1>0, <2>7
    <3> QED
      BY <1>0, <2>3, <2>4, <2>7, <3>1, <3>2, SMTT(40)
  <2>9. pc = "exec" /\ command = "screendump" =>
            /\ \A i \in 1..Len(requests') : requests'[i].id = qmpId => requests'[i].dumps
            /\ \A i \in 1..Len(wire') : wire'[i].kind = "return" /\ wire'[i].id = qmpId => dump' = qmpId
    <3> SUFFICES ASSUME pc = "exec", command = "screendump"
                 PROVE  /\ \A i \in 1..Len(requests') : requests'[i].id = qmpId => requests'[i].dumps
                        /\ \A i \in 1..Len(wire') :
                               wire'[i].kind = "return" /\ wire'[i].id = qmpId => dump' = qmpId
      OBVIOUS
    <3>1. \A i \in 1..Len(requests') : requests'[i].id = qmpId => requests'[i].dumps
      BY <2>7 DEF Answers
    <3>2. q.id = qmpId => q.dumps
      BY <1>0, <2>1 DEF Answers, q
    <3>3. \A i \in 1..Len(wire) : wire[i].kind = "return" => wire[i].id # qmpId
      BY <1>0, <2>3, <2>4
    <3> QED
      BY <1>0, <2>2, <2>3, <2>5, <3>1, <3>2, <3>3
  <2>10. result.kind # "return"
    BY <2>1 DEF Answers
  <2> QED
    BY <1>0, <2>1, <2>2, <2>5, <2>6, <2>7, <2>8, <2>9, <2>10 DEF Answers, R
<1>4. CASE MonitorCloses \/ \E code \in 0..1 : QemuExits(code)
  <2>1. /\ UNCHANGED <<qmpId, dump, pc, command, result>>
        /\ requests' = <<>> /\ (wire' = wire \/ wire' = <<>>)
    BY <1>4 DEF MonitorCloses, QemuExits, Disconnect
  <2>2. <<>> \in Seq(R) /\ <<>> \in Seq(Message) /\ Len(<<>>) = 0
    OBVIOUS
  <2>3. CASE wire' = wire
    BY <2>1, <2>2, <2>3 DEF Answers
  <2>4. CASE wire' = <<>>
    BY <2>1, <2>2, <2>4 DEF Answers
  <2> QED
    BY <2>1, <2>3, <2>4
<1>5. CASE Start
  <2>1. /\ pc = "new" /\ qmpId' = 1 /\ requests' = <<[id |-> 1, dumps |-> FALSE]>>
        /\ pc' = "exec" /\ command' = "qmp_capabilities"
        /\ UNCHANGED <<result, dump, wire>>
    BY <1>5 DEF Start
  <2>2. wire = <<>> /\ result.kind = "none"
    BY <2>1 DEF Answers
  <2>3. /\ requests' \in Seq(R) /\ Len(requests') = 1
        /\ requests'[1] = [id |-> 1, dumps |-> FALSE]
    BY <2>1
  <2> QED
    BY <1>0, <2>1, <2>2, <2>3 DEF Answers
<1>6. ASSUME NEW what \in {"screendump", "quit"}, Execute(what) PROVE Answers'
  <2> DEFINE q == [id |-> qmpId + 1, dumps |-> what = "screendump"]
  <2>1. /\ qmpId' = qmpId + 1 /\ pc' = "exec" /\ command' = what /\ result' = NoResult
        /\ requests' = IF monitor THEN Append(requests, q) ELSE requests
        /\ UNCHANGED <<dump, wire>>
    BY <1>6 DEF Execute, Call
  <2>2. q \in R /\ q.id = qmpId + 1 /\ (what = "screendump" => q.dumps)
    <3>1. (what = "screendump") \in BOOLEAN /\ qmpId + 1 \in Nat
      BY <1>0
    <3> QED
      BY <3>1
  <2> HIDE DEF q, R
  <2>3. /\ requests' \in Seq(R) /\ Len(requests) \in Nat
        /\ \A i \in 1..Len(requests) : requests'[i] = requests[i]
        /\ \A i \in 1..Len(requests') : i \in 1..Len(requests) \/ requests'[i] = q
        /\ \A i \in 1..Len(requests') : i \notin 1..Len(requests) => i = Len(requests) + 1
        /\ Len(requests') \in Nat
    <3>1. CASE monitor
      BY <1>0, <2>1, <2>2, <3>1, Appended
    <3>2. CASE ~monitor
      BY <1>0, <2>1, <3>2
    <3> QED
      BY <3>1, <3>2
  <2>4. /\ \A i \in 1..Len(requests) : requests[i].id <= qmpId
        /\ \A i, j \in 1..Len(requests) : i < j => requests[i].id < requests[j].id
        /\ \A i \in 1..Len(wire) : wire[i].kind # "event" =>
               wire[i].id <= qmpId /\ \A j \in 1..Len(requests) : wire[i].id < requests[j].id
    BY DEF Answers
  <2>5. \A i \in 1..Len(requests') : requests'[i].id <= qmpId + 1
    BY <1>0, <2>2, <2>3, <2>4
  <2>6. \A i, j \in 1..Len(requests') : i < j => requests'[i].id < requests'[j].id
    <3> SUFFICES ASSUME NEW i \in 1..Len(requests'), NEW j \in 1..Len(requests'), i < j
                 PROVE  requests'[i].id < requests'[j].id
      OBVIOUS
    <3>1. i \in 1..Len(requests)
      BY <2>3
    <3>2. CASE j \in 1..Len(requests)
      BY <2>3, <2>4, <3>1, <3>2
    <3>3. CASE requests'[j] = q
      BY <1>0, <2>2, <2>3, <2>4, <3>1, <3>3, SMTT(40)
    <3> QED
      BY <2>3, <3>2, <3>3
  <2>7. \A i \in 1..Len(wire) : wire[i].kind # "event" =>
            /\ wire[i].id < qmpId + 1
            /\ \A j \in 1..Len(requests') : wire[i].id < requests'[j].id
    BY <1>0, <2>2, <2>3, <2>4, SMTT(40)
  <2>8. \A i \in 1..Len(requests') : requests'[i].id = qmpId + 1 /\ what = "screendump" =>
            requests'[i].dumps
    BY <1>0, <2>2, <2>3, <2>4
  <2> QED
    <3>1. result'.kind = "none" /\ qmpId' \in Nat /\ dump' \in Nat
      BY <1>0, <2>1 DEF NoResult
    <3>2. \A i \in 1..Len(wire') : wire'[i].kind # "event" =>
              wire'[i].id <= qmpId' /\ wire'[i].id # qmpId'
      BY <1>0, <2>1, <2>7
    <3>3. \A i \in 1..Len(wire') : wire'[i].kind = "return" => wire'[i].id # qmpId'
      BY <3>2
    <3> QED
      BY <1>0, <2>1, <2>3, <2>5, <2>6, <2>7, <2>8, <3>1, <3>2, <3>3, SMTT(40) DEF Answers, R
<1>7. CASE WriteRaises
  <2>1. /\ pc = "idle" /\ ~starting
        /\ qmpId' = qmpId + 1 /\ pc' = "idle" /\ result'.kind = "raised"
        /\ UNCHANGED <<command, dump, requests, wire>>
    BY <1>7 DEF WriteRaises, Raise, Control
  <2> QED
    BY <1>0, <2>1 DEF Answers
<1>8. CASE ReadEvent \/ ReadStale \/ ReadAnswer
  <2>1. pc = "exec" /\ wire # <<>> /\ wire' = Tail(wire) /\ UNCHANGED <<qmpId, dump, requests>>
    BY <1>8 DEF ReadEvent, ReadStale, ReadAnswer, CanRead
  <2>2. /\ wire' \in Seq(Message) /\ Len(wire') = Len(wire) - 1 /\ Len(wire) \in Nat \ {0}
        /\ \A i \in 1..Len(wire') : i + 1 \in 1..Len(wire) /\ wire'[i] = wire[i + 1]
        /\ Head(wire) = wire[1]
    BY <1>0, <2>1, TailOf
  <2>3. \/ UNCHANGED <<pc, command, result>>
        \/ /\ pc' \in {"idle", "terminate"} /\ command' = command
           /\ \/ result'.kind # "return"
              \/ /\ wire[1].kind = "return" /\ wire[1].id = qmpId
                 /\ result'.kind = "return" /\ result'.id = qmpId
    <3>1. CASE ReadEvent \/ ReadStale
      BY <3>1 DEF ReadEvent, ReadStale
    <3>2. CASE ReadAnswer
      <4>1. wire[1].kind \in {"return", "error"} /\ wire[1].id = qmpId
        <5>1. wire[1] \in Message /\ wire[1].kind # "event" /\ wire[1].id = qmpId
          <6>1. Head(wire).kind # "event" /\ Head(wire).id = qmpId
            BY <3>2 DEF ReadAnswer, OwnAnswer
          <6>2. Head(wire) = wire[1] /\ 1 \in 1..Len(wire)
            BY <2>2
          <6> QED
            BY <1>0, <6>1, <6>2
        <5> QED
          BY <5>1 DEF Message
      <4>2. (\E kind \in {"error", "no file"} : Raise(kind))
            \/ (wire[1].kind = "return" /\ Return("return", wire[1].id))
        BY <2>2, <3>2, <4>1 DEF ReadAnswer
      <4> QED
        <5>1. CASE \E kind \in {"error", "no file"} : Raise(kind)
          <6>1. PICK kind \in {"error", "no file"} : Raise(kind)
            BY <5>1
          <6>2. pc' \in {"idle", "terminate"} /\ command' = command /\ result'.kind = kind
            BY <6>1 DEF Raise
          <6> QED
            BY <6>2
        <5>2. CASE wire[1].kind = "return" /\ Return("return", wire[1].id)
          BY <4>1, <5>2 DEF Return
        <5> QED
          BY <4>2, <5>1, <5>2
    <3> QED
      BY <1>8, <3>1, <3>2
  <2>4. /\ \A i \in 1..Len(wire') : wire'[i].kind # "event" =>
               wire'[i].id <= qmpId /\ \A j \in 1..Len(requests) : wire'[i].id < requests[j].id
        /\ pc = "exec" /\ command = "screendump" =>
               \A i \in 1..Len(wire') :
                   wire'[i].kind = "return" /\ wire'[i].id = qmpId => dump = qmpId
    BY <2>2, ZenonT(60) DEF Answers
  <2>5. wire[1].kind = "return" /\ wire[1].id = qmpId =>
            requests = <<>> /\ (command = "screendump" => dump = qmpId)
    <3> SUFFICES ASSUME wire[1].kind = "return", wire[1].id = qmpId
                 PROVE  requests = <<>> /\ (command = "screendump" => dump = qmpId)
      OBVIOUS
    <3>1. ASSUME 1 \in 1..Len(requests) PROVE FALSE
      BY <1>0, <2>2, <3>1, SMTT(40) DEF Answers
    <3>2. requests = <<>>
      BY <1>0, <3>1
    <3> QED
      BY <2>1, <2>2, <3>2 DEF Answers
  <2>6. CASE UNCHANGED <<pc, command, result>>
    BY <1>0, <2>1, <2>2, <2>4, <2>6 DEF Answers
  <2>7. CASE pc' \in {"idle", "terminate"} /\ command' = command /\ result'.kind # "return"
    BY <1>0, <2>1, <2>2, <2>4, <2>7 DEF Answers
  <2>8. CASE /\ pc' \in {"idle", "terminate"} /\ command' = command
             /\ wire[1].kind = "return" /\ wire[1].id = qmpId
             /\ result'.kind = "return" /\ result'.id = qmpId
    BY <1>0, <2>1, <2>2, <2>4, <2>5, <2>8 DEF Answers
  <2> QED
    BY <2>3, <2>6, <2>7, <2>8
<1>9. CASE CloseQmp
  <2>1. /\ UNCHANGED <<qmpId, dump, command, result>> /\ pc' \in {"term", "close"}
        /\ requests' = <<>> /\ wire' = <<>>
    BY <1>9 DEF CloseQmp
  <2>2. <<>> \in Seq(R) /\ <<>> \in Seq(Message) /\ Len(<<>>) = 0
    OBVIOUS
  <2> QED
    BY <2>1, <2>2 DEF Answers
<1> QED
  BY <1>1, <1>2, <1>3, <1>4, <1>5, <1>6, <1>7, <1>8, <1>9, QuietSteps

\* The steps that change what is known of the events.
LEMMA EventSteps ==
    ASSUME [Next]_vars, Control
    PROVE  \/ UNCHANGED <<events, wire, emitted>> /\ (monitor' => monitor) /\ (pc' = "new" => pc = "new")
           \/ QemuEvent \/ \E kind \in {"return", "error"} : QemuAnswers(kind)
           \/ MonitorCloses \/ \E code \in 0..1 : QemuExits(code)
           \/ Start \/ ReadEvent \/ ReadStale \/ ReadAnswer \/ CloseQmp
<1> USE DEF callVars, qmpVars, serialVars, ownVars, channelVars, outputVars, otherVars,
            qemuVars, vars
<1>1. CASE \/ \E piece \in Text : QemuPrints(piece)
           \/ QemuWrites \/ HeirShows \/ HeirEnds \/ DeadlinePasses \/ MediaPath
           \/ Failed \/ UNCHANGED vars
  BY <1>1 DEF QemuPrints, QemuWrites, HeirShows, HeirEnds, DeadlinePasses, MediaPath, Failed
<1>2. CASE \/ \E piece \in Text : WaitForSerial(piece)
           \/ \E what \in {"screendump", "quit"} : Execute(what)
           \/ WriteRaises \/ WaitForExit \/ Terminate
  BY <1>2 DEF WaitForSerial, Execute, WriteRaises, WaitForExit, Terminate, Call, Raise
<1>3. CASE ReadTimesOut \/ ReadRaises \/ ReadEof \/ QuitWait
  BY <1>3 DEF ReadTimesOut, ReadRaises, ReadEof, QuitWait, Return, Raise
<1>4. CASE SerialRead \/ SerialPoll \/ SerialTimesOut \/ ExitWait
  BY <1>4 DEF SerialRead, SerialPoll, SerialTimesOut, ExitWait, Return, Raise
<1>5. CASE TermWait \/ KillWait \/ CloseLog \/ DrainPipe
  BY <1>5 DEF TermWait, KillWait, CloseLog, DrainPipe, Finish
<1> QED
  BY <1>1, <1>2, <1>3, <1>4, <1>5 DEF Next, Qemu, Script, SessionStep

\* Every step keeps the events in order and without a gap.
LEMMA EventsStep == SessionInv /\ [Next]_vars => EventFlow'
<1> SUFFICES ASSUME SessionInv, [Next]_vars PROVE EventFlow'
  OBVIOUS
<1> USE DEF SessionInv, callVars, qmpVars, serialVars, ownVars, channelVars, outputVars, otherVars,
            qemuVars
<1>0. /\ wire \in Seq(Message) /\ Len(wire) \in Nat /\ events \in Seq(Nat) /\ Len(events) \in Nat
      /\ emitted \in Nat /\ Len(events) <= emitted
      /\ \A i \in 1..Len(wire) : wire[i] \in Message /\ wire[i].id \in Nat
  <2>1. wire \in Seq(Message) /\ events \in Seq(Nat) /\ emitted \in Nat /\ Len(events) <= emitted
    BY DEF Answers, EventFlow
  <2>2. \A i \in 1..Len(wire) : wire[i] \in Message
    BY <2>1
  <2> QED
    BY <2>1, <2>2 DEF Message
<1>1. CASE UNCHANGED <<events, wire, emitted>> /\ (monitor' => monitor) /\ (pc' = "new" => pc = "new")
  <2>1. wire' = wire /\ events' = events /\ emitted' = emitted
    BY <1>1
  <2> QED
    BY <1>1, <2>1, Zenon DEF EventFlow
<1>2. CASE QemuEvent \/ \E kind \in {"return", "error"} : QemuAnswers(kind)
  <2>1. PICK m \in Message : /\ wire' = Append(wire, m)
                             /\ \/ m.kind # "event" /\ emitted' = emitted
                                \/ m.kind = "event" /\ emitted' = emitted + 1 /\ m.id = emitted + 1
    <3>1. CASE QemuEvent
      <4>1. [kind |-> "event", id |-> emitted + 1] \in Message
        BY <1>0 DEF Message
      <4> QED
        BY <3>1, <4>1 DEF QemuEvent
    <3>2. ASSUME NEW kind \in {"return", "error"}, QemuAnswers(kind)
          PROVE  \E m \in Message : wire' = Append(wire, m) /\ m.kind # "event" /\ emitted' = emitted
      <4>1. requests # <<>> /\ requests \in Seq([id : Nat, dumps : BOOLEAN])
        BY <3>2 DEF QemuAnswers, Answers
      <4>2. Head(requests) \in [id : Nat, dumps : BOOLEAN]
        BY <4>1, TailOf
      <4>3. [kind |-> kind, id |-> Head(requests).id] \in Message
        BY <4>2 DEF Message
      <4> QED
        BY <3>2, <4>3 DEF QemuAnswers
    <3> QED
      BY <1>2, <3>1, <3>2
  <2>2. monitor /\ UNCHANGED <<events, pc>> /\ pc # "new"
    BY <1>2 DEF QemuEvent, QemuAnswers, Control
  <2>3. /\ Len(wire') = Len(wire) + 1 /\ wire'[Len(wire) + 1] = m
        /\ \A i \in 1..Len(wire) : wire'[i] = wire[i]
    BY <1>0, <2>1, Appended
  <2>4. emitted' \in Nat /\ emitted <= emitted'
    BY <1>0, <2>1
  <2>5. \A n, k \in Nat : k <= Len(wire) /\ OnWire(wire, n, k) => OnWire(wire', n, k)
    BY <1>0, <2>3 DEF OnWire
  <2>6. \A n \in Len(events) + 1..emitted : OnWire(wire, n, Len(wire)) /\ OnWire(wire', n, Len(wire))
    <3>1. \A n \in Len(events) + 1..emitted : OnWire(wire, n, Len(wire)) /\ n \in Nat
      <4>1. \A n \in Len(events) + 1..emitted : OnWire(wire, n, Len(wire))
        BY <2>2, Zenon DEF EventFlow
      <4>2. \A n \in Len(events) + 1..emitted : n \in Nat
        BY <1>0
      <4> QED
        BY <4>1, <4>2, Zenon
    <3>2. Len(wire) \in Nat /\ Len(wire) <= Len(wire)
      BY <1>0
    <3> QED
      BY <2>5, <3>1, <3>2, Zenon
  <2>7. \A n \in Len(events) + 1..emitted' : OnWire(wire', n, Len(wire'))
    <3> SUFFICES ASSUME NEW n \in Len(events) + 1..emitted'
                 PROVE  \E i \in 1..Len(wire') : wire'[i].kind = "event" /\ wire'[i].id = n
      BY DEF OnWire
    <3>1. CASE n <= emitted
      <4>1. n \in Len(events) + 1..emitted
        BY <1>0, <2>4, <3>1
      <4>2. PICK i \in 1..Len(wire) : wire'[i].kind = "event" /\ wire'[i].id = n
        BY <2>6, <4>1, Zenon DEF OnWire
      <4>3. i \in 1..Len(wire')
        BY <1>0, <2>3, <4>2
      <4> QED
        BY <4>2, <4>3
    <3>2. CASE n > emitted
      BY <1>0, <2>1, <2>3, <3>2
    <3> QED
      BY <1>0, <3>1, <3>2
  <2>8. ASSUME NEW i \in 1..Len(wire'), wire'[i].kind = "event"
        PROVE  /\ Len(events) < wire'[i].id /\ wire'[i].id <= emitted'
               /\ \A j \in 1..(i - 1) : wire'[j].kind = "event" => wire'[j].id < wire'[i].id
               /\ \A n \in Len(events) + 1..wire'[i].id - 1 : OnWire(wire', n, i - 1)
    <3>1. CASE i \in 1..Len(wire)
      <4>1. wire'[i] = wire[i] /\ \A j \in 1..(i - 1) : j \in 1..Len(wire) /\ wire'[j] = wire[j]
        BY <1>0, <2>3, <3>1, SMTT(40)
      <4>2. /\ Len(events) < wire[i].id /\ wire[i].id <= emitted /\ wire[i].id \in Nat
            /\ \A j \in 1..(i - 1) : wire[j].kind = "event" => wire[j].id < wire[i].id
            /\ \A n \in Len(events) + 1..wire[i].id - 1 : OnWire(wire, n, i - 1)
        BY <1>0, <2>8, <3>1, <4>1 DEF EventFlow
      <4>3. \A n \in Len(events) + 1..wire[i].id - 1 : OnWire(wire', n, i - 1)
        BY <1>0, <2>5, <3>1, <4>2
      <4> QED
        BY <1>0, <2>4, <4>1, <4>2, <4>3, SMTT(40)
    <3>2. CASE i = Len(wire) + 1
      <4>1. wire'[i] = m /\ m.kind = "event" /\ m.id = emitted + 1 /\ emitted' = emitted + 1 /\ i - 1 = Len(wire)
        BY <1>0, <2>1, <2>3, <2>8, <3>2
      <4>2. \A j \in 1..Len(wire) : wire[j].kind = "event" => wire[j].id <= emitted
        BY DEF EventFlow
      <4> QED
        BY <1>0, <2>3, <2>6, <4>1, <4>2
    <3> QED
      BY <1>0, <2>3, <3>1, <3>2
  <2> QED
    BY <1>0, <2>2, <2>4, <2>7, <2>8 DEF EventFlow
<1>3. CASE MonitorCloses \/ (\E code \in 0..1 : QemuExits(code)) \/ CloseQmp
  <2>1. /\ UNCHANGED <<events, emitted>> /\ ~monitor' /\ (wire' = wire \/ wire' = <<>>)
        /\ pc # "new" /\ pc' # "new"
    BY <1>3 DEF MonitorCloses, QemuExits, CloseQmp, Disconnect, Control
  <2>2. CASE wire' = wire
    BY <2>1, <2>2, SMTT(40) DEF EventFlow, OnWire
  <2>3. CASE wire' = <<>>
    BY <2>1, <2>3 DEF EventFlow, OnWire
  <2> QED
    BY <2>1, <2>2, <2>3
<1>4. CASE Start
  <2>1. pc = "new" /\ pc' = "exec" /\ UNCHANGED <<events, emitted, wire>>
    BY <1>4 DEF Start
  <2>2. emitted = 0 /\ Len(events) = 0
    BY <1>0, <2>1 DEF EventFlow
  <2> QED
    BY <2>1, <2>2 DEF EventFlow, OnWire
<1>5. CASE ReadEvent \/ ReadStale \/ ReadAnswer
  <2>1. /\ wire # <<>> /\ wire' = Tail(wire) /\ UNCHANGED <<emitted, monitor>>
        /\ Head(wire).kind = "event" => events' = Append(events, Head(wire).id)
        /\ Head(wire).kind # "event" => events' = events
        /\ pc = "exec" /\ pc' # "new"
    BY <1>5 DEF ReadEvent, ReadStale, ReadAnswer, CanRead, OwnAnswer, Raise, Return
  <2>2. /\ Len(wire') = Len(wire) - 1 /\ Len(wire) \in Nat \ {0} /\ Head(wire) = wire[1]
        /\ \A i \in 1..Len(wire') : i + 1 \in 1..Len(wire) /\ wire'[i] = wire[i + 1]
        /\ wire[1] \in Message /\ wire[1].id \in Nat /\ 1 \in 1..Len(wire)
    BY <1>0, <2>1, TailOf
  <2>3. wire[1].kind = "event" => wire[1].id = Len(events) + 1
    <3> SUFFICES ASSUME wire[1].kind = "event" PROVE wire[1].id = Len(events) + 1
      OBVIOUS
    <3>1. /\ Len(events) < wire[1].id
          /\ \A n \in Len(events) + 1..wire[1].id - 1 : OnWire(wire, n, 1 - 1)
      BY <2>2 DEF EventFlow
    <3>2. \A n : ~OnWire(wire, n, 1 - 1)
      BY DEF OnWire
    <3>3. Len(events) + 1 \notin Len(events) + 1..wire[1].id - 1
      BY <3>1, <3>2
    <3> QED
      BY <1>0, <2>2, <3>1, <3>3
  <2>4. /\ events' \in Seq(Nat) /\ \A i \in 1..Len(events') : events'[i] = i
        /\ wire[1].kind = "event" => Len(events') = Len(events) + 1
        /\ wire[1].kind # "event" => Len(events') = Len(events)
        /\ Len(events') \in Nat
    <3>1. CASE wire[1].kind = "event"
      <4>1. events' = Append(events, wire[1].id)
        BY <2>1, <2>2, <3>1
      <4>2. /\ events' \in Seq(Nat) /\ Len(events') = Len(events) + 1
            /\ \A i \in 1..Len(events) : events'[i] = events[i]
            /\ events'[Len(events) + 1] = wire[1].id
        BY <1>0, <2>2, <4>1, Appended
      <4>3. \A i \in 1..Len(events) : events'[i] = i
        BY <4>2 DEF EventFlow
      <4>4. \A i \in 1..Len(events') : i \in 1..Len(events) \/ i = Len(events) + 1
        BY <1>0, <4>2
      <4>5. \A i \in 1..Len(events') : events'[i] = i
        BY <2>3, <3>1, <4>2, <4>3, <4>4
      <4> QED
        BY <1>0, <3>1, <4>2, <4>5
    <3>2. CASE wire[1].kind # "event"
      BY <1>0, <2>1, <2>2, <3>2 DEF EventFlow
    <3> QED
      BY <3>1, <3>2
  <2>5. ASSUME NEW n \in Nat, NEW k \in 1..Len(wire), n > Len(events'), OnWire(wire, n, k)
        PROVE  OnWire(wire', n, k - 1)
    <3>1. PICK i \in 1..k : wire[i].kind = "event" /\ wire[i].id = n
      BY <2>5 DEF OnWire
    <3>2. i # 1
      BY <1>0, <2>3, <2>4, <2>5, <3>1
    <3>3. i - 1 \in 1..(k - 1) /\ i - 1 \in 1..Len(wire') /\ (i - 1) + 1 = i
      BY <2>2, <3>1, <3>2
    <3>4. wire'[i - 1] = wire[i]
      BY <2>2, <3>3
    <3> QED
      BY <3>1, <3>3, <3>4 DEF OnWire
  <2>6. ASSUME NEW i \in 1..Len(wire'), wire'[i].kind = "event"
        PROVE  /\ Len(events') < wire'[i].id /\ wire'[i].id <= emitted
               /\ \A j \in 1..(i - 1) : wire'[j].kind = "event" => wire'[j].id < wire'[i].id
               /\ \A n \in Len(events') + 1..wire'[i].id - 1 : OnWire(wire', n, i - 1)
    <3> DEFINE k == i + 1
    <3>1. k \in 1..Len(wire) /\ wire'[i] = wire[k] /\ wire[k].kind = "event" /\ wire[k].id \in Nat
      BY <1>0, <2>2, <2>6
    <3>2. /\ Len(events) < wire[k].id /\ wire[k].id <= emitted
          /\ \A j \in 1..(k - 1) : wire[j].kind = "event" => wire[j].id < wire[k].id
          /\ \A n \in Len(events) + 1..wire[k].id - 1 : OnWire(wire, n, k - 1)
      BY <3>1 DEF EventFlow
    <3>3. Len(events') < wire[k].id
      <4>1. 1 \in 1..(k - 1)
        BY <2>2
      <4> QED
        BY <1>0, <2>2, <2>3, <2>4, <3>1, <3>2, <4>1
    <3>4. \A j \in 1..(i - 1) : wire'[j].kind = "event" => wire'[j].id < wire'[i].id
      <4> SUFFICES ASSUME NEW j \in 1..(i - 1), wire'[j].kind = "event"
                   PROVE  wire'[j].id < wire'[i].id
        OBVIOUS
      <4>1. j + 1 \in 1..(k - 1) /\ j \in 1..Len(wire')
        BY <2>2
      <4> QED
        BY <2>2, <3>1, <3>2, <4>1
    <3>5. ASSUME NEW n \in Len(events') + 1..wire'[i].id - 1 PROVE OnWire(wire', n, i - 1)
      <4>1. n \in Len(events) + 1..wire[k].id - 1 /\ n \in Nat /\ n > Len(events')
        BY <1>0, <2>4, <3>1, SMTT(40)
      <4>2. OnWire(wire, n, k - 1) /\ k - 1 = i /\ i \in 1..Len(wire)
        BY <2>2, <3>2, <4>1
      <4> QED
        BY <2>5, <4>1, <4>2
    <3> QED
      BY <3>1, <3>2, <3>3, <3>4, <3>5
  <2>7. monitor' => \A n \in Len(events') + 1..emitted' : OnWire(wire', n, Len(wire'))
    <3> SUFFICES ASSUME monitor', NEW n \in Len(events') + 1..emitted' PROVE OnWire(wire', n, Len(wire'))
      OBVIOUS
    <3>1. n \in Len(events) + 1..emitted /\ n \in Nat /\ n > Len(events') /\ monitor
      BY <1>0, <2>1, <2>4, SMTT(40)
    <3>2. OnWire(wire, n, Len(wire))
      BY <3>1 DEF EventFlow
    <3> QED
      BY <2>2, <2>5, <3>1, <3>2
  <2>8. Len(events') <= emitted
    BY <1>0, <2>2, <2>3, <2>4 DEF EventFlow
  <2> QED
    BY <1>0, <2>1, <2>4, <2>6, <2>7, <2>8 DEF EventFlow
<1> QED
  BY <1>1, <1>2, <1>3, <1>4, <1>5, EventSteps

-----------------------------------------------------------------------------
(***************************************************************************)
(* The output.                                                             *)
(***************************************************************************)

\* What is read from a sequence up to the start of its last part.
LEMMA FirstPart ==
    ASSUME NEW S, NEW s \in Seq(S), NEW t \in Seq(S)
    PROVE  SubSeq(s \o t, 1, Len(s \o t) - Len(t)) = s
<1> DEFINE c == s \o t
<1>1. /\ c \in Seq(S) /\ Len(c) = Len(s) + Len(t) /\ \A i \in 1..Len(s) : c[i] = s[i]
      /\ Len(s) \in Nat /\ Len(t) \in Nat
  BY Concatenation
<1> HIDE DEF c
<1>2. Len(c) - Len(t) = Len(s)
  BY <1>1
<1>3. /\ SubSeq(c, 1, Len(s)) \in Seq(S) /\ Len(SubSeq(c, 1, Len(s))) = Len(s)
      /\ \A i \in 1..Len(s) : SubSeq(c, 1, Len(s))[i] = c[i]
  BY <1>1
<1>4. SubSeq(c, 1, Len(s)) = s
  BY <1>1, <1>3, SameSequence
<1> QED
  BY <1>2, <1>4 DEF c

\* A step that leaves the output alone and starts nothing that depends on it.
Still ==
    /\ UNCHANGED <<serialBuffer, log, pipe, printed>>
    /\ pc = "failed" => pc' = "failed"
    /\ logOpen' \/ starting' => logOpen \/ starting
    /\ pc' = "new" => pc = "new"
    /\ terminated' /\ pc' = "failed" => terminated /\ pc = "failed"

\* The steps that are not still.
LEMMA StillSteps ==
    ASSUME [Next]_vars, Control
    PROVE  Still \/ (\E piece \in Text : QemuPrints(piece)) \/ Start \/ SerialRead \/ DrainPipe
<1> USE DEF callVars, qmpVars, serialVars, ownVars, channelVars, outputVars, otherVars,
            qemuVars, vars
<1>1. CASE \/ QemuEvent \/ \E kind \in {"return", "error"} : QemuAnswers(kind)
           \/ MonitorCloses \/ (\E code \in 0..1 : QemuExits(code))
           \/ QemuWrites \/ HeirShows \/ HeirEnds \/ DeadlinePasses \/ MediaPath
           \/ ReadEvent \/ ReadStale \/ Failed \/ UNCHANGED vars
  <2>1. /\ UNCHANGED <<serialBuffer, log, pipe, printed, pc>>
        /\ logOpen' = logOpen /\ starting' = starting /\ terminated' = terminated
    BY <1>1 DEF QemuEvent, QemuAnswers, MonitorCloses, QemuExits, QemuWrites, HeirShows, HeirEnds,
                DeadlinePasses, MediaPath, ReadEvent, ReadStale, Failed
  <2> QED
    BY <2>1 DEF Still
<1>2. CASE \/ \E piece \in Text : WaitForSerial(piece)
           \/ \E what \in {"screendump", "quit"} : Execute(what)
           \/ WriteRaises \/ WaitForExit \/ Terminate
  <2>1. /\ UNCHANGED <<serialBuffer, log, pipe, printed>>
        /\ logOpen' = logOpen /\ starting' = starting /\ pc = "idle"
        /\ pc' \in {"idle", "exec", "serial", "wait", "terminate"}
    BY <1>2 DEF WaitForSerial, Execute, WriteRaises, WaitForExit, Terminate, Call, Raise
  <2> QED
    BY <2>1 DEF Still
<1>3. CASE ReadAnswer \/ ReadTimesOut \/ ReadRaises \/ ReadEof \/ QuitWait \/ SerialPoll
           \/ SerialTimesOut \/ ExitWait
  <2>1. /\ UNCHANGED <<serialBuffer, log, pipe, printed>> /\ logOpen' = logOpen
        /\ pc \in {"exec", "quit", "poll", "serial", "wait"}
    BY <1>3 DEF ReadAnswer, ReadTimesOut, ReadRaises, ReadEof, QuitWait, SerialPoll, SerialTimesOut,
                ExitWait, CanRead
  <2>2. pc' \in {"idle", "terminate", "quit", "serial"} /\ (starting' => starting)
    <3>1. \/ \E kind \in {"error", "no file", "timeout", "raised", "closed", "status", "exited"} :
                 Raise(kind)
          \/ \E kind \in {"return", "quit", "exit"}, id \in {Head(wire).id, qmpId, 0} :
                 Return(kind, id)
          \/ pc' \in {"quit", "serial"} /\ starting' = starting
      <4>1. CASE ReadAnswer
        BY <4>1 DEF ReadAnswer
      <4>2. CASE ReadTimesOut \/ ReadRaises
        BY <4>2 DEF ReadTimesOut, ReadRaises
      <4>3. CASE ReadEof
        BY <4>3 DEF ReadEof
      <4>4. CASE QuitWait
        BY <4>4 DEF QuitWait
      <4>5. CASE SerialPoll \/ SerialTimesOut \/ ExitWait
        BY <4>5 DEF SerialPoll, SerialTimesOut, ExitWait
      <4> QED
        BY <1>3, <4>1, <4>2, <4>3, <4>4, <4>5
    <3>2. CASE \E kind \in {"error", "no file", "timeout", "raised", "closed", "status", "exited"} :
                   Raise(kind)
      <4>1. pc' \in {"idle", "terminate"} /\ starting' = starting
        BY <3>2 DEF Raise
      <4> QED
        BY <4>1
    <3>3. CASE \E kind \in {"return", "quit", "exit"}, id \in {Head(wire).id, qmpId, 0} :
                   Return(kind, id)
      BY <3>3 DEF Return
    <3>4. CASE pc' \in {"quit", "serial"} /\ starting' = starting
      BY <3>4
    <3> QED
      BY <3>1, <3>2, <3>3, <3>4
  <2> QED
    BY <2>1, <2>2 DEF Still
<1>4. CASE CloseQmp \/ TermWait \/ CloseLog
  BY <1>4 DEF CloseQmp, TermWait, CloseLog, Finish, Still
<1>5. CASE KillWait
  BY <1>5 DEF KillWait, Finish, Still, Control
<1> QED
  BY <1>1, <1>2, <1>3, <1>4, <1>5 DEF Next, Qemu, Script, SessionStep

\* Every step keeps what was printed: it is in the pipe, or it was read and is in the
\* log and, as far as it fits, in the buffer.
LEMMA OutputStep == SessionInv /\ [Next]_vars => Output'
<1> SUFFICES ASSUME SessionInv, [Next]_vars PROVE Output'
  OBVIOUS
<1> USE DEF SessionInv, callVars, qmpVars, serialVars, ownVars, channelVars, outputVars, otherVars,
            qemuVars
<1>0. /\ serialBuffer \in Seq(Text) /\ log \in Seq(Text) /\ pipe \in Seq(Text)
      /\ printed \in Seq(Text) /\ Seen \in Seq(Text) /\ printed = Seen \o pipe
      /\ Len(pipe) \in Nat /\ Len(printed) \in Nat /\ Len(pipe) <= Len(printed)
  <2>1. {serialBuffer, log, pipe, printed} \subseteq Seq(Text)
    BY DEF Output
  <2>2. serialBuffer \in Seq(Text) /\ log \in Seq(Text) /\ pipe \in Seq(Text) /\ printed \in Seq(Text)
    BY <2>1
  <2>3. printed = Seen \o pipe /\ Len(pipe) <= Len(printed)
    BY DEF Output
  <2>4. Len(pipe) \in Nat /\ Len(printed) \in Nat
    BY <2>2
  <2>5. Len(printed) - Len(pipe) \in 0..Len(printed)
    BY <2>3, <2>4
  <2>6. Seen \in Seq(Text)
    BY <2>2, <2>5 DEF Seen
  <2> QED
    BY <2>2, <2>3, <2>4, <2>6
<1>1. CASE Still
  <2>1. Seen' = Seen
    BY <1>1 DEF Still, Seen
  <2> QED
    BY <1>1, <2>1 DEF Still, Output
<1>2. ASSUME NEW piece \in Text, QemuPrints(piece) PROVE Output'
  <2>1. /\ pipe' = Append(pipe, piece) /\ printed' = Append(printed, piece)
        /\ UNCHANGED <<serialBuffer, log, pc>> /\ logOpen' = logOpen /\ starting' = starting
        /\ terminated' = terminated
    BY <1>2 DEF QemuPrints
  <2>2. pc # "new" /\ ~(terminated /\ pc = "failed")
    BY <1>2 DEF QemuPrints, Control
  <2>3. pipe' \in Seq(Text) /\ printed' \in Seq(Text) /\ Len(pipe') <= Len(printed')
    BY <1>0, <2>1
  <2>4. printed' = Seen \o pipe'
    <3> DEFINE r == Seen
               c == r \o pipe
               b == r \o pipe'
               n == Len(r)
               k == Len(pipe)
    <3>1. /\ c \in Seq(Text) /\ Len(c) = n + k /\ n \in Nat /\ k \in Nat
          /\ \A i \in 1..n : c[i] = r[i]
          /\ \A i \in n + 1..n + k : c[i] = pipe[i - n]
      BY <1>0, Concatenation
    <3>2. /\ pipe' \in Seq(Text) /\ Len(pipe') = k + 1
          /\ (\A i \in 1..k : pipe'[i] = pipe[i]) /\ pipe'[k + 1] = piece
      BY <1>0, <2>1, Appended
    <3>3. printed = c /\ printed' = Append(c, piece) /\ r \in Seq(Text)
      BY <1>0, <2>1
    <3> HIDE DEF c, n, k, r
    <3>4. /\ printed' \in Seq(Text) /\ Len(printed') = n + k + 1
          /\ \A i \in 1..(n + k) : printed'[i] = c[i]
          /\ printed'[n + k + 1] = piece
      BY <3>1, <3>3, Appended
    <3>5. /\ b \in Seq(Text) /\ Len(b) = n + k + 1
          /\ \A i \in 1..n : b[i] = r[i]
          /\ \A i \in n + 1..n + k + 1 : b[i] = pipe'[i - n]
      <4>1. /\ b \in Seq(Text) /\ Len(b) = n + Len(pipe')
            /\ \A i \in 1..n : b[i] = r[i]
            /\ \A i \in n + 1..n + Len(pipe') : b[i] = pipe'[i - n]
        BY <3>2, <3>3, Concatenation DEF n
      <4>2. n + Len(pipe') = n + k + 1
        BY <3>1, <3>2
      <4> QED
        BY <4>1, <4>2
    <3> HIDE DEF b
    <3>6. ASSUME NEW i \in 1..Len(printed') PROVE printed'[i] = b[i]
      <4>1. i \in 1..n \/ i \in n + 1..n + k \/ i = n + k + 1
        BY <3>1, <3>4
      <4>2. CASE i \in 1..n
        BY <3>1, <3>4, <3>5, <4>2
      <4>3. CASE i \in n + 1..n + k
        <5>1. i \in 1..(n + k) /\ i \in n + 1..n + k + 1 /\ i - n \in 1..k
          BY <3>1, <4>3
        <5> QED
          BY <3>1, <3>2, <3>4, <3>5, <4>3, <5>1
      <4>4. CASE i = n + k + 1
        <5>1. i \in n + 1..n + k + 1 /\ i - n = k + 1
          BY <3>1, <4>4
        <5> QED
          BY <3>2, <3>4, <3>5, <4>4, <5>1
      <4> QED
        BY <4>1, <4>2, <4>3, <4>4
    <3>7. printed' = b
      BY <3>4, <3>5, <3>6, SameSequence
    <3> QED
      BY <3>7 DEF b, r
  <2>5. SubSeq(Seen \o pipe', 1, Len(Seen \o pipe') - Len(pipe')) = Seen
    BY <1>0, <2>3, FirstPart
  <2>6. Seen' = Seen
    BY <2>4, <2>5 DEF Seen
  <2> QED
    BY <1>0, <2>1, <2>2, <2>3, <2>4, <2>6 DEF Output
<1>3. CASE Start
  <2>1. /\ UNCHANGED <<serialBuffer, log, pipe, printed>> /\ pc = "new" /\ pc' = "exec"
    BY <1>3 DEF Start
  <2>2. Seen' = Seen
    BY <2>1 DEF Seen
  <2>3. log = <<>> /\ printed = <<>> /\ Len(printed) = 0
    BY <2>1 DEF Output
  <2>4. Len(printed) - Len(pipe) = 0
    BY <1>0, <2>3
  <2>5. Seen = <<>>
    BY <2>3, <2>4 DEF Seen
  <2> QED
    BY <2>1, <2>2, <2>3, <2>5 DEF Output
<1>4. ASSUME pipe' = <<>>, printed' = printed
      PROVE  Seen' = printed /\ printed' = Seen' \o pipe' /\ Len(pipe') <= Len(printed')
             /\ pipe' \in Seq(Text)
  <2>1. Len(<<>>) = 0 /\ <<>> \in Seq(Text)
    OBVIOUS
  <2>2. Len(printed) - 0 = Len(printed)
    BY <1>0
  <2>3. SubSeq(printed, 1, Len(printed)) = printed /\ printed \o <<>> = printed
    BY <1>0
  <2>4. Seen' = printed
    BY <1>4, <2>1, <2>2, <2>3 DEF Seen
  <2> QED
    BY <1>0, <1>4, <2>1, <2>3, <2>4
<1>5. CASE SerialRead
  <2>1. /\ pipe' = <<>> /\ printed' = printed /\ pc = "serial" /\ pc' \in {"idle", "poll"}
        /\ serialBuffer' = LastPieces(serialBuffer \o pipe, MaxBuffer)
        /\ log' = IF logOpen THEN log \o pipe ELSE log
        /\ logOpen' = logOpen
    BY <1>5 DEF SerialRead, Return
  <2>2. ~starting /\ ~starting'
    BY <1>5, <2>1 DEF SerialRead, Return, Control
  <2>3. serialBuffer = LastPieces(Seen, MaxBuffer) /\ (logOpen => log = Seen)
    BY <2>1 DEF Output
  <2>4. serialBuffer' = LastPieces(Seen \o pipe, MaxBuffer)
    BY <1>0, <2>1, <2>3, TrimTwice, SessionAssumption
  <2>5. serialBuffer' \in Seq(Text) /\ log' \in Seq(Text)
    <3>1. printed \in Seq(Text) /\ serialBuffer' = LastPieces(printed, MaxBuffer)
      BY <1>0, <2>4
    <3>2. serialBuffer' \in Seq(Text)
      <4>1. CASE Len(printed) <= MaxBuffer
        BY <3>1, <4>1 DEF LastPieces
      <4>2. CASE MaxBuffer < Len(printed)
        BY <3>1, <4>2, LastPiecesOfLong, SessionAssumption
      <4> QED
        BY <1>0, <4>1, <4>2, SessionAssumption
    <3> QED
      BY <1>0, <2>1, <3>2
  <2>6. Seen' = printed /\ printed' = Seen' \o pipe' /\ Len(pipe') <= Len(printed')
        /\ pipe' \in Seq(Text)
    BY <1>4, <2>1
  <2>7. logOpen' => log' = Seen'
    BY <1>0, <2>1, <2>3, <2>6
  <2>8. serialBuffer' = LastPieces(Seen', MaxBuffer)
    BY <1>0, <2>4, <2>6
  <2>9. {serialBuffer', log', pipe', printed'} \subseteq Seq(Text)
    BY <1>0, <2>1, <2>5, <2>6
  <2> QED
    BY <2>1, <2>2, <2>6, <2>7, <2>8, <2>9 DEF Output
<1>6. CASE DrainPipe
  <2>1. /\ pipe' = <<>> /\ printed' = printed /\ pc = "drain" /\ pc' = "failed"
        /\ log' = log \o pipe /\ serialBuffer' = serialBuffer
    BY <1>6 DEF DrainPipe
  <2>2. log = Seen
    BY <2>1 DEF Control, Output
  <2>3. Seen' = printed /\ printed' = Seen' \o pipe' /\ Len(pipe') <= Len(printed')
        /\ pipe' \in Seq(Text)
    BY <1>4, <2>1
  <2>4. log' = printed
    BY <1>0, <2>1, <2>2
  <2>5. {serialBuffer', log', pipe', printed'} \subseteq Seq(Text)
    BY <1>0, <2>1, <2>3, <2>4
  <2> QED
    BY <2>1, <2>3, <2>4, <2>5 DEF Output
<1> QED
  BY <1>1, <1>2, <1>3, <1>5, <1>6, StillSteps

-----------------------------------------------------------------------------
(***************************************************************************)
(* The theorems.                                                           *)
(***************************************************************************)

\* SessionInv holds in every state of a session.
THEOREM SessionInvariant == Spec => []SessionInv
<1>1. SessionInv /\ [Next]_vars => SessionInv'
  BY ControlStep, AnswersStep, EventsStep, OutputStep DEF SessionInv
<1> QED
  BY <1>1, SessionInit, PTL DEF Spec

\* execute(), screendump() and quit(): a call that succeeds has its own answer and its
\* own file, whatever commands were abandoned before it (SuccessIsReal).
THEOREM OwnAnswers == Spec => []SuccessIsReal
<1>1. SessionInv => SuccessIsReal
  BY DEF SessionInv, Control, Answers, SuccessIsReal
<1> QED
  BY <1>1, SessionInvariant, PTL

\* The events property has every event once and in order, across calls (EventsInOrder).
THEOREM EventsKept == Spec => []EventsInOrder
<1>1. SessionInv => EventsInOrder
  <2> SUFFICES ASSUME SessionInv PROVE EventsInOrder
    OBVIOUS
  <2>1. DOMAIN events = 1..Len(events)
    BY DEF SessionInv, EventFlow
  <2> QED
    BY <2>1 DEF SessionInv, EventFlow, EventsInOrder
<1> QED
  BY <1>1, SessionInvariant, PTL

\* The log and the buffer that the next wait searches hold what was read, in order, and
\* after a failed start the log holds all that was printed (SerialIsKept).
THEOREM OutputKept == Spec => []SerialIsKept
<1>1. SessionInv => SerialIsKept
  <2> SUFFICES ASSUME SessionInv PROVE SerialIsKept
    OBVIOUS
  <2>1. /\ pc # "failed" => serialBuffer = LastPieces(Seen, MaxBuffer)
        /\ logOpen \/ starting => log = Seen
    BY DEF SessionInv, Output
  <2>2. terminated /\ pc = "failed" => log = printed
    <3> SUFFICES ASSUME terminated, pc = "failed" PROVE log = printed
      OBVIOUS
    <3>1. log = Seen /\ pipe = <<>> /\ printed = Seen \o pipe
      BY DEF SessionInv, Control, Output
    <3>2. printed \in Seq(Text) /\ Len(pipe) = 0
      BY <3>1 DEF SessionInv, Output
    <3>3. Len(printed) - 0 = Len(printed) /\ SubSeq(printed, 1, Len(printed)) = printed
      BY <3>2
    <3>4. Seen = printed
      BY <3>2, <3>3 DEF Seen
    <3> QED
      BY <3>1, <3>4
  <2> QED
    BY <2>1, <2>2 DEF SerialIsKept, Seen
<1> QED
  BY <1>1, SessionInvariant, PTL

\* media_path(): a medium that the script has is never written again (MediaIsStable).
THEOREM MediaSettled == Spec => MediaIsStable
<1>1. SessionInv /\ [Next]_vars => [handed => media' = media]_vars
  <2> SUFFICES ASSUME SessionInv, Next, handed PROVE media' = media
    BY DEF vars, qemuVars, otherVars
  <2> USE DEF callVars, qmpVars, serialVars, ownVars, channelVars, outputVars, otherVars,
              qemuVars, vars
  <2>1. process = "exited"
    BY DEF SessionInv, Control
  <2>2. CASE Qemu
    BY <2>1, <2>2 DEF Qemu, QemuPrints, QemuEvent, QemuAnswers, MonitorCloses, QemuExits, QemuWrites,
                      HeirShows, HeirEnds
  <2>3. CASE DeadlinePasses \/ Failed
    BY <2>3 DEF DeadlinePasses, Failed
  <2>4. CASE Script
    BY <2>4 DEF Script, Start, Execute, WriteRaises, WaitForSerial, WaitForExit, MediaPath, Terminate
  <2>5. CASE SessionStep
    BY <2>5 DEF SessionStep, ReadEvent, ReadStale, ReadAnswer, ReadTimesOut, ReadRaises, ReadEof,
                QuitWait, SerialRead, SerialPoll, SerialTimesOut, ExitWait, CloseQmp, TermWait,
                KillWait, CloseLog, DrainPipe
  <2> QED
    BY <2>2, <2>3, <2>4, <2>5 DEF Next
<1> QED
  BY <1>1, SessionInvariant, PTL DEF Spec, MediaIsStable

=============================================================================
