------------------------ MODULE SerialAssertionProofs ------------------------
(***************************************************************************)
(* Theorems about SerialAssertion, for every plan, alphabet and set of     *)
(* chunks: types, that a verdict is final and the memory bounded, that a   *)
(* forbidden marker is found exactly when it is there, that a pass means   *)
(* the plan was met boot by boot, and that the machine is never behind.    *)
(***************************************************************************)
EXTENDS SerialAssertion, WellFoundedInduction, TLAPS

-----------------------------------------------------------------------------
(***************************************************************************)
(* Induction over the naturals as it is used here: a non-empty set of      *)
(* naturals, in particular one of counterexamples, has a least element.    *)
(***************************************************************************)

\* The least-number principle for sets.
LEMMA LeastElement ==
    ASSUME NEW T, T \subseteq Nat, T # {}
    PROVE  \E x \in T : \A y \in T : x <= y
<1> DEFINE R == OpToRel(<, Nat)
<1>1. IsWellFoundedOn(R, Nat)
  BY NatLessThanWellFounded
<1>2. \A x, y \in Nat : <<y, x>> \notin R => x <= y
  BY DEF OpToRel
<1> HIDE DEF R
<1>3. \E x \in T : \A y \in T : <<y, x>> \notin R
  BY <1>1, WFMin
<1> QED
  BY <1>2, <1>3

\* Finitely many naturals have a greatest one; 0 serves when there are none.
LEMMA GreatestExists ==
    ASSUME NEW N \in Nat, NEW f, \A i \in 1..N : f[i] \in Nat
    PROVE  \E m \in {0} \cup {f[i] : i \in 1..N} : \A i \in 1..N : f[i] <= m
<1> DEFINE Good(k) == \E m \in {0} \cup {f[i] : i \in 1..k} : \A i \in 1..k : f[i] <= m
           Bad == {k \in 0..N : ~Good(k)}
<1>1. SUFFICES ASSUME Bad # {} PROVE FALSE
  <2>1. Bad = {}
    BY <1>1
  <2> QED
    BY <2>1
<1>2. PICK k \in Bad : \A j \in Bad : k <= j
  <2>1. Bad \subseteq Nat
    OBVIOUS
  <2> HIDE DEF Bad
  <2> QED
    BY <1>1, <2>1, LeastElement
<1>3. k # 0
  BY <1>2
<1>4. k - 1 \in 0..N /\ k - 1 \notin Bad
  <2>1. k \in 0..N
    BY <1>2
  <2> HIDE DEF Bad
  <2> QED
    BY <1>2, <1>3, <2>1
<1>5. PICK m \in {0} \cup {f[i] : i \in 1..(k - 1)} : \A i \in 1..(k - 1) : f[i] <= m
  BY <1>4
<1>6. m \in Nat /\ f[k] \in Nat /\ k \in 1..N
  BY <1>2, <1>3, <1>5
<1>7. \A i \in 1..k : i = k \/ i \in 1..(k - 1)
  BY <1>6
<1>8. CASE f[k] <= m
  <2>1. m \in {0} \cup {f[i] : i \in 1..k}
    BY <1>5, <1>6
  <2>2. \A i \in 1..k : f[i] <= m
    BY <1>5, <1>7, <1>8
  <2> QED
    BY <1>2, <2>1, <2>2
<1>9. CASE m < f[k]
  <2>1. f[k] \in {0} \cup {f[i] : i \in 1..k}
    BY <1>6
  <2>2. \A i \in 1..k : f[i] <= f[k]
    <3> SUFFICES ASSUME NEW i \in 1..k PROVE f[i] <= f[k]
      OBVIOUS
    <3>1. CASE i = k
      BY <3>1, <1>6
    <3>2. CASE i \in 1..(k - 1)
      <4>1. f[i] <= m /\ f[i] \in Nat
        BY <3>2, <1>5, <1>6
      <4> QED
        BY <4>1, <1>6, <1>9
    <3> QED
      BY <3>1, <3>2, <1>7
  <2> QED
    BY <1>2, <2>1, <2>2
<1> QED
  BY <1>6, <1>8, <1>9

-----------------------------------------------------------------------------
(***************************************************************************)
(* The invariant.                                                          *)
(***************************************************************************)

\* While the verdict is open and no reboot is awaited the machine has a marker to
\* look for; it scans in no other state; a reboot is awaited in a phase that has a
\* successor; and the phase entered last has its start recorded.
Control ==
    /\ outcome = "running" /\ ~waitingForReboot =>
           markerIndex <= Len(Phases[phaseIndex])
    /\ pc = "scan" => outcome = "running" /\ ~waitingForReboot
    /\ waitingForReboot => phaseIndex < Len(Phases)
    /\ Len(boots) = phaseIndex

IInv == TypeOK /\ Control

-----------------------------------------------------------------------------
\* A phase has at least one marker, and a marker at least one byte.
LEMMA PlanShape ==
    /\ Len(Phases) \in Nat \ {0}
    /\ \A p \in 1..Len(Phases) :
           /\ Len(Phases[p]) \in Nat \ {0}
           /\ \A i \in 1..Len(Phases[p]) : Phases[p][i] \in Seq(Byte) /\ Len(Phases[p][i]) \in Nat \ {0}
<1>1. Phases \in Seq(Seq(Marker) \ {<<>>}) /\ Phases # <<>>
  BY PlanAssumption
<1>2. Len(Phases) \in Nat \ {0}
  BY <1>1
<1>3. ASSUME NEW p \in 1..Len(Phases)
      PROVE  /\ Len(Phases[p]) \in Nat \ {0}
             /\ \A i \in 1..Len(Phases[p]) : Phases[p][i] \in Seq(Byte) /\ Len(Phases[p][i]) \in Nat \ {0}
  <2>1. Phases[p] \in Seq(Marker) /\ Phases[p] # <<>>
    BY <1>1
  <2>2. Len(Phases[p]) \in Nat \ {0}
    BY <2>1
  <2>3. \A i \in 1..Len(Phases[p]) : Phases[p][i] \in Marker
    BY <2>1
  <2>4. \A m \in Marker : m \in Seq(Byte) /\ Len(m) \in Nat \ {0}
    BY DEF Marker
  <2> QED
    BY <2>2, <2>3, <2>4
<1> QED
  BY <1>2, <1>3

\* The slices of feed() are sequences of bytes again.
LEMMA SlicesAreBytes ==
    ASSUME NEW s \in Seq(Byte), NEW n \in Nat
    PROVE  LastBytes(s, n) \in Seq(Byte) /\ DropBytes(s, n) \in Seq(Byte)
BY DEF LastBytes, DropBytes

\* find() returns the first occurrence when there is one.
LEMMA FindEndIsFirst ==
    ASSUME NEW m, NEW s \in Seq(Byte), Occurs(m, s)
    PROVE  /\ FindEnd(m, s) \in 1..Len(s)
           /\ EndsAt(m, s, FindEnd(m, s))
           /\ \A d \in 1..(FindEnd(m, s) - 1) : ~EndsAt(m, s, d)
<1> DEFINE Ends == {e \in 1..Len(s) : EndsAt(m, s, e)}
<1>1. Ends \subseteq Nat /\ Ends # {}
  BY DEF Occurs
<1>2. PICK e \in Ends : \A d \in Ends : e <= d
  <2> HIDE DEF Ends
  <2> QED
    BY <1>1, LeastElement
<1>3. \A d \in 1..(e - 1) : ~EndsAt(m, s, d)
  BY <1>2
<1> QED
  BY <1>2, <1>3 DEF FindEnd

\* max(len(marker) - 1) is a natural number that no marker exceeds.
LEMMA OverlapSuffices ==
    /\ ForbiddenOverlap \in Nat
    /\ \A i \in DOMAIN Forbidden : /\ Forbidden[i] \in Seq(Byte)
                                   /\ Len(Forbidden[i]) \in Nat \ {0}
                                   /\ Len(Forbidden[i]) - 1 <= ForbiddenOverlap
<1> DEFINE f == [i \in 1..Len(Forbidden) |-> Len(Forbidden[i]) - 1]
           Lengths == {0} \cup {Len(Forbidden[i]) - 1 : i \in DOMAIN Forbidden}
<1>1. Forbidden \in Seq(Marker)
  BY PlanAssumption
<1>2. Len(Forbidden) \in Nat /\ DOMAIN Forbidden = 1..Len(Forbidden)
  BY <1>1
<1>3. \A i \in DOMAIN Forbidden : Forbidden[i] \in Seq(Byte) /\ Len(Forbidden[i]) \in Nat \ {0}
  <2>1. \A i \in DOMAIN Forbidden : Forbidden[i] \in Marker
    BY <1>1
  <2>2. \A m \in Marker : m \in Seq(Byte) /\ Len(m) \in Nat \ {0}
    BY DEF Marker
  <2> QED
    BY <2>1, <2>2
<1>4. \A i \in 1..Len(Forbidden) : f[i] \in Nat /\ f[i] = Len(Forbidden[i]) - 1
  BY <1>2, <1>3
<1>5. \E m \in {0} \cup {f[i] : i \in 1..Len(Forbidden)} : \A i \in 1..Len(Forbidden) : f[i] <= m
  <2> HIDE DEF f
  <2> QED
    BY <1>2, <1>4, GreatestExists
<1>6. \E m \in Lengths : \A i \in DOMAIN Forbidden : Len(Forbidden[i]) - 1 <= m
  <2>1. {0} \cup {f[i] : i \in 1..Len(Forbidden)} = Lengths
    BY <1>2, <1>4
  <2> HIDE DEF f, Lengths
  <2> QED
    BY <1>2, <1>4, <1>5, <2>1
<1>7. ForbiddenOverlap \in Lengths /\ \A i \in DOMAIN Forbidden : Len(Forbidden[i]) - 1 <= ForbiddenOverlap
  BY <1>6 DEF ForbiddenOverlap
<1>8. Lengths \subseteq Nat
  BY <1>3
<1> QED
  BY <1>3, <1>7, <1>8

-----------------------------------------------------------------------------
\* Type correctness, with the shape of the control state that it rests on: feed(),
\* the reset handler, exit and timeout keep every index inside the plan.
THEOREM TypeCorrect == Spec => []IInv
<1>1. Init => IInv
  <2> SUFFICES ASSUME Init PROVE IInv
    OBVIOUS
  <2>1. Len(Phases) \in Nat \ {0} /\ Len(Phases[1]) \in Nat \ {0}
    BY PlanShape
  <2>2. boots \in Seq(Nat) /\ Len(boots) = 1
    BY DEF Init
  <2>3. /\ forbiddenTail \in Seq(Byte) /\ markerBuffer \in Seq(Byte) /\ stream \in Seq(Byte)
    BY DEF Init
  <2>4. TypeOK
    <3>1. phaseIndex \in 1..Len(Phases) /\ markerIndex \in 1..(Len(Phases[phaseIndex]) + 1)
      BY <2>1 DEF Init
    <3> QED
      BY <2>2, <2>3, <3>1 DEF Init, TypeOK, Outcomes, Reasons
  <2>5. Control
    BY <2>1, <2>2 DEF Init, Control
  <2> QED
    BY <2>4, <2>5 DEF IInv
<1>2. IInv /\ [Next]_vars => IInv'
  <2> SUFFICES ASSUME IInv, [Next]_vars PROVE IInv'
    OBVIOUS
  <2> USE DEF IInv
  <2>1. ASSUME NEW chunk \in Chunks, Receive(chunk), pc = "idle", outcome = "running"
        PROVE  IInv'
    <3>1. chunk \in Seq(Byte)
      BY PlanAssumption DEF Marker
    <3>2. stream' \in Seq(Byte)
      BY <2>1, <3>1 DEF Receive, TypeOK
    <3>3. forbiddenTail \o chunk \in Seq(Byte)
      BY <3>1 DEF TypeOK
    <3>4. LastBytes(forbiddenTail \o chunk, ForbiddenOverlap) \in Seq(Byte)
      <4>1. ForbiddenOverlap \in Nat
        BY OverlapSuffices
      <4> DEFINE window == forbiddenTail \o chunk
      <4> HIDE DEF window
      <4>2. window \in Seq(Byte)
        BY <3>3 DEF window
      <4>3. LastBytes(window, ForbiddenOverlap) \in Seq(Byte)
        BY <4>1, <4>2, SlicesAreBytes
      <4> QED
        BY <4>3 DEF window
    <3>5. forbiddenTail' \in Seq(Byte)
      BY <2>1, <3>4 DEF Receive, TypeOK
    <3>6. markerBuffer' \in Seq(Byte)
      <4>1. markerBuffer \in Seq(Byte) /\ markerBuffer \o chunk \in Seq(Byte)
        BY <3>1 DEF TypeOK
      <4> QED
        BY <2>1, <4>1 DEF Receive
    <3>7. TypeOK'
      BY <2>1, <3>2, <3>5, <3>6 DEF Receive, Fail, TypeOK, Outcomes, Reasons
    <3>8. Control'
      BY <2>1 DEF Receive, Fail, Control
    <3> QED
      BY <3>7, <3>8
  <2>2. ASSUME ScanMatch PROVE IInv'
    <3>1. /\ pc = "scan" /\ outcome = "running" /\ ~waitingForReboot
          /\ markerIndex \in 1..Len(Phases[phaseIndex])
      BY <2>2, PlanShape DEF ScanMatch, TypeOK, Control
    <3>2. DropBytes(markerBuffer, FindEnd(CurrentMarker, markerBuffer)) \in Seq(Byte)
      <4>1. FindEnd(CurrentMarker, markerBuffer) \in 1..Len(markerBuffer)
        BY <2>2, FindEndIsFirst DEF ScanMatch, TypeOK
      <4> QED
        BY <4>1, SlicesAreBytes DEF TypeOK
    <3>3. markerBuffer' \in Seq(Byte)
      BY <2>2, <3>2 DEF ScanMatch
    <3>4. markerIndex' = markerIndex + 1 /\ phaseIndex' = phaseIndex
      BY <2>2 DEF ScanMatch
    <3>5. markerIndex' \in 1..(Len(Phases[phaseIndex']) + 1)
      BY <3>1, <3>4, PlanShape DEF TypeOK
    <3>6. waitingForReboot' \in BOOLEAN
      BY <2>2 DEF ScanMatch
    <3>7. TypeOK'
      BY <2>2, <3>3, <3>4, <3>5, <3>6 DEF ScanMatch, TypeOK, Outcomes, Reasons
    <3>8. Control'
      <4>1. CASE markerIndex < Len(Phases[phaseIndex])
        BY <2>2, <3>1, <3>4, <4>1, PlanShape DEF ScanMatch, Control, TypeOK
      <4>2. CASE markerIndex = Len(Phases[phaseIndex]) /\ phaseIndex = Len(Phases)
        BY <2>2, <3>1, <3>4, <4>2 DEF ScanMatch, Control
      <4>3. CASE markerIndex = Len(Phases[phaseIndex]) /\ phaseIndex # Len(Phases)
        <5>1. phaseIndex < Len(Phases)
          BY <4>3, PlanShape DEF TypeOK
        <5>2. waitingForReboot' /\ pc' = "idle" /\ boots' = boots
          BY <2>2, <4>3 DEF ScanMatch
        <5> QED
          BY <3>4, <5>1, <5>2 DEF Control
      <4> QED
        BY <3>1, <4>1, <4>2, <4>3, PlanShape DEF TypeOK
    <3> QED
      BY <3>7, <3>8
  <2>3. ASSUME ScanMiss PROVE IInv'
    <3>1. markerIndex \in 1..Len(Phases[phaseIndex])
      BY <2>3, PlanShape DEF ScanMiss, TypeOK, Control
    <3>2. Len(CurrentMarker) \in Nat \ {0}
      BY <3>1, PlanShape DEF CurrentMarker, TypeOK
    <3>3. markerBuffer' \in Seq(Byte)
      <4>1. Len(CurrentMarker) - 1 \in Nat
        BY <3>2
      <4> QED
        BY <2>3, <4>1, SlicesAreBytes DEF ScanMiss, TypeOK
    <3>4. TypeOK'
      BY <2>3, <3>3 DEF ScanMiss, TypeOK, Reasons
    <3>5. Control'
      BY <2>3 DEF ScanMiss, Control
    <3> QED
      BY <3>4, <3>5
  <2>4. ASSUME EnterNextPhase, outcome = "running", waitingForReboot, pc = "idle"
        PROVE  IInv'
    <3>1. phaseIndex' = phaseIndex + 1 /\ phaseIndex' \in 1..Len(Phases)
      BY <2>4, PlanShape DEF EnterNextPhase, Control, TypeOK
    <3>2. Len(Phases[phaseIndex']) \in Nat \ {0}
      BY <3>1, PlanShape
    <3>3. boots' \in Seq(Nat) /\ Len(boots') = Len(boots) + 1
      BY <2>4 DEF EnterNextPhase, TypeOK
    <3>4. TypeOK'
      <4>1. markerIndex' \in 1..(Len(Phases[phaseIndex']) + 1)
        BY <2>4, <3>2 DEF EnterNextPhase
      <4>2. markerBuffer' \in Seq(Byte)
        BY <2>4 DEF EnterNextPhase
      <4> QED
        BY <2>4, <3>1, <3>3, <4>1, <4>2 DEF EnterNextPhase, TypeOK, Reasons
    <3>5. Control'
      BY <2>4, <3>1, <3>2, <3>3 DEF EnterNextPhase, Control
    <3> QED
      BY <3>4, <3>5
  <2>5. ASSUME NEW why \in Reasons, Fail(why), pc = "idle",
               UNCHANGED <<forbiddenTail, markerBuffer, phaseIndex, markerIndex,
                           waitingForReboot, pc, stream, boots>>
        PROVE  IInv'
    <3>1. TypeOK'
      BY <2>5 DEF Fail, TypeOK, Outcomes
    <3>2. Control'
      BY <2>5 DEF Fail, Control
    <3> QED
      BY <3>1, <3>2
  <2>6. CASE UNCHANGED vars
    BY <2>6 DEF vars, TypeOK, Control
  <2>7. ASSUME NEW chunk \in Chunks, Feed(chunk) PROVE IInv'
    BY <2>1, <2>6, <2>7 DEF Feed
  <2>8. ASSUME NEW guest \in GuestField, NEW why \in ReasonField, HandleReset(guest, why)
        PROVE  IInv'
    BY <2>4, <2>5, <2>6, <2>8 DEF HandleReset, RejectReset, Reasons
  <2>9. ASSUME ProcessExited \/ TimedOut PROVE IInv'
    BY <2>5, <2>9 DEF ProcessExited, TimedOut, CloseRunning, Reasons
  <2> QED
    BY <2>2, <2>3, <2>6, <2>7, <2>8, <2>9 DEF Next
<1> QED
  BY <1>1, <1>2, PTL DEF Spec

\* The type invariant itself.
COROLLARY TypeInvariant == Spec => []TypeOK
BY TypeCorrect, PTL DEF IInv

\* No operation changes a verdict once it is given, or the phase and marker it was
\* given in: the early returns of feed(), handle_reset(), process_exited() and
\* timed_out(), and that feed() scans only while the verdict is open.
THEOREM VerdictFinal == Spec => VerdictIsFinal
<1>1. IInv /\ [Next]_vars =>
        [outcome # "running" => UNCHANGED <<outcome, reason, phaseIndex, markerIndex>>]_vars
  <2> SUFFICES ASSUME IInv, Next, outcome # "running"
               PROVE  UNCHANGED <<outcome, reason, phaseIndex, markerIndex>>
    BY DEF vars
  <2>1. pc # "scan"
    BY DEF IInv, Control
  <2>2. ASSUME NEW chunk \in Chunks, Feed(chunk)
        PROVE  UNCHANGED <<outcome, reason, phaseIndex, markerIndex>>
    BY <2>2 DEF Feed, vars
  <2>3. ASSUME NEW guest \in GuestField, NEW why \in ReasonField, HandleReset(guest, why)
        PROVE  UNCHANGED <<outcome, reason, phaseIndex, markerIndex>>
    BY <2>3 DEF HandleReset, vars
  <2> QED
    BY <2>1, <2>2, <2>3 DEF Next, ScanMatch, ScanMiss, ProcessExited, TimedOut, CloseRunning
<1> QED
  BY <1>1, TypeCorrect, PTL DEF Spec, VerdictIsFinal

-----------------------------------------------------------------------------
(***************************************************************************)
(* Forbidden markers: the tail kept between chunks is enough.              *)
(***************************************************************************)

\* While the verdict is open the tail is the end of the stream, and no forbidden
\* marker has occurred; none has either when the verdict was given for another
\* reason.
Scanned ==
    /\ outcome = "running" => forbiddenTail = LastBytes(stream, ForbiddenOverlap)
    /\ reason = "forbidden" <=> ForbiddenIn(stream)
    /\ reason = "forbidden" => outcome = "fail"
    /\ Len(forbiddenTail) <= ForbiddenOverlap

\* A suffix is the sequence itself, or as long as asked for and made of its end.
LEMMA SuffixShape ==
    ASSUME NEW s \in Seq(Byte), NEW n \in Nat
    PROVE  /\ n >= Len(s) => LastBytes(s, n) = s
           /\ n < Len(s) => /\ Len(LastBytes(s, n)) = n
                            /\ \A i \in 1..n : LastBytes(s, n)[i] = s[Len(s) - n + i]
<1>1. CASE n >= Len(s)
  BY <1>1 DEF LastBytes
<1>2. CASE n < Len(s)
  <2> DEFINE a == Len(s) - n + 1
             t == SubSeq(s, a, Len(s))
  <2>1. LastBytes(s, n) = t
    BY <1>2 DEF LastBytes
  <2>2. a \in 1..(Len(s) + 1) /\ Len(s) \in Nat
    BY <1>2
  <2>3. Len(t) = n /\ \A i \in 1..n : t[i] = s[a + i - 1]
    BY <2>2
  <2>4. \A i \in 1..n : a + i - 1 = Len(s) - n + i
    BY <2>2
  <2>5. \A i \in 1..n : t[i] = s[Len(s) - n + i]
    BY <2>3, <2>4
  <2>6. ~(n >= Len(s))
    BY <1>2, <2>2
  <2> HIDE DEF t, a
  <2> QED
    BY <2>1, <2>3, <2>5, <2>6
<1> QED
  BY <1>1, <1>2

\* A marker that is new in s \o c ends in c, so it starts in the last bytes of s:
\* the window finds it, and finds nothing else.
LEMMA WindowFindsAll ==
    ASSUME NEW s \in Seq(Byte), NEW c \in Seq(Byte), NEW n \in Nat,
           NEW m \in Seq(Byte), Len(m) \in Nat \ {0}, Len(m) - 1 <= n, ~Occurs(m, s)
    PROVE  Occurs(m, s \o c) <=> Occurs(m, LastBytes(s, n) \o c)
<1> DEFINE t == LastBytes(s, n)
           k == Len(s) - Len(t)
<1>1. t \in Seq(Byte)
  BY SlicesAreBytes
<1>2. /\ k \in Nat /\ Len(t) \in Nat /\ Len(s) \in Nat /\ Len(c) \in Nat /\ Len(s) = Len(t) + k
      /\ k = 0 \/ Len(t) = n
  <2>1. CASE n >= Len(s)
    BY <2>1, SuffixShape
  <2>2. CASE n < Len(s)
    BY <2>2, SuffixShape
  <2> QED
    BY <2>1, <2>2
<1>3. \A i \in 1..Len(t) : t[i] = s[k + i]
  BY SuffixShape, SMTT(40)
<1> HIDE DEF t, k
<1>4. /\ s \o c \in Seq(Byte) /\ Len(s \o c) = Len(s) + Len(c)
      /\ \A i \in 1..Len(s) : (s \o c)[i] = s[i]
      /\ \A i \in 1..Len(c) : (s \o c)[Len(s) + i] = c[i]
  OBVIOUS
<1>5. /\ t \o c \in Seq(Byte) /\ Len(t \o c) = Len(t) + Len(c)
      /\ \A i \in 1..Len(t) : (t \o c)[i] = t[i]
      /\ \A i \in 1..Len(c) : (t \o c)[Len(t) + i] = c[i]
  BY <1>1
<1> DEFINE big == s \o c
           small == t \o c
<1>6. \A i \in 1..Len(small) : small[i] = big[k + i]
  <2> SUFFICES ASSUME NEW i \in 1..Len(small) PROVE small[i] = big[k + i]
    OBVIOUS
  <2>1. CASE i <= Len(t)
    <3>1. i \in 1..Len(t) /\ k + i \in 1..Len(s)
      BY <2>1, <1>2, <1>5
    <3> QED
      BY <3>1, <1>3, <1>4, <1>5
  <2>2. CASE i > Len(t)
    <3>1. i - Len(t) \in 1..Len(c) /\ i = Len(t) + (i - Len(t))
          /\ k + i = Len(s) + (i - Len(t))
      BY <2>2, <1>2, <1>5
    <3> QED
      BY <3>1, <1>4, <1>5, SMTT(40)
  <2>3. i \in Int /\ Len(t) \in Int
    BY <1>2, <1>5
  <2>4. i <= Len(t) \/ i > Len(t)
    BY <2>3
  <2> QED
    BY <2>1, <2>2, <2>4
<1>7. Len(big) = k + Len(small) /\ Len(small) \in Nat /\ Len(big) \in Nat
  BY <1>2, <1>4, <1>5
<1>8. \A i \in 1..Len(s) : big[i] = s[i]
  BY <1>4
<1>9. Len(small) = Len(t) + Len(c)
  BY <1>5
<1> HIDE DEF big, small
<1>10. ASSUME Occurs(m, small) PROVE Occurs(m, big)
  <2>1. PICK e \in 1..Len(small) : EndsAt(m, small, e)
    BY <1>10 DEF Occurs
  <2> DEFINE d == k + e
  <2>2. /\ d \in 1..Len(big) /\ d \in Len(m)..Len(big)
        /\ e \in Len(m)..Len(small) /\ d = k + e
    BY <2>1, <1>2, <1>7 DEF EndsAt
  <2> HIDE DEF d
  <2>3. \A i \in 1..Len(m) : big[d - Len(m) + i] = m[i]
    <3> SUFFICES ASSUME NEW i \in 1..Len(m) PROVE big[d - Len(m) + i] = m[i]
      OBVIOUS
    <3>1. e - Len(m) + i \in 1..Len(small) /\ k + (e - Len(m) + i) = d - Len(m) + i
      BY <2>2, <1>2, <1>7
    <3>2. small[e - Len(m) + i] = m[i]
      BY <2>1 DEF EndsAt
    <3> QED
      BY <3>1, <3>2, <1>6
  <2>4. EndsAt(m, big, d)
    BY <2>2, <2>3 DEF EndsAt
  <2> QED
    BY <2>2, <2>4 DEF Occurs
<1>11. ASSUME Occurs(m, big) PROVE Occurs(m, small)
  <2>1. PICK e \in 1..Len(big) : EndsAt(m, big, e)
    BY <1>11 DEF Occurs
  <2>2. e \in Len(m)..Len(big) /\ \A i \in 1..Len(m) : big[e - Len(m) + i] = m[i]
    BY <2>1 DEF EndsAt
  <2>3. e > Len(s)
    <3> SUFFICES ASSUME e <= Len(s) PROVE FALSE
      BY <1>2
    <3>1. \A i \in 1..Len(m) : e - Len(m) + i \in 1..Len(s)
      BY <2>2, <1>2, <1>7
    <3>2. \A i \in 1..Len(m) : s[e - Len(m) + i] = m[i]
      BY <2>2, <3>1, <1>8
    <3>3. e \in 1..Len(s) /\ e \in Len(m)..Len(s)
      BY <2>2, <1>2, <1>7
    <3>4. EndsAt(m, s, e)
      BY <3>2, <3>3 DEF EndsAt
    <3> QED
      BY <3>3, <3>4 DEF Occurs
  <2>4. e - k \in 1..Len(small) /\ e - k \in Len(m)..Len(small)
    BY <2>1, <2>2, <2>3, <1>2, <1>7, <1>9
  <2>5. \A i \in 1..Len(m) : small[e - k - Len(m) + i] = m[i]
    <3> SUFFICES ASSUME NEW i \in 1..Len(m) PROVE small[e - k - Len(m) + i] = m[i]
      OBVIOUS
    <3>1. e - k - Len(m) + i \in 1..Len(small)
          /\ k + (e - k - Len(m) + i) = e - Len(m) + i
      BY <2>4, <1>2, <1>7
    <3> QED
      BY <3>1, <2>2, <1>6
  <2> QED
    BY <2>4, <2>5 DEF Occurs, EndsAt
<1> QED
  BY <1>10, <1>11 DEF big, small, t

\* The tail of the window is the tail of the whole stream.
LEMMA TailOfWindow ==
    ASSUME NEW s \in Seq(Byte), NEW c \in Seq(Byte), NEW n \in Nat
    PROVE  LastBytes(LastBytes(s, n) \o c, n) = LastBytes(s \o c, n)
<1> DEFINE t == LastBytes(s, n)
<1>1. t \in Seq(Byte) /\ t \o c \in Seq(Byte) /\ s \o c \in Seq(Byte)
  BY SlicesAreBytes
<1>2. CASE n >= Len(s)
  BY <1>2 DEF LastBytes
<1>3. CASE n < Len(s)
  <2>1. Len(t) = n /\ \A i \in 1..n : t[i] = s[Len(s) - n + i]
    BY <1>3, SuffixShape
  <2> HIDE DEF t
  <2> DEFINE tc == t \o c
             sc == s \o c
  <2>2. /\ tc \in Seq(Byte) /\ Len(tc) = n + Len(c)
        /\ \A i \in 1..n : tc[i] = t[i]
        /\ \A i \in 1..Len(c) : tc[n + i] = c[i]
    <3>1. /\ tc \in Seq(Byte) /\ Len(tc) = Len(t) + Len(c)
          /\ \A i \in 1..Len(t) : tc[i] = t[i]
          /\ \A i \in 1..Len(c) : tc[Len(t) + i] = c[i]
      BY <1>1
    <3> HIDE DEF tc
    <3> QED
      BY <2>1, <3>1
  <2>3. /\ sc \in Seq(Byte) /\ Len(sc) = Len(s) + Len(c)
        /\ \A i \in 1..Len(s) : sc[i] = s[i]
        /\ \A i \in 1..Len(c) : sc[Len(s) + i] = c[i]
    OBVIOUS
  <2> HIDE DEF tc, sc
  <2>4. Len(c) \in Nat /\ Len(s) \in Nat
    OBVIOUS
  <2>5. \A i \in 1..n : tc[Len(c) + i] = sc[Len(s) + Len(c) - n + i]
    <3> SUFFICES ASSUME NEW i \in 1..n PROVE tc[Len(c) + i] = sc[Len(s) + Len(c) - n + i]
      OBVIOUS
    <3>1. CASE Len(c) + i <= n
      <4> DEFINE x == Len(c) + i
                 y == Len(s) + Len(c) - n + i
      <4>1. x \in 1..n /\ y \in 1..Len(s) /\ y = Len(s) - n + x
        BY <1>3, <2>4, <3>1
      <4> HIDE DEF x, y
      <4>2. tc[x] = sc[y]
        BY <4>1, <2>1, <2>2, <2>3
      <4> QED
        BY <4>2 DEF x, y
    <3>2. CASE Len(c) + i > n
      <4> DEFINE z == Len(c) + i - n
      <4>1. z \in 1..Len(c) /\ n + z = Len(c) + i /\ Len(s) + z = Len(s) + Len(c) - n + i
        BY <1>3, <2>4, <3>2
      <4> HIDE DEF z
      <4>2. tc[n + z] = sc[Len(s) + z]
        BY <4>1, <2>2, <2>3
      <4> QED
        BY <4>1, <4>2
    <3> QED
      BY <3>1, <3>2, <2>4
  <2>6. LastBytes(tc, n) \in Seq(Byte) /\ LastBytes(sc, n) \in Seq(Byte)
    BY <2>2, <2>3, SlicesAreBytes
  <2>7. CASE Len(c) = 0
    <3>1. n >= Len(tc)
      BY <2>2, <2>7
    <3>2. LastBytes(tc, n) = tc /\ Len(tc) = n
      BY <2>2, <2>7, <3>1, SuffixShape
    <3>3. Len(LastBytes(sc, n)) = n /\ \A i \in 1..n : LastBytes(sc, n)[i] = sc[Len(s) + Len(c) - n + i]
      BY <1>3, <2>3, <2>4, <2>7, SuffixShape, SMTT(40)
    <3>4. \A i \in 1..n : tc[i] = LastBytes(sc, n)[i]
      BY <2>5, <2>7, <3>3
    <3>5. tc = LastBytes(sc, n)
      BY <2>2, <2>6, <3>2, <3>3, <3>4
    <3> QED
      BY <3>2, <3>5 DEF tc, sc, t
  <2>8. CASE Len(c) > 0
    <3> DEFINE x == LastBytes(tc, n)
               y == LastBytes(sc, n)
    <3>1. n < Len(tc) /\ n < Len(sc)
      BY <1>3, <2>2, <2>3, <2>4, <2>8
    <3>2. Len(x) = n /\ \A i \in 1..n : x[i] = tc[Len(tc) - n + i]
      BY <2>2, <3>1, SuffixShape
    <3>3. Len(y) = n /\ \A i \in 1..n : y[i] = sc[Len(sc) - n + i]
      BY <2>3, <3>1, SuffixShape
    <3>4. /\ \A i \in 1..n : Len(tc) - n + i = Len(c) + i
          /\ \A i \in 1..n : Len(sc) - n + i = Len(s) + Len(c) - n + i
      BY <2>2, <2>3, <2>4
    <3> HIDE DEF x, y
    <3>5. ASSUME NEW i \in 1..n PROVE x[i] = y[i]
      <4>1. x[i] = tc[Len(c) + i]
        BY <3>2, <3>4
      <4>2. y[i] = sc[Len(s) + Len(c) - n + i]
        BY <3>3, <3>4
      <4> QED
        BY <2>5, <4>1, <4>2
    <3>6. x \in Seq(Byte) /\ y \in Seq(Byte)
      BY <2>6 DEF x, y
    <3>7. x = y
      BY <3>2, <3>3, <3>5, <3>6
    <3> QED
      BY <3>7 DEF x, y, tc, sc, t
  <2> QED
    BY <2>4, <2>7, <2>8
<1> QED
  BY <1>2, <1>3

\* Every step keeps the tail and the verdict in agreement with the stream.
LEMMA ScannedInvariant == Spec => []Scanned
<1>1. Init => Scanned
  <2> SUFFICES ASSUME Init PROVE Scanned
    OBVIOUS
  <2>1. stream = <<>> /\ forbiddenTail = <<>> /\ Len(stream) = 0
    BY DEF Init
  <2>2. LastBytes(stream, ForbiddenOverlap) = stream
    BY <2>1, OverlapSuffices DEF LastBytes
  <2>3. ~ForbiddenIn(stream)
    BY <2>1 DEF ForbiddenIn, Occurs
  <2> QED
    BY <2>1, <2>2, <2>3, OverlapSuffices DEF Init, Scanned
<1>2. IInv /\ Scanned /\ [Next]_vars => Scanned'
  <2> SUFFICES ASSUME IInv, Scanned, [Next]_vars PROVE Scanned'
    OBVIOUS
  <2>1. ASSUME NEW chunk \in Chunks, Receive(chunk), outcome = "running"
        PROVE  Scanned'
    <3> DEFINE window == forbiddenTail \o chunk
    <3>1. chunk \in Seq(Byte) /\ stream \in Seq(Byte) /\ ForbiddenOverlap \in Nat
      BY PlanAssumption, OverlapSuffices DEF Marker, IInv, TypeOK
    <3>2. stream' = stream \o chunk /\ stream \o chunk \in Seq(Byte)
      BY <2>1, <3>1 DEF Receive
    <3>3. forbiddenTail = LastBytes(stream, ForbiddenOverlap) /\ ~ForbiddenIn(stream)
      BY <2>1 DEF Scanned
    <3>4. ForbiddenIn(window) <=> ForbiddenIn(stream')
      <4>1. ASSUME NEW i \in DOMAIN Forbidden
            PROVE  Occurs(Forbidden[i], window) <=> Occurs(Forbidden[i], stream')
        <5>1. ~Occurs(Forbidden[i], stream)
          BY <3>3 DEF ForbiddenIn
        <5> QED
          BY <5>1, <3>1, <3>2, <3>3, OverlapSuffices, WindowFindsAll
      <4> QED
        BY <4>1 DEF ForbiddenIn
    <3>5. LastBytes(window, ForbiddenOverlap) = LastBytes(stream', ForbiddenOverlap)
      BY <3>1, <3>2, <3>3, TailOfWindow
    <3>6. Len(LastBytes(stream', ForbiddenOverlap)) <= ForbiddenOverlap
      <4> DEFINE s == stream'
      <4>1. s \in Seq(Byte)
        BY <3>2
      <4> HIDE DEF s
      <4>2. Len(LastBytes(s, ForbiddenOverlap)) <= ForbiddenOverlap
        BY <3>1, <4>1, SuffixShape, SMTT(40)
      <4> QED
        BY <4>2 DEF s
    <3> HIDE DEF window
    <3>7. CASE ForbiddenIn(window)
      <4>1. outcome' = "fail" /\ reason' = "forbidden" /\ forbiddenTail' = forbiddenTail
        BY <2>1, <3>7 DEF Receive, Fail, window
      <4> QED
        BY <3>4, <3>7, <4>1 DEF Scanned, ForbiddenIn
    <3>8. CASE ~ForbiddenIn(window)
      <4>1. /\ outcome' = outcome /\ reason' = reason
            /\ forbiddenTail' = LastBytes(window, ForbiddenOverlap)
        BY <2>1, <3>8 DEF Receive, window
      <4> QED
        BY <2>1, <3>4, <3>5, <3>6, <3>8, <4>1 DEF Scanned, ForbiddenIn
    <3> QED
      BY <3>7, <3>8
  <2>2. ASSUME UNCHANGED <<stream, forbiddenTail>>, outcome = "running",
               reason' # "forbidden"
        PROVE  Scanned'
    BY <2>2 DEF Scanned, ForbiddenIn
  <2>3. ASSUME UNCHANGED <<stream, forbiddenTail, outcome, reason>> PROVE Scanned'
    BY <2>3 DEF Scanned, ForbiddenIn
  <2>4. ASSUME ScanMatch \/ ScanMiss PROVE Scanned'
    <3>1. outcome = "running" /\ reason # "forbidden"
      BY <2>4 DEF IInv, Control, Scanned, ScanMatch, ScanMiss
    <3>2. UNCHANGED <<stream, forbiddenTail>> /\ reason' # "forbidden"
      BY <2>4, <3>1 DEF ScanMatch, ScanMiss
    <3> QED
      BY <2>2, <3>1, <3>2
  <2>5. ASSUME NEW guest \in GuestField, NEW why \in ReasonField, HandleReset(guest, why)
        PROVE  Scanned'
    BY <2>2, <2>3, <2>5 DEF HandleReset, RejectReset, EnterNextPhase, Fail, vars
  <2>6. ASSUME ProcessExited \/ TimedOut PROVE Scanned'
    BY <2>2, <2>6 DEF ProcessExited, TimedOut, CloseRunning, Fail
  <2>7. ASSUME NEW chunk \in Chunks, Feed(chunk) PROVE Scanned'
    BY <2>1, <2>3, <2>7 DEF Feed, vars
  <2> QED
    BY <2>3, <2>4, <2>5, <2>6, <2>7 DEF Next, vars
<1> QED
  BY <1>1, <1>2, TypeCorrect, PTL DEF Spec

\* However the output is cut into chunks and whatever the markers are, the verdict
\* "forbidden" is given exactly when a forbidden marker has occurred in what was fed.
THEOREM ForbiddenDetected == Spec => []ForbiddenExactly
<1>1. Scanned => ForbiddenExactly
  BY DEF Scanned, ForbiddenExactly
<1> QED
  BY <1>1, ScannedInvariant, PTL

\* What the ordered matcher keeps between calls.
Kept ==
    /\ pc = "idle" /\ outcome = "running" /\ ~waitingForReboot =>
           Len(markerBuffer) < Len(CurrentMarker)
    /\ pc = "idle" /\ (outcome = "pass" \/ waitingForReboot) => markerBuffer = <<>>

\* Every step keeps it so.
LEMMA KeptInvariant == Spec => []Kept
<1>1. Init => Kept
  <2> SUFFICES ASSUME Init PROVE Kept
    OBVIOUS
  <2>1. CurrentMarker = Phases[1][1] /\ Len(Phases[1][1]) \in Nat \ {0}
    BY PlanShape DEF Init, CurrentMarker
  <2>2. markerBuffer = <<>> /\ Len(markerBuffer) = 0
    BY DEF Init
  <2> QED
    BY <2>1, <2>2 DEF Kept
<1>2. IInv /\ Kept /\ [Next]_vars => Kept'
  <2> SUFFICES ASSUME IInv, Kept, [Next]_vars PROVE Kept'
    OBVIOUS
  <2>1. ASSUME NEW chunk \in Chunks, Feed(chunk) PROVE Kept'
    BY <2>1 DEF Feed, Receive, Fail, Kept, CurrentMarker, vars
  <2>2. ASSUME ScanMatch PROVE Kept'
    <3>1. outcome = "running"
      BY <2>2 DEF ScanMatch, IInv, Control
    <3> QED
      BY <2>2, <3>1 DEF ScanMatch, Kept
  <2>3. ASSUME ScanMiss PROVE Kept'
    <3> DEFINE n == Len(CurrentMarker) - 1
    <3>1. outcome = "running" /\ ~waitingForReboot /\ CurrentMarker' = CurrentMarker
      BY <2>3 DEF ScanMiss, IInv, Control, CurrentMarker
    <3>2. markerIndex \in 1..Len(Phases[phaseIndex])
      BY <2>3, PlanShape DEF ScanMiss, IInv, TypeOK, Control
    <3>3. Len(CurrentMarker) \in Nat \ {0}
      BY <3>2, PlanShape DEF CurrentMarker, IInv, TypeOK
    <3>4. n \in Nat /\ n < Len(CurrentMarker)
      BY <3>3
    <3>5. markerBuffer' = LastBytes(markerBuffer, n) /\ markerBuffer \in Seq(Byte)
      BY <2>3 DEF ScanMiss, IInv, TypeOK
    <3> HIDE DEF n
    <3>6. Len(LastBytes(markerBuffer, n)) <= n /\ Len(LastBytes(markerBuffer, n)) \in Nat
      BY <3>4, <3>5, SuffixShape
    <3>7. Len(markerBuffer') < Len(CurrentMarker')
      BY <3>1, <3>3, <3>4, <3>5, <3>6
    <3>8. outcome' = "running" /\ ~waitingForReboot'
      BY <2>3, <3>1 DEF ScanMiss
    <3> QED
      BY <3>7, <3>8 DEF Kept
  <2>4. ASSUME EnterNextPhase, outcome = "running", waitingForReboot PROVE Kept'
    <3>1. phaseIndex' \in 1..Len(Phases) /\ markerIndex' = 1
      BY <2>4, PlanShape DEF EnterNextPhase, IInv, Control, TypeOK
    <3>2. Len(CurrentMarker') \in Nat \ {0}
      <4>1. 1 \in 1..Len(Phases[phaseIndex'])
        BY <3>1, PlanShape
      <4> QED
        BY <3>1, <4>1, PlanShape DEF CurrentMarker
    <3>3. markerBuffer' = <<>> /\ Len(markerBuffer') = 0
      BY <2>4 DEF EnterNextPhase
    <3> QED
      BY <3>2, <3>3 DEF Kept
  <2>5. ASSUME NEW why, Fail(why),
               UNCHANGED <<forbiddenTail, markerBuffer, phaseIndex, markerIndex,
                           waitingForReboot, pc, stream, boots>>
        PROVE  Kept'
    BY <2>5 DEF Fail, Kept
  <2>6. CASE UNCHANGED vars
    BY <2>6 DEF vars, Kept, CurrentMarker
  <2>7. ASSUME NEW guest \in GuestField, NEW why \in ReasonField, HandleReset(guest, why)
        PROVE  Kept'
    BY <2>4, <2>5, <2>6, <2>7 DEF HandleReset, RejectReset
  <2>8. ASSUME ProcessExited \/ TimedOut PROVE Kept'
    BY <2>5, <2>8 DEF ProcessExited, TimedOut, CloseRunning
  <2> QED
    BY <2>1, <2>2, <2>3, <2>6, <2>7, <2>8 DEF Next
<1> QED
  BY <1>1, <1>2, TypeCorrect, PTL DEF Spec

\* The machine's memory is bounded by its markers, not by the guest's output: less
\* than one marker is kept between calls of feed(), for ordered and for forbidden
\* markers alike.
THEOREM MemoryBounded == Spec => []RetainedIsBounded
<1>1. Kept /\ Scanned => RetainedIsBounded
  BY DEF Kept, Scanned, RetainedIsBounded
<1> QED
  BY <1>1, KeptInvariant, ScannedInvariant, PTL

-----------------------------------------------------------------------------
(***************************************************************************)
(* Ordered markers: the machine's position is that of the greedy match.    *)
(***************************************************************************)

\* e gives the ends of an ordered match of the first n markers of ms in s, behind byte from.
Chain(ms, n, s, from, e) ==
    /\ e[0] = from
    /\ \A i \in 1..n : EndsAt(ms[i], s, e[i]) /\ e[i] - Len(ms[i]) >= e[i - 1]

\* The place in the stream where phase p ends.
PhaseEnd(p) == IF p < Len(boots) THEN boots[p + 1] ELSE Len(stream)

\* The markers of phase p are all in s between bytes from and to.
MetAt(p, s, from, to) ==
    \E e \in [0..Len(Phases[p]) -> from..to] : Chain(Phases[p], Len(Phases[p]), s, from, e)

Met(p) == MetAt(p, stream, boots[p], PhaseEnd(p))

\* A phase that was left, or that is complete, is met; a completed phase has no marker left.
PhasesMet ==
    /\ \A p \in 1..Len(boots) : boots[p] <= PhaseEnd(p) /\ boots[p] <= Len(stream)
    /\ \A p \in 1..phaseIndex : p < phaseIndex \/ waitingForReboot \/ outcome = "pass" => Met(p)
    /\ waitingForReboot => markerIndex = Len(Phases[phaseIndex]) + 1

\* The buffer buf is the end of s, and does not reach back before byte from.
IsEnd(buf, s, from) ==
    /\ Len(buf) <= Len(s) - from
    /\ \A i \in 1..Len(buf) : buf[i] = s[Len(s) - Len(buf) + i]

\* e is the earliest match of the first n markers; the next marker does not begin
\* between its end and the buffer; and the buffer begins there, or holds all but one
\* byte of the next marker.
GreedyAt(ms, n, s, from, buf, e) ==
    /\ Chain(ms, n, s, from, e)
    /\ \A d \in [0..n -> from..Len(s)] : Chain(ms, n, s, from, d) => d[n] >= e[n]
    /\ e[n] <= Len(s) - Len(buf)
    /\ e[n] = Len(s) - Len(buf) \/ Len(buf) >= Len(ms[n + 1]) - 1
    /\ \A x \in 0..Len(s) :
           EndsAt(ms[n + 1], s, x) /\ x - Len(ms[n + 1]) >= e[n] =>
               x - Len(ms[n + 1]) >= Len(s) - Len(buf)

GreedyFor(ms, n, s, from, buf) ==
    /\ IsEnd(buf, s, from)
    /\ \E e \in [0..n -> from..Len(s)] : GreedyAt(ms, n, s, from, buf, e)

\* That is where the machine is while it looks for a marker.
Greedy ==
    outcome = "running" /\ ~waitingForReboot =>
        GreedyFor(Phases[phaseIndex], markerIndex - 1, stream, boots[phaseIndex], markerBuffer)

\* What occurs in a window of s occurs in s, and the other way round.
LEMMA InWindow ==
    ASSUME NEW t \in Seq(Byte), NEW s \in Seq(Byte), NEW k \in Nat, k + Len(t) <= Len(s),
           \A i \in 1..Len(t) : t[i] = s[k + i],
           NEW m \in Seq(Byte), Len(m) \in Nat \ {0}, NEW x \in Len(m)..Len(t)
    PROVE  EndsAt(m, t, x) <=> EndsAt(m, s, k + x)
<1>1. Len(t) \in Nat /\ Len(s) \in Nat /\ x \in Nat /\ k + x \in Len(m)..Len(s)
  OBVIOUS
<1>2. ASSUME NEW i \in 1..Len(m) PROVE t[x - Len(m) + i] = s[k + x - Len(m) + i]
  <2>1. x - Len(m) + i \in 1..Len(t) /\ k + (x - Len(m) + i) = k + x - Len(m) + i
    BY <1>1, SMTT(40)
  <2> QED
    BY <2>1
<1>3. x \in Len(m)..Len(t) /\ k + x \in Len(m)..Len(s)
  BY <1>1
<1>4. EndsAt(m, t, x) <=> \A i \in 1..Len(m) : t[x - Len(m) + i] = m[i]
  BY <1>3, Zenon DEF EndsAt
<1>5. EndsAt(m, s, k + x) <=> \A i \in 1..Len(m) : s[k + x - Len(m) + i] = m[i]
  <2> DEFINE y == k + x
  <2>1. y \in Len(m)..Len(s)
    BY <1>3
  <2> HIDE DEF y
  <2>2. EndsAt(m, s, y) <=> \A i \in 1..Len(m) : s[y - Len(m) + i] = m[i]
    BY <2>1, Zenon DEF EndsAt
  <2> QED
    BY <2>2 DEF y
<1> QED
  BY <1>2, <1>4, <1>5, Zenon

\* The stream before a chunk is a window of the stream with it.
LEMMA Extended ==
    ASSUME NEW s \in Seq(Byte), NEW c \in Seq(Byte)
    PROVE  /\ s \o c \in Seq(Byte) /\ Len(s \o c) = Len(s) + Len(c)
           /\ Len(s) \in Nat /\ Len(c) \in Nat
           /\ \A i \in 1..Len(s) : (s \o c)[i] = s[i]
           /\ \A i \in 1..Len(c) : (s \o c)[Len(s) + i] = c[i]
  OBVIOUS

\* Up to the end of the old stream the same markers end at the same places.
LEMMA SameEnds ==
    ASSUME NEW s \in Seq(Byte), NEW c \in Seq(Byte), NEW m \in Seq(Byte), Len(m) \in Nat \ {0},
           NEW x \in 0..Len(s)
    PROVE  EndsAt(m, s, x) <=> EndsAt(m, s \o c, x)
<1> DEFINE sc == s \o c
<1>1. /\ sc \in Seq(Byte) /\ Len(sc) = Len(s) + Len(c) /\ Len(s) \in Nat /\ Len(c) \in Nat
      /\ \A i \in 1..Len(s) : sc[i] = s[i]
  BY Extended
<1> HIDE DEF sc
<1>2. CASE x < Len(m)
  BY <1>1, <1>2 DEF EndsAt, sc
<1>3. CASE x >= Len(m)
  <2>1. x \in Len(m)..Len(s) /\ 0 + x = x /\ 0 + Len(s) <= Len(sc)
    BY <1>1, <1>3
  <2>2. \A i \in 1..Len(s) : s[i] = sc[0 + i]
    BY <1>1
  <2>3. EndsAt(m, s, x) <=> EndsAt(m, sc, 0 + x)
    BY <1>1, <2>1, <2>2, InWindow
  <2> QED
    BY <2>1, <2>3 DEF sc
<1> QED
  BY <1>1, <1>2, <1>3

\* The markers of a list.
Markers(ms, n) == \A i \in 1..n : ms[i] \in Seq(Byte) /\ Len(ms[i]) \in Nat \ {0}

\* The markers of a phase have bytes.
LEMMA PhaseMarkers ==
    ASSUME NEW p \in 1..Len(Phases), NEW n \in 0..Len(Phases[p])
    PROVE  Markers(Phases[p], n)
<1>1. Len(Phases[p]) \in Nat
  BY PlanShape
<1>2. \A i \in 1..n : i \in 1..Len(Phases[p])
  BY <1>1
<1> QED
  BY <1>2, PlanShape DEF Markers

\* An ordered match in a part of s is a chain in s, moved.
LEMMA EmbedsIsChain ==
    ASSUME NEW s \in Seq(Byte), NEW b \in Nat, NEW c \in Nat, b <= c, c <= Len(s),
           NEW ms, NEW n \in Nat, Markers(ms, n)
    PROVE  Embeds(ms, n, SubSeq(s, b + 1, c)) <=> \E e \in [0..n -> b..c] : Chain(ms, n, s, b, e)
<1> DEFINE t == SubSeq(s, b + 1, c)
<1>1. t \in Seq(Byte) /\ Len(t) = c - b /\ \A i \in 1..Len(t) : t[i] = s[b + i]
  <2>1. b + 1 \in 1..Len(s) + 1 /\ c \in b..Len(s) /\ Len(s) \in Nat
    OBVIOUS
  <2>2. t \in Seq(Byte)
    BY <2>1
  <2>3. Len(t) = c - b
    BY <2>1
  <2>4. \A i \in 1..(c - b) : t[i] = s[b + 1 + i - 1]
    BY <2>1
  <2>5. \A i \in 1..(c - b) : b + 1 + i - 1 = b + i
    OBVIOUS
  <2> HIDE DEF t
  <2> QED
    BY <2>2, <2>3, <2>4, <2>5
<1> HIDE DEF t
<1>2. b + Len(t) <= Len(s) /\ Len(t) \in Nat /\ Len(s) \in Nat
  BY <1>1
<1>3. ASSUME NEW i \in 1..n, NEW x \in Len(ms[i])..Len(t)
      PROVE  EndsAt(ms[i], t, x) <=> EndsAt(ms[i], s, b + x)
  BY <1>1, <1>2, InWindow DEF Markers
<1>4. ASSUME NEW f \in [0..n -> 0..Len(t)], f[0] = 0,
             \A i \in 1..n : EndsAt(ms[i], t, f[i]) /\ f[i] - Len(ms[i]) >= f[i - 1]
      PROVE  \E e \in [0..n -> b..c] : Chain(ms, n, s, b, e)
  <2> DEFINE e == [i \in 0..n |-> b + f[i]]
  <2>1. \A i \in 0..n : f[i] \in Nat /\ f[i] <= c - b /\ e[i] = b + f[i]
    BY <1>1, <1>2
  <2>2. e \in [0..n -> b..c]
    BY <2>1
  <2>3. e[0] = b
    BY <1>4, <2>1
  <2> HIDE DEF e
  <2>4. ASSUME NEW i \in 1..n
        PROVE  EndsAt(ms[i], s, e[i]) /\ e[i] - Len(ms[i]) >= e[i - 1]
    <3>1. i \in 0..n /\ i - 1 \in 0..n /\ Len(ms[i]) \in Nat \ {0}
      BY DEF Markers
    <3>2. e[i] = b + f[i] /\ e[i - 1] = b + f[i - 1] /\ f[i] \in Nat /\ f[i - 1] \in Nat
      BY <2>1, <3>1
    <3>3. EndsAt(ms[i], t, f[i]) /\ f[i] - Len(ms[i]) >= f[i - 1]
      BY <1>4
    <3>4. f[i] \in Len(ms[i])..Len(t)
      BY <3>3 DEF EndsAt
    <3> QED
      BY <1>3, <3>1, <3>2, <3>3, <3>4, SMTT(40)
  <2> QED
    BY <2>2, <2>3, <2>4 DEF Chain
<1>5. ASSUME NEW e \in [0..n -> b..c], Chain(ms, n, s, b, e)
      PROVE  \E f \in [0..n -> 0..Len(t)] :
                 /\ f[0] = 0
                 /\ \A i \in 1..n : EndsAt(ms[i], t, f[i]) /\ f[i] - Len(ms[i]) >= f[i - 1]
  <2> DEFINE f == [i \in 0..n |-> e[i] - b]
  <2>1. \A i \in 0..n : e[i] \in Nat /\ b <= e[i] /\ e[i] <= c /\ f[i] = e[i] - b
    OBVIOUS
  <2>2. f \in [0..n -> 0..Len(t)]
    BY <1>1, <1>2, <2>1, SMTT(40)
  <2>3. f[0] = 0
    BY <1>5, <2>1 DEF Chain
  <2> HIDE DEF f
  <2>4. ASSUME NEW i \in 1..n
        PROVE  EndsAt(ms[i], t, f[i]) /\ f[i] - Len(ms[i]) >= f[i - 1]
    <3>1. i \in 0..n /\ i - 1 \in 0..n /\ Len(ms[i]) \in Nat \ {0}
      BY DEF Markers
    <3>2. /\ f[i] = e[i] - b /\ f[i - 1] = e[i - 1] - b /\ b + f[i] = e[i]
          /\ e[i] \in Nat /\ e[i - 1] \in Nat /\ b <= e[i - 1] /\ e[i] <= c
      BY <2>1, <3>1, SMTT(40)
    <3>3. EndsAt(ms[i], s, e[i]) /\ e[i] - Len(ms[i]) >= e[i - 1]
      BY <1>5 DEF Chain
    <3>4. f[i] \in Int /\ f[i] - Len(ms[i]) >= f[i - 1] /\ Len(ms[i]) <= f[i]
      BY <3>1, <3>2, <3>3, SMTT(40)
    <3>5. f[i] <= Len(t)
      BY <1>1, <3>2, SMTT(40)
    <3> QED
      BY <1>2, <1>3, <3>1, <3>2, <3>3, <3>4, <3>5, SMTT(40)
  <2> QED
    BY <2>2, <2>3, <2>4
<1> QED
  BY <1>4, <1>5 DEF Embeds, t

\* A chain stays one when the stream grows.
LEMMA ChainKept ==
    ASSUME NEW s \in Seq(Byte), NEW c \in Seq(Byte), NEW b, NEW ms, NEW n \in Nat, Markers(ms, n),
           NEW e, \A i \in 1..n : e[i] \in 0..Len(s)
    PROVE  Chain(ms, n, s, b, e) <=> Chain(ms, n, s \o c, b, e)
<1>1. ASSUME NEW i \in 1..n
      PROVE  EndsAt(ms[i], s, e[i]) <=> EndsAt(ms[i], s \o c, e[i])
  BY SameEnds DEF Markers
<1> QED
  BY <1>1 DEF Chain

\* In a chain whose last end is at most z every end is: a later end is never earlier.
LEMMA ChainAscends ==
    ASSUME NEW s, NEW b \in Nat, NEW ms, NEW n \in Nat, Markers(ms, n), NEW e \in [0..n -> Nat],
           Chain(ms, n, s, b, e), NEW z \in Nat, e[n] <= z
    PROVE  \A i \in 0..n : e[i] <= z
<1> DEFINE Late == {j \in 0..n : ~(e[n - j] <= z)}
<1> SUFFICES ASSUME Late # {} PROVE FALSE
  <2> SUFFICES ASSUME NEW i \in 0..n PROVE e[i] <= z
    OBVIOUS
  <2>1. n - i \in 0..n /\ n - (n - i) = i
    OBVIOUS
  <2>2. n - i \notin Late
    OBVIOUS
  <2> QED
    BY <2>1, <2>2
<1>1. PICK j \in Late : \A k \in Late : j <= k
  <2>1. Late \subseteq Nat
    OBVIOUS
  <2> HIDE DEF Late
  <2> QED
    BY <2>1, LeastElement
<1>2. j \in 0..n /\ ~(e[n - j] <= z)
  BY <1>1
<1>3. j # 0
  BY <1>2
<1>4. j - 1 \in 0..n /\ j - 1 \notin Late
  <2> HIDE DEF Late
  <2> QED
    BY <1>1, <1>2, <1>3
<1>5. e[n - (j - 1)] <= z
  BY <1>4
<1>6. n - (j - 1) \in 1..n /\ (n - (j - 1)) - 1 = n - j /\ n - j \in 0..n
  BY <1>2, <1>3
<1> DEFINE i == n - (j - 1)
<1>7. i \in 1..n /\ i - 1 = n - j /\ e[i] <= z
  BY <1>5, <1>6
<1> HIDE DEF i
<1>8. e[i] - Len(ms[i]) >= e[i - 1] /\ Len(ms[i]) \in Nat \ {0}
  BY <1>7 DEF Chain, Markers
<1>9. e[i] \in Nat /\ e[i - 1] \in Nat
  BY <1>6, <1>7
<1> QED
  BY <1>2, <1>7, <1>8, <1>9, SMTT(40)

\* A chain between bytes b and c of s.
ChainIn(ms, n, s, b, c, e) == e \in [0..n -> b..c] /\ Chain(ms, n, s, b, e)

\* There is one that ends at z.
ChainTo(ms, n, s, b, c, z) == \E e : ChainIn(ms, n, s, b, c, e) /\ e[n] = z

\* The first markers of a chain are a chain.
LEMMA ChainPrefix ==
    ASSUME NEW s, NEW b, NEW c, NEW ms, NEW n \in Nat, NEW k \in 0..n,
           NEW e, ChainIn(ms, n, s, b, c, e)
    PROVE  ChainTo(ms, k, s, b, c, e[k])
<1> USE DEF ChainIn, ChainTo
<1> DEFINE d == [i \in 0..k |-> e[i]]
<1>1. d \in [0..k -> b..c] /\ \A i \in 0..k : d[i] = e[i]
  OBVIOUS
<1> HIDE DEF d
<1>2. \A i \in 1..k : i \in 0..k /\ i - 1 \in 0..k /\ i \in 1..n
  OBVIOUS
<1>3. Chain(ms, k, s, b, d)
  BY <1>1, <1>2 DEF Chain
<1> QED
  BY <1>1, <1>3

\* A marker behind a chain makes it longer.
LEMMA ChainLonger ==
    ASSUME NEW s, NEW b \in Nat, NEW c \in Nat, NEW ms, NEW n \in Nat,
           NEW e, ChainIn(ms, n, s, b, c, e),
           NEW x \in b..c, EndsAt(ms[n + 1], s, x), x - Len(ms[n + 1]) >= e[n]
    PROVE  ChainTo(ms, n + 1, s, b, c, x)
<1> USE DEF ChainIn, ChainTo
<1> DEFINE d == [i \in 0..n + 1 |-> IF i = n + 1 THEN x ELSE e[i]]
<1>1. d \in [0..n + 1 -> b..c]
  <2> SUFFICES ASSUME NEW i \in 0..n + 1 PROVE (IF i = n + 1 THEN x ELSE e[i]) \in b..c
    OBVIOUS
  <2>1. i = n + 1 \/ i \in 0..n
    OBVIOUS
  <2> QED
    BY <2>1
<1>2. d[n + 1] = x /\ \A i \in 0..n : d[i] = e[i]
  OBVIOUS
<1> HIDE DEF d
<1>3. d[0] = b
  BY <1>2 DEF Chain
<1>4. ASSUME NEW i \in 1..n + 1 PROVE EndsAt(ms[i], s, d[i]) /\ d[i] - Len(ms[i]) >= d[i - 1]
  <2>1. CASE i = n + 1
    <3>1. i - 1 = n /\ n \in 0..n
      BY <2>1
    <3> QED
      BY <1>2, <2>1, <3>1
  <2>2. CASE i # n + 1
    <3>1. i \in 1..n /\ i \in 0..n /\ i - 1 \in 0..n
      BY <2>2
    <3> QED
      BY <1>2, <3>1 DEF Chain
  <2> QED
    BY <2>1, <2>2
<1> QED
  BY <1>1, <1>2, <1>3, <1>4 DEF Chain

\* What ends in the buffer ends in the stream, at the same distance from its end.
LEMMA InBuffer ==
    ASSUME NEW s \in Seq(Byte), NEW buf \in Seq(Byte), NEW b \in Nat, IsEnd(buf, s, b),
           NEW m \in Seq(Byte), Len(m) \in Nat \ {0}, NEW x \in Len(m)..Len(buf)
    PROVE  EndsAt(m, buf, x) <=> EndsAt(m, s, Len(s) - Len(buf) + x)
<1> DEFINE k == Len(s) - Len(buf)
<1>1. k \in Nat /\ k + Len(buf) <= Len(s)
  BY DEF IsEnd
<1>2. \A i \in 1..Len(buf) : buf[i] = s[k + i]
  BY DEF IsEnd
<1> HIDE DEF k
<1>3. EndsAt(m, buf, x) <=> EndsAt(m, s, k + x)
  BY <1>1, <1>2, InWindow
<1> QED
  BY <1>3 DEF k

\* A chunk that goes to the stream and to the buffer leaves the match where it is.
LEMMA GreedyFeed ==
    ASSUME NEW s \in Seq(Byte), NEW c \in Seq(Byte), NEW buf \in Seq(Byte),
           NEW b \in Nat, b <= Len(s),
           NEW ms, NEW n \in Nat, Markers(ms, n + 1), GreedyFor(ms, n, s, b, buf)
    PROVE  GreedyFor(ms, n, s \o c, b, buf \o c)
<1> IsEnd(buf, s, b)
  BY DEF GreedyFor
<1> PICK e \in [0..n -> b..Len(s)] : GreedyAt(ms, n, s, b, buf, e)
  BY DEF GreedyFor
<1> DEFINE sc == s \o c
           bc == buf \o c
           start == Len(s) - Len(buf)
           m == ms[n + 1]
<1>1. /\ sc \in Seq(Byte) /\ Len(sc) = Len(s) + Len(c) /\ Len(s) \in Nat /\ Len(c) \in Nat
      /\ \A i \in 1..Len(s) : sc[i] = s[i]
      /\ \A i \in 1..Len(c) : sc[Len(s) + i] = c[i]
  BY Extended
<1>2. /\ bc \in Seq(Byte) /\ Len(bc) = Len(buf) + Len(c) /\ Len(buf) \in Nat
      /\ \A i \in 1..Len(buf) : bc[i] = buf[i]
      /\ \A i \in 1..Len(c) : bc[Len(buf) + i] = c[i]
  BY Extended
<1>3. /\ Len(buf) <= Len(s) - b /\ start \in Nat /\ b <= start
      /\ \A i \in 1..Len(buf) : buf[i] = s[start + i]
  BY <1>1, <1>2, SMTT(40) DEF IsEnd
<1>4. m \in Seq(Byte) /\ Len(m) \in Nat \ {0} /\ Markers(ms, n)
  BY DEF Markers
<1>5. \A x \in 0..Len(s) : EndsAt(m, s, x) <=> EndsAt(m, sc, x)
  <2> HIDE DEF m
  <2> QED
    BY <1>4, SameEnds
<1>6. \A d : (\A i \in 1..n : d[i] \in 0..Len(s)) => (Chain(ms, n, s, b, d) <=> Chain(ms, n, sc, b, d))
  BY <1>4, ChainKept
<1>7. Len(sc) - Len(bc) = start
  BY <1>1, <1>2
<1>8. /\ Chain(ms, n, s, b, e)
      /\ \A d \in [0..n -> b..Len(s)] : Chain(ms, n, s, b, d) => d[n] >= e[n]
      /\ e[n] <= start /\ (e[n] = start \/ Len(buf) >= Len(m) - 1)
      /\ \A x \in 0..Len(s) : EndsAt(m, s, x) /\ x - Len(m) >= e[n] => x - Len(m) >= start
  BY DEF GreedyAt
<1>9. start = Len(s) - Len(buf) /\ e[n] \in b..Len(s)
  OBVIOUS
<1> HIDE DEF sc, bc, start, m
<1>10. IsEnd(bc, sc, b)
  <2>1. ASSUME NEW i \in 1..Len(bc) PROVE bc[i] = sc[start + i]
    <3>1. CASE i <= Len(buf)
      <4>1. i \in 1..Len(buf) /\ start + i \in 1..Len(s)
        BY <1>1, <1>2, <1>3, <1>9, <3>1
      <4> QED
        BY <1>1, <1>2, <1>3, <4>1
    <3>2. CASE i > Len(buf)
      <4>1. i - Len(buf) \in 1..Len(c) /\ Len(buf) + (i - Len(buf)) = i
            /\ Len(s) + (i - Len(buf)) = start + i
        BY <1>1, <1>2, <1>9, <3>2
      <4> QED
        BY <1>1, <1>2, <4>1, ZenonT(60)
    <3> QED
      BY <1>2, <3>1, <3>2
  <2>2. Len(bc) <= Len(sc) - b
    BY <1>1, <1>2, <1>3, SMTT(40)
  <2> QED
    BY <1>7, <2>1, <2>2 DEF IsEnd
<1>11. e \in [0..n -> b..Len(sc)]
  <2>1. \A i \in 0..n : e[i] \in b..Len(sc)
    BY <1>1
  <2> QED
    BY <2>1
<1>12. Chain(ms, n, sc, b, e)
  <2>1. \A i \in 1..n : e[i] \in 0..Len(s)
    BY <1>1
  <2> QED
    BY <1>6, <1>8, <2>1
<1>13. ASSUME NEW d \in [0..n -> b..Len(sc)], Chain(ms, n, sc, b, d) PROVE d[n] >= e[n]
  <2> SUFFICES ASSUME ~(d[n] >= e[n]) PROVE FALSE
    OBVIOUS
  <2>1. d \in [0..n -> Nat] /\ d[n] \in Nat
    BY <1>1, SMTT(40)
  <2>2. d[n] <= Len(s)
    BY <1>1, <1>9, <2>1
  <2>3. \A i \in 0..n : d[i] <= Len(s)
    BY <1>1, <1>4, <1>13, <2>1, <2>2, ChainAscends
  <2>4. \A i \in 0..n : d[i] \in b..Len(s)
    BY <1>1, <2>1, <2>3
  <2>5. d \in [0..n -> b..Len(s)]
    BY <2>4
  <2>6. \A i \in 1..n : d[i] \in 0..Len(s)
    BY <2>4, SMTT(40)
  <2>7. Chain(ms, n, s, b, d)
    BY <1>6, <1>13, <2>6
  <2> QED
    BY <1>8, <2>5, <2>7
<1>14. e[n] = start \/ Len(bc) >= Len(m) - 1
  BY <1>1, <1>2, <1>4, <1>8
<1>15. ASSUME NEW x \in 0..Len(sc), EndsAt(m, sc, x), x - Len(m) >= e[n] PROVE x - Len(m) >= start
  <2>1. CASE x <= Len(s)
    <3>1. x \in 0..Len(s)
      BY <1>1, <2>1
    <3> QED
      BY <1>5, <1>8, <1>15, <3>1
  <2>2. CASE x > Len(s)
    <3>1. CASE e[n] = start
      BY <1>15, <3>1
    <3>2. CASE Len(buf) >= Len(m) - 1
      <4>1. start = Len(s) - Len(buf) /\ Len(s) \in Nat /\ Len(buf) \in Nat /\ Len(m) \in Nat /\ x \in Int
        BY <1>1, <1>2, <1>4, <1>9
      <4> QED
        BY <2>2, <3>2, <4>1
    <3> QED
      BY <1>8, <3>1, <3>2
  <2> QED
    BY <1>1, <2>1, <2>2
<1>16. GreedyAt(ms, n, sc, b, bc, e)
  BY <1>7, <1>8, <1>12, <1>13, <1>14, <1>15 DEF GreedyAt, m
<1> QED
  BY <1>10, <1>11, <1>16 DEF sc, bc, GreedyFor

\* What is left of the buffer behind a match, and where it is in the stream.
LEMMA DropShape ==
    ASSUME NEW s \in Seq(Byte), NEW k \in 0..Len(s)
    PROVE  /\ DropBytes(s, k) \in Seq(Byte) /\ Len(DropBytes(s, k)) = Len(s) - k
           /\ \A i \in 1..Len(s) - k : DropBytes(s, k)[i] = s[k + i]
<1> DEFINE t == SubSeq(s, k + 1, Len(s))
<1>1. k + 1 \in 1..Len(s) + 1 /\ Len(s) \in Nat
  OBVIOUS
<1>2. t \in Seq(Byte) /\ Len(t) = Len(s) - k
  BY <1>1
<1>3. \A i \in 1..Len(s) - k : t[i] = s[k + 1 + i - 1]
  BY <1>1
<1>4. \A i \in 1..Len(s) - k : k + 1 + i - 1 = k + i
  OBVIOUS
<1> HIDE DEF t
<1>5. \A i \in 1..Len(s) - k : t[i] = s[k + i]
  BY <1>3, <1>4
<1> QED
  BY <1>2, <1>5 DEF DropBytes, t

\* The first occurrence of the next marker in the buffer ends its earliest match.
LEMMA GreedyMatch ==
    ASSUME NEW s \in Seq(Byte), NEW buf \in Seq(Byte), NEW b \in Nat, b <= Len(s),
           NEW ms, NEW n \in Nat, Markers(ms, n + 1),
           GreedyFor(ms, n, s, b, buf), Occurs(ms[n + 1], buf)
    PROVE  GreedyFor(ms, n + 1, s, b, DropBytes(buf, FindEnd(ms[n + 1], buf)))
<1> IsEnd(buf, s, b)
  BY DEF GreedyFor
<1> PICK e \in [0..n -> b..Len(s)] : GreedyAt(ms, n, s, b, buf, e)
  BY DEF GreedyFor
<1> DEFINE m == ms[n + 1]
           f == FindEnd(m, buf)
           rest == DropBytes(buf, f)
           start == Len(s) - Len(buf)
           x == start + f
<1>1. m \in Seq(Byte) /\ Len(m) \in Nat \ {0}
  BY DEF Markers
<1>2. f \in 1..Len(buf) /\ EndsAt(m, buf, f) /\ \A g \in 1..(f - 1) : ~EndsAt(m, buf, g)
  BY FindEndIsFirst
<1>3. /\ Len(buf) <= Len(s) - b /\ start \in Nat /\ b <= start /\ Len(s) \in Nat /\ Len(buf) \in Nat
      /\ start = Len(s) - Len(buf)
      /\ \A i \in 1..Len(buf) : buf[i] = s[start + i]
  BY DEF IsEnd
<1>4. \A g \in Len(m)..Len(buf) : EndsAt(m, buf, g) <=> EndsAt(m, s, start + g)
  BY <1>1, InBuffer
<1>5. /\ Chain(ms, n, s, b, e)
      /\ \A d \in [0..n -> b..Len(s)] : Chain(ms, n, s, b, d) => d[n] >= e[n]
      /\ e[n] <= start
      /\ \A y \in 0..Len(s) : EndsAt(m, s, y) /\ y - Len(m) >= e[n] => y - Len(m) >= start
  BY DEF GreedyAt
<1>6. f \in Len(m)..Len(buf)
  BY <1>2 DEF EndsAt
<1>7. /\ rest \in Seq(Byte) /\ Len(rest) = Len(buf) - f
      /\ \A i \in 1..Len(buf) - f : rest[i] = buf[f + i]
  <2>1. f \in 0..Len(buf)
    BY <1>2
  <2> HIDE DEF f
  <2> QED
    BY <2>1, DropShape
<1>8. x = start + f /\ e[n] \in b..Len(s)
  OBVIOUS
<1> HIDE DEF m, f, rest, start, x
<1>9. x \in b..Len(s) /\ x = Len(s) - Len(rest) /\ x - Len(m) >= e[n] /\ x \in Nat
  BY <1>1, <1>3, <1>5, <1>6, <1>7, <1>8, SMTT(40)
<1>10. EndsAt(m, s, x)
  BY <1>2, <1>4, <1>6, <1>8
<1>11. IsEnd(rest, s, b)
  <2>1. Len(rest) <= Len(s) - b
    BY <1>3, <1>6, <1>7, <1>1
  <2>2. ASSUME NEW i \in 1..Len(rest) PROVE rest[i] = s[Len(s) - Len(rest) + i]
    <3>1. i \in 1..Len(buf) - f /\ f + i \in 1..Len(buf) /\ start + (f + i) = Len(s) - Len(rest) + i
      BY <1>1, <1>3, <1>6, <1>7
    <3> QED
      BY <1>3, <1>7, <3>1
  <2> QED
    BY <2>1, <2>2 DEF IsEnd
<1>12. PICK d \in [0..n + 1 -> b..Len(s)] : Chain(ms, n + 1, s, b, d) /\ d[n + 1] = x
  <2>1. EndsAt(ms[n + 1], s, x) /\ x - Len(ms[n + 1]) >= e[n]
    BY <1>9, <1>10 DEF m
  <2>2. ChainIn(ms, n, s, b, Len(s), e)
    BY <1>5 DEF ChainIn
  <2>3. ChainTo(ms, n + 1, s, b, Len(s), x)
    BY <1>3, <1>9, <2>1, <2>2, ChainLonger
  <2> QED
    BY <2>3 DEF ChainTo, ChainIn
<1>13. ASSUME NEW g \in [0..n + 1 -> b..Len(s)], Chain(ms, n + 1, s, b, g) PROVE g[n + 1] >= x
  <2>1. PICK h \in [0..n -> b..Len(s)] : Chain(ms, n, s, b, h) /\ h[n] = g[n]
    <3>1. n \in 0..n + 1 /\ n + 1 \in Nat /\ ChainIn(ms, n + 1, s, b, Len(s), g)
      BY <1>13, SMTT(40) DEF ChainIn
    <3>2. ChainTo(ms, n, s, b, Len(s), g[n])
      BY <3>1, ChainPrefix
    <3> QED
      BY <3>2 DEF ChainTo, ChainIn
  <2>2. g[n] >= e[n]
    BY <1>5, <2>1
  <2> DEFINE y == g[n + 1]
  <2>3. n + 1 \in 1..n + 1 /\ n + 1 \in 0..n + 1 /\ n \in 0..n + 1 /\ (n + 1) - 1 = n
    OBVIOUS
  <2>4. EndsAt(m, s, y) /\ y - Len(m) >= g[n]
    BY <1>13, <2>3 DEF Chain, m
  <2>5. y \in b..Len(s) /\ g[n] \in b..Len(s)
    BY <2>3
  <2> HIDE DEF y
  <2>6. y - Len(m) >= e[n] /\ y \in 0..Len(s)
    BY <1>1, <1>3, <1>8, <2>2, <2>4, <2>5, SMTT(40)
  <2>7. y - Len(m) >= start
    BY <1>5, <2>4, <2>6
  <2>8. y - start \in Len(m)..Len(buf) /\ start + (y - start) = y
    BY <1>1, <1>3, <2>6, <2>7
  <2>9. EndsAt(m, buf, y - start)
    BY <1>4, <2>4, <2>8
  <2>10. ~(y - start \in 1..(f - 1))
    BY <1>2, <2>9
  <2> DEFINE z == y - start
  <2>11. z >= f
    <3>1. z \in Len(m)..Len(buf) /\ ~(z \in 1..(f - 1))
      BY <2>8, <2>10
    <3> HIDE DEF z
    <3> QED
      BY <1>1, <1>3, <1>6, <3>1
  <2>12. y >= x
    BY <1>1, <1>3, <1>6, <1>8, <2>6, <2>11
  <2> QED
    BY <2>12 DEF y
<1>14. GreedyAt(ms, n + 1, s, b, rest, d)
  BY <1>9, <1>12, <1>13 DEF GreedyAt
<1> QED
  BY <1>11, <1>14 DEF rest, f, m, GreedyFor

\* A buffer without the marker may lose all but the beginning of one.
LEMMA GreedyMiss ==
    ASSUME NEW s \in Seq(Byte), NEW buf \in Seq(Byte), NEW b \in Nat, b <= Len(s),
           NEW ms, NEW n \in Nat, Markers(ms, n + 1),
           GreedyFor(ms, n, s, b, buf), ~Occurs(ms[n + 1], buf)
    PROVE  GreedyFor(ms, n, s, b, LastBytes(buf, Len(ms[n + 1]) - 1))
<1> IsEnd(buf, s, b)
  BY DEF GreedyFor
<1> PICK e \in [0..n -> b..Len(s)] : GreedyAt(ms, n, s, b, buf, e)
  BY DEF GreedyFor
<1> DEFINE m == ms[n + 1]
           k == Len(m) - 1
           kept == LastBytes(buf, k)
           start == Len(s) - Len(buf)
<1>1. m \in Seq(Byte) /\ Len(m) \in Nat \ {0} /\ k \in Nat /\ k = Len(m) - 1
  BY DEF Markers
<1>2. CASE k >= Len(buf)
  <2>1. kept = buf
    <3> HIDE DEF m, k
    <3> QED
      BY <1>1, <1>2, SuffixShape
  <2> QED
    BY <2>1
<1>3. CASE k < Len(buf)
  <2>1. /\ Len(buf) <= Len(s) - b /\ start \in Nat /\ b <= start /\ Len(s) \in Nat /\ Len(buf) \in Nat
        /\ start = Len(s) - Len(buf)
        /\ \A i \in 1..Len(buf) : buf[i] = s[start + i]
    BY DEF IsEnd
  <2>2. \A g \in Len(m)..Len(buf) : EndsAt(m, buf, g) <=> EndsAt(m, s, start + g)
    <3> HIDE DEF m
    <3> QED
      BY <1>1, InBuffer DEF start
  <2>3. /\ Chain(ms, n, s, b, e)
        /\ \A d \in [0..n -> b..Len(s)] : Chain(ms, n, s, b, d) => d[n] >= e[n]
        /\ e[n] <= start
        /\ \A y \in 0..Len(s) : EndsAt(m, s, y) /\ y - Len(m) >= e[n] => y - Len(m) >= start
    BY DEF GreedyAt
  <2>4. \A g \in 1..Len(buf) : ~EndsAt(m, buf, g)
    BY DEF Occurs
  <2>5. e[n] \in b..Len(s)
    OBVIOUS
  <2>6. Len(kept) = k /\ \A i \in 1..k : kept[i] = buf[Len(buf) - k + i]
    <3> HIDE DEF k
    <3> QED
      BY <1>1, <1>3, SuffixShape
  <2> HIDE DEF m, k, kept, start
  <2>7. IsEnd(kept, s, b)
    <3>1. Len(kept) <= Len(s) - b
      BY <1>1, <1>3, <2>1, <2>6
    <3>2. ASSUME NEW i \in 1..Len(kept) PROVE kept[i] = s[Len(s) - Len(kept) + i]
      <4>1. i \in 1..k /\ Len(buf) - k + i \in 1..Len(buf)
            /\ start + (Len(buf) - k + i) = Len(s) - Len(kept) + i
        BY <1>1, <1>3, <2>1, <2>6, SMTT(40)
      <4> QED
        BY <2>1, <2>6, <4>1
    <3> QED
      BY <3>1, <3>2 DEF IsEnd
  <2>8. ASSUME NEW y \in 0..Len(s), EndsAt(m, s, y), y - Len(m) >= e[n]
        PROVE  y - Len(m) >= Len(s) - Len(kept)
    <3> SUFFICES ASSUME ~(y - Len(m) >= Len(s) - Len(kept)) PROVE FALSE
      OBVIOUS
    <3>1. y - Len(m) >= start
      BY <2>3, <2>8
    <3>2. /\ y - start \in Len(m)..Len(buf) /\ start + (y - start) = y
          /\ y - start \in 1..Len(buf)
      BY <1>1, <2>1, <3>1, SMTT(40)
    <3>3. EndsAt(m, buf, y - start)
      BY <2>2, <2>8, <3>2
    <3> QED
      BY <2>4, <3>2, <3>3
  <2>9. e[n] <= Len(s) - Len(kept) /\ Len(kept) >= Len(m) - 1
    BY <1>1, <1>3, <2>1, <2>3, <2>5, <2>6, SMTT(40)
  <2>10. GreedyAt(ms, n, s, b, kept, e)
    BY <2>3, <2>8, <2>9 DEF GreedyAt, m
  <2> QED
    BY <2>7, <2>10 DEF kept, k, m, GreedyFor
<1> QED
  BY <1>1, <1>2, <1>3

\* A phase begins with nothing found.
LEMMA GreedyStart ==
    ASSUME NEW s \in Seq(Byte), NEW ms
    PROVE  GreedyFor(ms, 0, s, Len(s), <<>>)
<1> DEFINE e == [i \in 0..0 |-> Len(s)]
<1>1. Len(s) \in Nat /\ Len(<<>>) = 0 /\ Len(s) - 0 = Len(s) /\ Len(s) \in Len(s)..Len(s)
  OBVIOUS
<1>2. e \in [0..0 -> Len(s)..Len(s)] /\ e[0] = Len(s)
  BY <1>1
<1> HIDE DEF e
<1>3. Chain(ms, 0, s, Len(s), e)
  BY <1>2 DEF Chain
<1>4. \A d : Chain(ms, 0, s, Len(s), d) => d[0] >= e[0]
  BY <1>1, <1>2 DEF Chain
<1>5. GreedyAt(ms, 0, s, Len(s), <<>>, e)
  BY <1>1, <1>2, <1>3, <1>4 DEF GreedyAt
<1>6. IsEnd(<<>>, s, Len(s))
  BY <1>1 DEF IsEnd
<1> QED
  BY <1>2, <1>5, <1>6 DEF GreedyFor

\* With less than a marker in the buffer no more markers can be matched.
LEMMA GreedyIsMaximal ==
    ASSUME NEW s \in Seq(Byte), NEW buf \in Seq(Byte), NEW b \in Nat, b <= Len(s),
           NEW ms, NEW N \in Nat, NEW n \in Nat, n + 1 <= N, Markers(ms, N),
           GreedyFor(ms, n, s, b, buf),
           Len(buf) < Len(ms[n + 1]), NEW k \in 1..N
    PROVE  (\E d \in [0..k -> b..Len(s)] : Chain(ms, k, s, b, d)) <=> k < n + 1
<1> PICK e \in [0..n -> b..Len(s)] : GreedyAt(ms, n, s, b, buf, e)
  BY DEF GreedyFor
<1>1. CASE k < n + 1
  <2>1. k \in 0..n /\ ChainIn(ms, n, s, b, Len(s), e)
    BY <1>1 DEF GreedyAt, ChainIn
  <2>2. ChainTo(ms, k, s, b, Len(s), e[k])
    BY <2>1, ChainPrefix
  <2> QED
    BY <1>1, <2>2 DEF ChainTo, ChainIn
<1>2. ASSUME k >= n + 1, NEW d \in [0..k -> b..Len(s)], Chain(ms, k, s, b, d) PROVE FALSE
  <2> DEFINE m == ms[n + 1]
             y == d[n + 1]
  <2>1. n + 1 \in 1..k /\ n + 1 \in 0..k /\ n \in 0..k /\ (n + 1) - 1 = n /\ k \in Nat /\ n + 1 \in 1..N
    BY <1>2
  <2>2. m \in Seq(Byte) /\ Len(m) \in Nat \ {0} /\ Len(s) \in Nat /\ Len(buf) \in Nat
    BY <2>1, SMTT(40) DEF Markers
  <2>3. PICK h \in [0..n -> b..Len(s)] : Chain(ms, n, s, b, h) /\ h[n] = d[n]
    <3>1. ChainIn(ms, k, s, b, Len(s), d)
      BY <1>2 DEF ChainIn
    <3>2. ChainTo(ms, n, s, b, Len(s), d[n])
      BY <2>1, <3>1, ChainPrefix
    <3> QED
      BY <3>2 DEF ChainTo, ChainIn
  <2>4. d[n] >= e[n] /\ e[n] \in Int /\ d[n] \in Int
    <3>1. h[n] >= e[n]
      BY <2>3 DEF GreedyAt
    <3>2. n \in 0..n /\ e[n] \in b..Len(s) /\ h[n] \in b..Len(s)
      OBVIOUS
    <3> QED
      BY <2>2, <2>3, <3>1, <3>2
  <2>5. EndsAt(m, s, y) /\ y - Len(m) >= d[n] /\ y \in b..Len(s) /\ d[n] \in b..Len(s)
    BY <1>2, <2>1 DEF Chain
  <2>6. \A x \in 0..Len(s) : EndsAt(m, s, x) /\ x - Len(m) >= e[n] => x - Len(m) >= Len(s) - Len(buf)
    BY DEF GreedyAt
  <2>7. Len(buf) < Len(m)
    OBVIOUS
  <2> HIDE DEF m, y
  <2>8. y \in 0..Len(s) /\ y - Len(m) >= e[n]
    <3>1. y \in Int /\ Len(m) \in Int /\ 0 <= y /\ y <= Len(s)
      BY <2>2, <2>5
    <3>2. y - Len(m) >= d[n] /\ d[n] >= e[n] /\ y - Len(m) \in Int
      BY <2>4, <2>5, <3>1
    <3>3. y - Len(m) >= e[n]
      <4> DEFINE z == y - Len(m)
                 dn == d[n]
                 en == e[n]
      <4>1. z \in Int /\ dn \in Int /\ en \in Int /\ z >= dn /\ dn >= en
        BY <2>4, <3>2, Zenon
      <4> HIDE DEF z, dn, en
      <4>2. z >= en
        BY <4>1
      <4> QED
        BY <4>2, Zenon DEF z, dn, en
    <3> QED
      BY <2>2, <3>1, <3>3
  <2>9. y - Len(m) >= Len(s) - Len(buf)
    BY <2>5, <2>6, <2>8
  <2> QED
    BY <2>2, <2>7, <2>8, <2>9
<1> QED
  <2>1. k \in Nat /\ (k < n + 1 \/ k >= n + 1)
    OBVIOUS
  <2>2. CASE k >= n + 1
    <3>1. ~(k < n + 1)
      BY <2>1, <2>2
    <3>2. ~\E d \in [0..k -> b..Len(s)] : Chain(ms, k, s, b, d)
      BY <1>2, <2>2
    <3> QED
      BY <3>1, <3>2
  <2> QED
    BY <1>1, <2>1, <2>2

\* A phase that is met stays met when the stream grows.
LEMMA MetKept ==
    ASSUME NEW p \in 1..Len(Phases), NEW s \in Seq(Byte), NEW c \in Seq(Byte), NEW b \in Nat,
           NEW y \in Nat, y <= Len(s), NEW z \in Nat, y <= z, MetAt(p, s, b, y)
    PROVE  MetAt(p, s \o c, b, z)
<1> DEFINE n == Len(Phases[p])
<1>1. n \in Nat /\ Markers(Phases[p], n) /\ Len(s) \in Nat
  <2>1. n \in Nat /\ n \in 0..n
    BY PlanShape
  <2> QED
    BY <2>1, PhaseMarkers
<1>2. PICK e \in [0..n -> b..y] : Chain(Phases[p], n, s, b, e)
  BY DEF MetAt
<1>3. \A i \in 0..n : e[i] \in b..y
  BY <1>2
<1> HIDE DEF n
<1>4. e \in [0..n -> b..z] /\ \A i \in 1..n : e[i] \in 0..Len(s)
  <2>1. \A i \in 0..n : e[i] \in b..z /\ e[i] \in 0..Len(s)
    BY <1>1, <1>3, SMTT(40)
  <2> QED
    BY <1>1, <1>2, <2>1
<1>5. Chain(Phases[p], n, s \o c, b, e)
  BY <1>1, <1>2, <1>4, ChainKept
<1> QED
  BY <1>4, <1>5 DEF MetAt, n

\* What the machine's position is made of.
LEMMA Position ==
    ASSUME IInv, PhasesMet
    PROVE  /\ stream \in Seq(Byte) /\ markerBuffer \in Seq(Byte) /\ Len(stream) \in Nat
           /\ phaseIndex \in 1..Len(Phases) /\ Len(boots) = phaseIndex /\ Len(Phases) \in Nat
           /\ \A p \in 1..phaseIndex : /\ p \in 1..Len(Phases) /\ boots[p] \in Nat
                                       /\ PhaseEnd(p) \in Nat /\ PhaseEnd(p) <= Len(stream)
                                       /\ boots[p] <= PhaseEnd(p)
           /\ PhaseEnd(phaseIndex) = Len(stream)
           /\ boots[phaseIndex] \in Nat /\ boots[phaseIndex] <= Len(stream)
<1>1. /\ stream \in Seq(Byte) /\ markerBuffer \in Seq(Byte) /\ Len(stream) \in Nat
      /\ phaseIndex \in 1..Len(Phases) /\ Len(boots) = phaseIndex /\ Len(Phases) \in Nat
      /\ boots \in Seq(Nat) /\ phaseIndex \in Nat
  BY PlanShape DEF IInv, TypeOK, Control
<1>2. ASSUME NEW p \in 1..phaseIndex
      PROVE  /\ p \in 1..Len(Phases) /\ boots[p] \in Nat
             /\ PhaseEnd(p) \in Nat /\ PhaseEnd(p) <= Len(stream) /\ boots[p] <= PhaseEnd(p)
  <2>1. p \in 1..Len(Phases) /\ p \in 1..Len(boots) /\ boots[p] \in Nat /\ boots[p] <= PhaseEnd(p)
    BY <1>1 DEF PhasesMet
  <2>2. CASE p < Len(boots)
    <3>1. p + 1 \in 1..Len(boots) /\ boots[p + 1] \in Nat
      BY <1>1, <2>1, <2>2
    <3> QED
      BY <2>1, <2>2, <3>1 DEF PhaseEnd, PhasesMet
  <2>3. CASE ~(p < Len(boots))
    BY <1>1, <2>1, <2>3 DEF PhaseEnd
  <2> QED
    BY <2>2, <2>3
<1>3. PhaseEnd(phaseIndex) = Len(stream)
  BY <1>1 DEF PhaseEnd
<1>4. phaseIndex \in 1..phaseIndex
  BY <1>1
<1> QED
  BY <1>1, <1>2, <1>3, <1>4

\* The marker looked for is the one behind those found.
LEMMA Looking ==
    ASSUME IInv, outcome = "running", ~waitingForReboot
    PROVE  /\ markerIndex - 1 \in Nat /\ (markerIndex - 1) + 1 = markerIndex
           /\ markerIndex \in 1..Len(Phases[phaseIndex]) /\ Len(Phases[phaseIndex]) \in Nat
           /\ CurrentMarker = Phases[phaseIndex][(markerIndex - 1) + 1]
           /\ Markers(Phases[phaseIndex], (markerIndex - 1) + 1)
           /\ Markers(Phases[phaseIndex], Len(Phases[phaseIndex]))
<1>1. phaseIndex \in 1..Len(Phases) /\ Len(Phases[phaseIndex]) \in Nat
      /\ markerIndex \in 1..(Len(Phases[phaseIndex]) + 1)
      /\ markerIndex <= Len(Phases[phaseIndex])
  BY PlanShape DEF IInv, TypeOK, Control
<1>2. /\ markerIndex - 1 \in Nat /\ (markerIndex - 1) + 1 = markerIndex
      /\ markerIndex \in 1..Len(Phases[phaseIndex])
      /\ markerIndex \in 0..Len(Phases[phaseIndex])
      /\ Len(Phases[phaseIndex]) \in 0..Len(Phases[phaseIndex])
  BY <1>1
<1> QED
  BY <1>1, <1>2, PhaseMarkers DEF CurrentMarker

\* A new machine is at the start of an empty stream.
LEMMA OrderedInit == Init => PhasesMet /\ Greedy
<1> SUFFICES ASSUME Init PROVE PhasesMet /\ Greedy
  OBVIOUS
<1>1. /\ stream \in Seq(Byte) /\ stream = <<>> /\ Len(stream) = 0 /\ markerBuffer = <<>>
      /\ Len(boots) = 1 /\ boots[1] = 0 /\ phaseIndex = 1 /\ markerIndex = 1
      /\ ~waitingForReboot /\ outcome = "running"
  BY DEF Init
<1>2. PhaseEnd(1) = 0
  BY <1>1 DEF PhaseEnd
<1>3. PhasesMet
  BY <1>1, <1>2 DEF PhasesMet
<1>4. GreedyFor(Phases[1], 0, stream, Len(stream), <<>>)
  BY <1>1, GreedyStart
<1>5. markerIndex - 1 = 0 /\ boots[phaseIndex] = Len(stream)
  BY <1>1
<1> QED
  BY <1>1, <1>3, <1>4, <1>5 DEF Greedy

\* A chunk is added to the stream, and to the buffer while a marker is looked for.
LEMMA OrderedReceive ==
    ASSUME IInv, PhasesMet, Greedy, NEW chunk \in Chunks, Receive(chunk), outcome = "running"
    PROVE  PhasesMet' /\ Greedy'
<1>1. /\ chunk \in Seq(Byte) /\ Len(chunk) \in Nat
      /\ stream' = stream \o chunk /\ Len(stream \o chunk) = Len(stream) + Len(chunk)
      /\ UNCHANGED <<phaseIndex, markerIndex, waitingForReboot, boots>>
      /\ outcome' \in {"running", "fail"}
  <2>1. chunk \in Seq(Byte) /\ stream \in Seq(Byte)
    BY PlanAssumption DEF Marker, IInv, TypeOK
  <2>2. Len(chunk) \in Nat /\ Len(stream \o chunk) = Len(stream) + Len(chunk)
    BY <2>1, Extended
  <2> QED
    BY <2>1, <2>2 DEF Receive, Fail
<1>2. ASSUME NEW p \in 1..phaseIndex
      PROVE  /\ boots'[p] = boots[p] /\ PhaseEnd(p)' \in Nat
             /\ PhaseEnd(p) <= PhaseEnd(p)' /\ boots[p] <= Len(stream')
  <2>1. PhaseEnd(p)' = IF p < Len(boots) THEN boots[p + 1] ELSE Len(stream')
    BY <1>1 DEF PhaseEnd
  <2>2. /\ PhaseEnd(p) \in Nat /\ Len(stream) \in Nat /\ boots[p] \in Nat
        /\ boots[p] <= PhaseEnd(p) /\ PhaseEnd(p) <= Len(stream)
    BY Position
  <2>3. Len(stream') = Len(stream) + Len(chunk)
    BY <1>1
  <2>4. boots[p] <= Len(stream') /\ boots'[p] = boots[p]
    BY <1>1, <2>2, <2>3
  <2>5. CASE p < Len(boots)
    BY <2>1, <2>2, <2>4, <2>5 DEF PhaseEnd
  <2>6. CASE ~(p < Len(boots))
    BY <1>1, <2>1, <2>2, <2>3, <2>4, <2>6 DEF PhaseEnd
  <2> QED
    BY <2>5, <2>6
<1>3. ASSUME NEW p \in 1..phaseIndex, Met(p) PROVE Met(p)'
  <2>1. /\ p \in 1..Len(Phases) /\ stream \in Seq(Byte) /\ boots[p] \in Nat
        /\ PhaseEnd(p) \in Nat /\ PhaseEnd(p) <= Len(stream)
    BY Position
  <2> DEFINE z == PhaseEnd(p)'
  <2>2. z \in Nat /\ PhaseEnd(p) <= z
    BY <1>2
  <2> HIDE DEF z
  <2>3. MetAt(p, stream \o chunk, boots[p], z)
    BY <1>1, <1>3, <2>1, <2>2, MetKept DEF Met
  <2> QED
    BY <1>1, <2>3 DEF Met, MetAt, z
<1>4. PhasesMet'
  <2>1. ASSUME NEW p \in 1..Len(boots) PROVE (boots[p] <= PhaseEnd(p) /\ boots[p] <= Len(stream))'
    <3>1. p \in 1..phaseIndex /\ boots[p] \in Nat /\ PhaseEnd(p) \in Nat /\ boots[p] <= PhaseEnd(p)
      BY Position
    <3> QED
      BY <1>2, <3>1
  <2>2. ASSUME NEW p \in 1..phaseIndex, p < phaseIndex \/ waitingForReboot \/ outcome' = "pass"
        PROVE  Met(p)'
    <3>1. p < phaseIndex \/ waitingForReboot
      BY <1>1, <2>2
    <3>2. Met(p)
      BY <3>1 DEF PhasesMet
    <3> QED
      BY <1>3, <3>2
  <2> QED
    BY <1>1, <2>1, <2>2 DEF PhasesMet
<1>5. Greedy'
  <2> SUFFICES ASSUME outcome' = "running", ~waitingForReboot'
               PROVE  GreedyFor(Phases[phaseIndex'], markerIndex' - 1, stream',
                                boots'[phaseIndex'], markerBuffer')
    BY DEF Greedy
  <2>1. ~waitingForReboot /\ markerBuffer' = markerBuffer \o chunk
    BY <1>1 DEF Receive, Fail
  <2>2. GreedyFor(Phases[phaseIndex], markerIndex - 1, stream, boots[phaseIndex], markerBuffer)
    BY <2>1 DEF Greedy
  <2>3. GreedyFor(Phases[phaseIndex], markerIndex - 1, stream \o chunk, boots[phaseIndex],
                  markerBuffer \o chunk)
    BY <1>1, <2>1, <2>2, Position, Looking, GreedyFeed
  <2> QED
    BY <1>1, <2>1, <2>3
<1> QED
  BY <1>4, <1>5

\* While stream and boots stay as they are, a phase is met or not as it was.
LEMMA MetSame ==
    ASSUME UNCHANGED <<stream, boots>>
    PROVE  \A p : (Met(p)' <=> Met(p)) /\ PhaseEnd(p)' = PhaseEnd(p)
<1>1. \A p : PhaseEnd(p)' = PhaseEnd(p)
  BY DEF PhaseEnd
<1> QED
  BY <1>1, SMTT(40) DEF Met, MetAt, Chain, EndsAt

\* The marker is found: the match grows, and may complete the phase.
LEMMA OrderedMatch ==
    ASSUME IInv, PhasesMet, Greedy, ScanMatch
    PROVE  PhasesMet' /\ Greedy'
<1> DEFINE n == markerIndex - 1
           ms == Phases[phaseIndex]
           rest == DropBytes(markerBuffer, FindEnd(CurrentMarker, markerBuffer))
           last == markerIndex = Len(Phases[phaseIndex])
<1>1. outcome = "running" /\ ~waitingForReboot /\ Occurs(CurrentMarker, markerBuffer)
  BY DEF ScanMatch, IInv, Control
<1>2. /\ UNCHANGED <<stream, boots, phaseIndex>> /\ markerIndex' = markerIndex + 1
      /\ markerBuffer' = IF last THEN <<>> ELSE rest
      /\ waitingForReboot' = (last /\ phaseIndex # Len(Phases))
      /\ outcome' = IF last /\ phaseIndex = Len(Phases) THEN "pass" ELSE outcome
  BY DEF ScanMatch
<1>3. /\ n \in Nat /\ n + 1 = markerIndex /\ CurrentMarker = ms[n + 1] /\ Markers(ms, n + 1)
      /\ markerIndex \in 1..Len(ms) /\ Len(ms) \in Nat
  BY <1>1, Looking
<1>4. GreedyFor(ms, n, stream, boots[phaseIndex], markerBuffer)
  BY <1>1 DEF Greedy
<1>5. GreedyFor(ms, n + 1, stream, boots[phaseIndex], rest)
  <2> HIDE DEF ms, n
  <2> QED
    BY <1>1, <1>3, <1>4, Position, GreedyMatch
<1>6. \A p : (Met(p)' <=> Met(p)) /\ PhaseEnd(p)' = PhaseEnd(p)
  BY <1>2, MetSame
<1>7. last => Met(phaseIndex)
  <2> SUFFICES ASSUME last PROVE Met(phaseIndex)
    OBVIOUS
  <2>1. n + 1 = Len(ms)
    BY <1>3
  <2>2. PhaseEnd(phaseIndex) = Len(stream)
    BY Position
  <2> QED
    BY <1>5, <2>1, <2>2 DEF GreedyFor, GreedyAt, Met, MetAt
<1>8. PhasesMet'
  <2>1. ASSUME NEW p \in 1..phaseIndex, p < phaseIndex \/ waitingForReboot' \/ outcome' = "pass"
        PROVE  Met(p)'
    <3>1. CASE p < phaseIndex
      BY <1>6, <3>1 DEF PhasesMet
    <3>2. CASE ~(p < phaseIndex)
      <4>1. last
        BY <1>1, <1>2, <2>1, <3>2
      <4>2. p = phaseIndex
        BY <3>2, Position
      <4> QED
        BY <1>6, <1>7, <4>1, <4>2
    <3> QED
      BY <3>1, <3>2
  <2>2. waitingForReboot' => markerIndex' = Len(Phases[phaseIndex]) + 1
    BY <1>2
  <2>3. \A p \in 1..Len(boots) : (boots[p] <= PhaseEnd(p) /\ boots[p] <= Len(stream))'
    BY <1>2, <1>6 DEF PhasesMet
  <2> QED
    BY <1>2, <2>1, <2>2, <2>3 DEF PhasesMet
<1>9. Greedy'
  <2> SUFFICES ASSUME outcome' = "running", ~waitingForReboot'
               PROVE  GreedyFor(Phases[phaseIndex'], markerIndex' - 1, stream',
                                boots'[phaseIndex'], markerBuffer')
    BY DEF Greedy
  <2>1. ~last /\ markerBuffer' = rest
    BY <1>2
  <2>2. markerIndex' - 1 = n + 1
    BY <1>2, <1>3
  <2> HIDE DEF rest
  <2> QED
    BY <1>2, <1>5, <2>1, <2>2
<1> QED
  BY <1>8, <1>9

\* The marker is not found: the buffer is cut.
LEMMA OrderedMiss ==
    ASSUME IInv, PhasesMet, Greedy, ScanMiss
    PROVE  PhasesMet' /\ Greedy'
<1> DEFINE n == markerIndex - 1
           ms == Phases[phaseIndex]
<1>1. outcome = "running" /\ ~waitingForReboot /\ ~Occurs(CurrentMarker, markerBuffer)
  BY DEF ScanMiss, IInv, Control
<1>2. /\ UNCHANGED <<stream, boots, phaseIndex, markerIndex, waitingForReboot, outcome>>
      /\ markerBuffer' = LastBytes(markerBuffer, Len(CurrentMarker) - 1)
  BY DEF ScanMiss
<1>3. n \in Nat /\ CurrentMarker = ms[n + 1] /\ Markers(ms, n + 1)
  BY <1>1, Looking
<1>4. GreedyFor(ms, n, stream, boots[phaseIndex], markerBuffer)
  BY <1>1 DEF Greedy
<1>5. GreedyFor(ms, n, stream, boots[phaseIndex], LastBytes(markerBuffer, Len(CurrentMarker) - 1))
  <2> HIDE DEF ms, n
  <2> QED
    BY <1>1, <1>3, <1>4, Position, GreedyMiss
<1>6. \A p : (Met(p)' <=> Met(p)) /\ PhaseEnd(p)' = PhaseEnd(p)
  BY <1>2, MetSame
<1>7. PhasesMet'
  BY <1>2, <1>6 DEF PhasesMet
<1>8. Greedy'
  <2> SUFFICES ASSUME outcome' = "running", ~waitingForReboot'
               PROVE  GreedyFor(Phases[phaseIndex'], markerIndex' - 1, stream',
                                boots'[phaseIndex'], markerBuffer')
    BY DEF Greedy
  <2> QED
    BY <1>2, <1>5
<1> QED
  BY <1>7, <1>8

\* The guest's RESET: the phase that was complete ends here, and the next one begins.
LEMMA OrderedEnter ==
    ASSUME IInv, PhasesMet, EnterNextPhase, outcome = "running", waitingForReboot
    PROVE  PhasesMet' /\ Greedy'
<1>1. /\ phaseIndex' = phaseIndex + 1 /\ markerIndex' = 1 /\ markerBuffer' = <<>>
      /\ ~waitingForReboot' /\ outcome' = "running" /\ stream' = stream
      /\ boots' = Append(boots, Len(stream))
  BY DEF EnterNextPhase
<1>2. /\ boots \in Seq(Nat) /\ Len(stream) \in Nat /\ Len(boots) = phaseIndex /\ phaseIndex \in Nat
      /\ stream \in Seq(Byte)
  BY PlanShape DEF IInv, TypeOK, Control
<1>3. /\ Len(boots') = phaseIndex + 1 /\ boots'[phaseIndex + 1] = Len(stream)
      /\ \A p \in 1..phaseIndex : boots'[p] = boots[p]
  BY <1>1, <1>2
<1>4. ASSUME NEW p \in 1..phaseIndex
      PROVE  PhaseEnd(p)' = PhaseEnd(p) /\ boots'[p] = boots[p] /\ (Met(p) => Met(p)')
  <2>1. PhaseEnd(p)' = boots'[p + 1]
    BY <1>2, <1>3 DEF PhaseEnd
  <2>2. CASE p < phaseIndex
    <3>1. p + 1 \in 1..phaseIndex
      BY <1>2, <2>2
    <3>2. PhaseEnd(p)' = PhaseEnd(p)
      BY <1>2, <1>3, <2>1, <2>2, <3>1 DEF PhaseEnd
    <3> QED
      BY <1>1, <1>3, <3>2 DEF Met, MetAt, Chain, EndsAt
  <2>3. CASE p = phaseIndex
    <3>1. PhaseEnd(p)' = PhaseEnd(p)
      BY <1>2, <1>3, <2>1, <2>3 DEF PhaseEnd
    <3> QED
      BY <1>1, <1>3, <3>1 DEF Met, MetAt, Chain, EndsAt
  <2> QED
    BY <1>2, <2>2, <2>3
<1>5. \A p : p = phaseIndex + 1 => PhaseEnd(p)' = Len(stream)
  BY <1>1, <1>2, <1>3 DEF PhaseEnd
<1>6. PhasesMet'
  <2>1. ASSUME NEW p \in 1..phaseIndex + 1
        PROVE  (boots[p] <= PhaseEnd(p) /\ boots[p] <= Len(stream))'
    <3>1. CASE p = phaseIndex + 1
      <4>1. boots'[p] = Len(stream) /\ PhaseEnd(p)' = Len(stream) /\ Len(stream') = Len(stream)
        BY <1>1, <1>3, <1>5, <3>1
      <4> QED
        BY <1>2, <4>1
    <3>2. CASE p \in 1..phaseIndex
      <4>1. boots[p] <= PhaseEnd(p) /\ boots[p] <= Len(stream)
        BY <1>2, <3>2 DEF PhasesMet
      <4> QED
        BY <1>1, <1>4, <3>2, <4>1
    <3> QED
      BY <1>2, <3>1, <3>2
  <2>2. ASSUME NEW p \in 1..phaseIndex + 1, p < phaseIndex + 1 PROVE Met(p)'
    <3>1. p \in 1..phaseIndex
      BY <1>2, <2>2
    <3>2. Met(p)
      BY <3>1 DEF PhasesMet
    <3> QED
      BY <1>4, <3>1, <3>2
  <2> QED
    BY <1>1, <1>3, <2>1, <2>2 DEF PhasesMet
<1>7. Greedy'
  <2> SUFFICES GreedyFor(Phases[phaseIndex'], markerIndex' - 1, stream',
                         boots'[phaseIndex'], markerBuffer')
    BY DEF Greedy
  <2>1. markerIndex' - 1 = 0 /\ boots'[phaseIndex'] = Len(stream)
    BY <1>1, <1>3
  <2>2. GreedyFor(Phases[phaseIndex'], 0, stream, Len(stream), <<>>)
    BY <1>2, GreedyStart
  <2> QED
    BY <1>1, <2>1, <2>2
<1> QED
  BY <1>6, <1>7

\* Every step of the machine keeps its position in agreement with the stream.
LEMMA OrderedInvariant == Spec => [](PhasesMet /\ Greedy)
<1>1. IInv /\ PhasesMet /\ Greedy /\ [Next]_vars => (PhasesMet /\ Greedy)'
  <2> SUFFICES ASSUME IInv, PhasesMet, Greedy, [Next]_vars PROVE PhasesMet' /\ Greedy'
    OBVIOUS
  <2>1. ASSUME UNCHANGED <<stream, boots, phaseIndex, markerIndex, waitingForReboot>>, outcome' = "fail"
        PROVE  PhasesMet' /\ Greedy'
    <3>1. \A p : (Met(p)' <=> Met(p)) /\ PhaseEnd(p)' = PhaseEnd(p)
      BY <2>1, MetSame
    <3> QED
      BY <2>1, <3>1 DEF PhasesMet, Greedy
  <2>2. ASSUME UNCHANGED vars PROVE PhasesMet' /\ Greedy'
    <3>1. UNCHANGED <<stream, boots, phaseIndex, markerIndex, waitingForReboot, outcome, markerBuffer>>
      BY <2>2 DEF vars
    <3>2. \A p : (Met(p)' <=> Met(p)) /\ PhaseEnd(p)' = PhaseEnd(p)
      BY <3>1, MetSame
    <3>3. PhasesMet'
      BY <3>1, <3>2 DEF PhasesMet
    <3>4. Greedy'
      <4> SUFFICES ASSUME outcome' = "running", ~waitingForReboot'
                   PROVE  GreedyFor(Phases[phaseIndex'], markerIndex' - 1, stream',
                                    boots'[phaseIndex'], markerBuffer')
        BY DEF Greedy
      <4> QED
        BY <3>1 DEF Greedy
    <3> QED
      BY <3>3, <3>4
  <2>3. ASSUME NEW chunk \in Chunks, Feed(chunk) PROVE PhasesMet' /\ Greedy'
    BY <2>2, <2>3, OrderedReceive DEF Feed
  <2>4. CASE ScanMatch
    BY <2>4, OrderedMatch
  <2>5. CASE ScanMiss
    BY <2>5, OrderedMiss
  <2>6. ASSUME NEW guest \in GuestField, NEW why \in ReasonField, HandleReset(guest, why)
        PROVE  PhasesMet' /\ Greedy'
    BY <2>1, <2>2, <2>6, OrderedEnter DEF HandleReset, RejectReset, Fail
  <2>7. CASE ProcessExited \/ TimedOut
    BY <2>1, <2>7 DEF ProcessExited, TimedOut, CloseRunning, Fail
  <2> QED
    BY <2>2, <2>3, <2>4, <2>5, <2>6, <2>7 DEF Next
<1> QED
  BY <1>1, OrderedInit, TypeCorrect, PTL DEF Spec

\* A pass is given in the last phase.
PassPhase == outcome = "pass" => phaseIndex = Len(Phases)

\* Only the match of the last marker of the last phase gives one, and it is final.
LEMMA PassInLastPhase == Spec => []PassPhase
<1>1. Init => PassPhase
  BY DEF Init, PassPhase
<1>2. IInv /\ PassPhase /\ [Next]_vars => PassPhase'
  <2> SUFFICES ASSUME IInv, PassPhase, [Next]_vars PROVE PassPhase'
    OBVIOUS
  <2> USE DEF PassPhase
  <2>1. ASSUME NEW chunk \in Chunks, Feed(chunk) PROVE PassPhase'
    BY <2>1 DEF Feed, Receive, Fail, vars
  <2>2. CASE ScanMatch
    BY <2>2 DEF ScanMatch, IInv, Control
  <2>3. ASSUME NEW guest \in GuestField, NEW why \in ReasonField, HandleReset(guest, why)
        PROVE  PassPhase'
    BY <2>3 DEF HandleReset, RejectReset, EnterNextPhase, Fail, vars
  <2> QED
    BY <2>1, <2>2, <2>3 DEF Next, ScanMiss, ProcessExited, TimedOut, CloseRunning, Fail, vars
<1> QED
  BY <1>1, <1>2, TypeCorrect, PTL DEF Spec

\* What PhaseStream is, and when the first n markers of phase p are in it.
LEMMA InPhase ==
    ASSUME IInv, PhasesMet, NEW p \in 1..phaseIndex, NEW n \in 0..Len(Phases[p])
    PROVE  Embeds(Phases[p], n, PhaseStream(p)) <=>
               \E e \in [0..n -> boots[p]..PhaseEnd(p)] : Chain(Phases[p], n, stream, boots[p], e)
<1>1. /\ p \in 1..Len(Phases) /\ stream \in Seq(Byte) /\ boots[p] \in Nat
      /\ PhaseEnd(p) \in Nat /\ PhaseEnd(p) <= Len(stream) /\ boots[p] <= PhaseEnd(p)
  BY Position
<1>2. n \in Nat /\ Markers(Phases[p], n)
  BY <1>1, PlanShape, PhaseMarkers
<1>3. PhaseStream(p) = SubSeq(stream, boots[p] + 1, PhaseEnd(p))
  BY DEF PhaseStream, PhaseEnd
<1> DEFINE ms == Phases[p]
           b == boots[p]
           c == PhaseEnd(p)
<1>4. b \in Nat /\ c \in Nat /\ b <= c /\ c <= Len(stream) /\ Markers(ms, n)
  BY <1>1, <1>2
<1> HIDE DEF ms, b, c
<1>5. Embeds(ms, n, SubSeq(stream, b + 1, c)) <=>
          \E e \in [0..n -> b..c] : Chain(ms, n, stream, b, e)
  BY <1>1, <1>2, <1>4, EmbedsIsChain
<1> QED
  BY <1>3, <1>5 DEF ms, b, c

\* A plan passes only if every phase was entered by its own guest RESET and its markers
\* are, in order, in the bytes of its own boot: for every plan, every stream and every way
\* to cut it into chunks.
THEOREM PassIsMet == Spec => []PassMeansPlanMet
<1>1. IInv /\ PassPhase /\ PhasesMet => PassMeansPlanMet
  <2> SUFFICES ASSUME IInv, PassPhase, PhasesMet, outcome = "pass"
               PROVE  /\ Len(boots) = Len(Phases)
                      /\ \A p \in 1..Len(Phases) : Embeds(Phases[p], Len(Phases[p]), PhaseStream(p))
    BY DEF PassMeansPlanMet
  <2>1. phaseIndex = Len(Phases) /\ Len(boots) = phaseIndex
    BY DEF PassPhase, IInv, Control
  <2>2. ASSUME NEW p \in 1..Len(Phases) PROVE Embeds(Phases[p], Len(Phases[p]), PhaseStream(p))
    <3>1. p \in 1..phaseIndex /\ Len(Phases[p]) \in 0..Len(Phases[p])
      BY <2>1, PlanShape
    <3>2. Met(p)
      BY <3>1 DEF PhasesMet
    <3> QED
      BY <3>1, <3>2, InPhase DEF Met, MetAt
  <2> QED
    BY <2>1, <2>2
<1> QED
  BY <1>1, OrderedInvariant, PassInLastPhase, TypeCorrect, PTL

\* Between calls the machine has matched exactly as many markers of the current phase as
\* can be matched in the bytes of the current boot: the greedy search from the retained
\* suffix loses no match, whatever the chunks.
THEOREM NothingMissed == Spec => []ProgressIsMaximal
<1>1. IInv /\ PhasesMet /\ Greedy /\ Kept => ProgressIsMaximal
  <2> SUFFICES ASSUME IInv, PhasesMet, Greedy, Kept, outcome = "running", pc = "idle",
                      NEW n \in 1..Len(Phases[phaseIndex])
               PROVE  Embeds(Phases[phaseIndex], n, PhaseStream(phaseIndex)) <=> n < markerIndex
    BY DEF ProgressIsMaximal
  <2> DEFINE ms == Phases[phaseIndex]
             b == boots[phaseIndex]
  <2>1. /\ phaseIndex \in 1..phaseIndex /\ PhaseEnd(phaseIndex) = Len(stream)
        /\ b \in Nat /\ b <= Len(stream) /\ stream \in Seq(Byte) /\ markerBuffer \in Seq(Byte)
        /\ Len(ms) \in Nat /\ n \in 0..Len(ms) /\ Len(stream) \in Nat
    BY Position, PlanShape
  <2>2. Embeds(ms, n, PhaseStream(phaseIndex)) <=>
            \E e \in [0..n -> b..Len(stream)] : Chain(ms, n, stream, b, e)
    BY <2>1, InPhase
  <2>3. CASE waitingForReboot
    <3>1. markerIndex = Len(ms) + 1 /\ MetAt(phaseIndex, stream, b, Len(stream))
      BY <2>1, <2>3 DEF PhasesMet, Met
    <3>2. PICK e : ChainIn(ms, Len(ms), stream, b, Len(stream), e)
      BY <3>1 DEF MetAt, ChainIn
    <3>3. ChainTo(ms, n, stream, b, Len(stream), e[n])
      BY <2>1, <3>2, ChainPrefix
    <3>4. \E d \in [0..n -> b..Len(stream)] : Chain(ms, n, stream, b, d)
      BY <3>3 DEF ChainTo, ChainIn
    <3>5. n < markerIndex
      BY <2>1, <3>1
    <3> QED
      BY <2>2, <3>4, <3>5
  <2>4. CASE ~waitingForReboot
    <3> DEFINE k == markerIndex - 1
    <3>1. /\ k \in Nat /\ k + 1 = markerIndex /\ k + 1 <= Len(ms) /\ CurrentMarker = ms[k + 1]
          /\ Markers(ms, Len(ms))
      BY <2>4, Looking
    <3>2. GreedyFor(ms, k, stream, b, markerBuffer)
      BY <2>4 DEF Greedy
    <3>3. Len(markerBuffer) < Len(ms[k + 1])
      BY <2>4, <3>1 DEF Kept
    <3> HIDE DEF k, ms, b
    <3>4. (\E e \in [0..n -> b..Len(stream)] : Chain(ms, n, stream, b, e)) <=> n < k + 1
      <4>1. n \in 1..Len(ms)
        BY DEF ms
      <4> QED
        BY <2>1, <3>1, <3>2, <3>3, <4>1, GreedyIsMaximal
    <3> QED
      BY <2>2, <3>1, <3>4 DEF ms
  <2> QED
    BY <2>3, <2>4
<1> QED
  BY <1>1, OrderedInvariant, KeptInvariant, TypeCorrect, PTL

=============================================================================
