--------------------------- MODULE NetworkProofs ----------------------------
(***************************************************************************)
(* Theorems about the networks of a test, for every number of ports, every *)
(* amount of traffic, every size of the socket buffers and every list of   *)
(* host forwards.                                                          *)
(*                                                                         *)
(* EthernetHub: the capture is faithful; a participant that gets whole     *)
(* frames gets them in order, once and without a gap; and it gets whole    *)
(* frames where no two others send to it.                                  *)
(*                                                                         *)
(* HostForwards: a resolved forward is one QEMU listens on, but for a      *)
(* chosen port that QEMU misreports, and a list that was let through       *)
(* resolves from every faithful report.                                    *)
(***************************************************************************)
EXTENDS EthernetHub, HostForwards, TLAPS

-----------------------------------------------------------------------------
(***************************************************************************)
(* A line: the units w on their way to a participant, in the order they    *)
(* arrive, and the set got of the frames it has.                           *)
(***************************************************************************)
FrameOf(s, n) == [source |-> s, number |-> n]
First(f) == [of |-> f, part |-> 1]
Second(f) == [of |-> f, part |-> 2]

\* v is w with unit u behind it.
Extended(w, v, u) ==
    /\ v \in Seq(Unit) /\ Len(v) = Len(w) + 1
    /\ \A i \in 1..Len(w) : v[i] = w[i]
    /\ v[Len(w) + 1] = u

\* The units of one source are in the order in which it sent them, each once.
Ordered(w) ==
    \A j \in 1..Len(w) : \A i \in 1..(j - 1) :
        w[i].of.source = w[j].of.source =>
            \/ w[i].of.number < w[j].of.number
            \/ w[i].of.number = w[j].of.number /\ w[i].part < w[j].part

\* No payload has lost its prefix.
Begins(w, f, k) == \E j \in 1..k : w[j] = First(f)
Paired(w) == \A i \in 1..Len(w) : w[i].part = 2 => Begins(w, w[i].of, i - 1)

\* What has arrived came before what is on its way.
Behind(w, got) ==
    \A f \in got : \A i \in 1..Len(w) :
        f.source = w[i].of.source => f.number < w[i].of.number

\* A frame follows its predecessor, or is the first of its source.
Chained(w, got) ==
    \A i \in 1..Len(w) : w[i].part = 1 =>
        LET s == w[i].of.source
            f == FrameOf(s, w[i].of.number - 1)
        IN  \/ Begins(w, f, i - 1) \/ f \in got
            \/ /\ \A g \in got : g.source # s
               /\ \A j \in 1..(i - 1) : w[j].of.source # s

Sound(w, got) == Ordered(w) /\ Paired(w) /\ Behind(w, got) /\ Chained(w, got)

\* Of source s: the line knows it, has nothing beyond frame n, and has frame n.
Known(w, got, s) ==
    (\E f \in got : f.source = s) \/ (\E i \in 1..Len(w) : w[i].of.source = s)
UpTo(w, got, s, n) ==
    /\ \A f \in got : f.source = s => f.number <= n
    /\ \A i \in 1..Len(w) : w[i].of.source = s => w[i].of.number <= n
Reached(w, got, s, n) == FrameOf(s, n) \in got \/ Begins(w, FrameOf(s, n), Len(w))

\* Nothing but the prefix of f.
PrefixOnly(w, f) == \A i \in 1..Len(w) : w[i].of = f => w[i].part = 1

\* What a line is made of.
LEMMA LineTypes ==
    ASSUME NEW w \in Seq(Unit)
    PROVE  /\ Len(w) \in Nat
           /\ \A i \in 1..Len(w) : /\ w[i] \in Unit /\ w[i].of \in Frame /\ w[i].part \in 1..2
                                   /\ w[i].of.source \in Port /\ w[i].of.number \in Nat \ {0}
                                   /\ w[i] = [of |-> w[i].of, part |-> w[i].part]
                                   /\ w[i].of = FrameOf(w[i].of.source, w[i].of.number)
<1>1. Len(w) \in Nat /\ \A i \in 1..Len(w) : w[i] \in Unit
  OBVIOUS
<1>2. ASSUME NEW u \in Unit
      PROVE  /\ u.of \in Frame /\ u.part \in 1..2 /\ u.of.source \in Port /\ u.of.number \in Nat \ {0}
             /\ u = [of |-> u.of, part |-> u.part] /\ u.of = FrameOf(u.of.source, u.of.number)
  BY DEF Unit, Frame, FrameOf
<1> QED
  BY <1>1, <1>2

\* The prefix of the next frame of s goes onto the line.
LEMMA FirstSent ==
    ASSUME NEW w \in Seq(Unit), NEW v, NEW got \in SUBSET Frame, NEW s \in Port, NEW n \in Nat \ {0},
           Extended(w, v, First(FrameOf(s, n))), Sound(w, got), UpTo(w, got, s, n - 1),
           Known(w, got, s) => Reached(w, got, s, n - 1)
    PROVE  /\ Sound(v, got) /\ UpTo(v, got, s, n) /\ Reached(v, got, s, n)
           /\ PrefixOnly(v, FrameOf(s, n)) /\ Begins(v, FrameOf(s, n), Len(v))
<1> DEFINE f == FrameOf(s, n)
           l == Len(w)
<1>1. /\ l \in Nat /\ v \in Seq(Unit) /\ Len(v) = l + 1 /\ v[l + 1] = First(f)
      /\ \A i \in 1..l : v[i] = w[i]
  BY LineTypes DEF Extended
<1>2. /\ First(f).of = f /\ First(f).part = 1 /\ f.source = s /\ f.number = n
  BY DEF First, FrameOf
<1>3. /\ \A i \in 1..l : w[i].of.source = s => w[i].of.number < n
      /\ \A g \in got : g.source = s => g.number < n
  <2>1. \A i \in 1..l : w[i].of.number \in Nat
    BY LineTypes
  <2>2. \A g \in got : g.number \in Nat
    BY DEF Frame
  <2>3. \A i \in 1..l : w[i].of.source = s => w[i].of.number <= n - 1
    BY DEF UpTo
  <2>4. \A g \in got : g.source = s => g.number <= n - 1
    BY DEF UpTo
  <2> QED
    BY <2>1, <2>2, <2>3, <2>4
<1>4. \A i \in 1..Len(v) : i \in 1..l \/ i = l + 1
  BY <1>1
<1>5. \A i \in 1..l : \A j \in 1..(i - 1) : j \in 1..l
  BY <1>1
<1>6. Ordered(v)
  <2> SUFFICES ASSUME NEW j \in 1..Len(v), NEW i \in 1..(j - 1), v[i].of.source = v[j].of.source
               PROVE  \/ v[i].of.number < v[j].of.number
                      \/ v[i].of.number = v[j].of.number /\ v[i].part < v[j].part
    BY DEF Ordered
  <2>1. CASE j \in 1..l
    BY <1>1, <1>5, <2>1 DEF Sound, Ordered
  <2>2. CASE j = l + 1
    <3>1. i \in 1..l
      BY <1>1, <2>2
    <3> QED
      BY <1>1, <1>2, <1>3, <2>2, <3>1
  <2> QED
    BY <1>4, <2>1, <2>2
<1>7. \A g, k : k \in 0..l /\ Begins(w, g, k) => Begins(v, g, k)
  BY <1>1, SMTT(40) DEF Begins
<1>8. Paired(v)
  <2> SUFFICES ASSUME NEW i \in 1..Len(v), v[i].part = 2 PROVE Begins(v, v[i].of, i - 1)
    BY DEF Paired
  <2>1. i \in 1..l /\ v[i] = w[i] /\ i - 1 \in 0..l
    BY <1>1, <1>2, <1>4
  <2>2. Begins(w, w[i].of, i - 1)
    BY <2>1 DEF Sound, Paired
  <2> QED
    BY <1>7, <2>1, <2>2
<1>9. Behind(v, got)
  <2> SUFFICES ASSUME NEW g \in got, NEW i \in 1..Len(v), g.source = v[i].of.source
               PROVE  g.number < v[i].of.number
    BY DEF Behind
  <2>1. CASE i \in 1..l
    BY <1>1, <2>1 DEF Sound, Behind
  <2>2. CASE i = l + 1
    BY <1>1, <1>2, <1>3, <2>2
  <2> QED
    BY <1>4, <2>1, <2>2
<1>10. Chained(v, got)
  <2> SUFFICES ASSUME NEW i \in 1..Len(v), v[i].part = 1
               PROVE  LET t == v[i].of.source
                          g == FrameOf(t, v[i].of.number - 1)
                      IN  \/ Begins(v, g, i - 1) \/ g \in got
                          \/ /\ \A h \in got : h.source # t
                             /\ \A j \in 1..(i - 1) : v[j].of.source # t
    BY DEF Chained
  <2>1. CASE i \in 1..l
    <3> DEFINE t == w[i].of.source
               g == FrameOf(t, w[i].of.number - 1)
    <3>1. v[i] = w[i] /\ i - 1 \in 0..l /\ \A j \in 1..(i - 1) : v[j] = w[j]
      BY <1>1, <1>5, <2>1
    <3>2. \/ Begins(w, g, i - 1) \/ g \in got
          \/ /\ \A h \in got : h.source # t
             /\ \A j \in 1..(i - 1) : w[j].of.source # t
      BY <2>1, <3>1 DEF Sound, Chained
    <3>3. Begins(w, g, i - 1) => Begins(v, g, i - 1)
      BY <1>7, <3>1
    <3> QED
      BY <3>1, <3>2, <3>3
  <2>2. CASE i = l + 1
    <3>1. v[i].of.source = s /\ v[i].of.number = n /\ i - 1 = l
      BY <1>1, <1>2, <2>2
    <3>2. CASE Known(w, got, s)
      <4>1. FrameOf(s, n - 1) \in got \/ Begins(w, FrameOf(s, n - 1), l)
        BY <3>2 DEF Reached
      <4>2. Begins(w, FrameOf(s, n - 1), l) => Begins(v, FrameOf(s, n - 1), l)
        BY <1>1, <1>7
      <4> QED
        BY <3>1, <4>1, <4>2
    <3>3. CASE ~Known(w, got, s)
      BY <1>1, <3>1, <3>3 DEF Known
    <3> QED
      BY <3>2, <3>3
  <2> QED
    BY <1>4, <2>1, <2>2
<1>11. Begins(v, f, Len(v))
  BY <1>1 DEF Begins
<1>12. UpTo(v, got, s, n)
  <2>1. \A g \in got : g.source = s => g.number <= n
    BY <1>3 DEF Frame
  <2>2. ASSUME NEW i \in 1..Len(v), v[i].of.source = s PROVE v[i].of.number <= n
    <3>1. CASE i \in 1..l
      <4>1. w[i].of.number \in Nat /\ w[i].of.number < n
        BY <1>1, <1>3, <2>2, <3>1, LineTypes
      <4> QED
        BY <1>1, <3>1, <4>1
    <3>2. CASE i = l + 1
      BY <1>1, <1>2, <3>2
    <3> QED
      BY <1>4, <3>1, <3>2
  <2> QED
    BY <2>1, <2>2 DEF UpTo
<1>13. PrefixOnly(v, f)
  <2> SUFFICES ASSUME NEW i \in 1..Len(v), v[i].of = f PROVE v[i].part = 1
    BY DEF PrefixOnly
  <2>1. i \notin 1..l
    BY <1>1, <1>2, <1>3
  <2> QED
    BY <1>1, <1>2, <1>4, <2>1
<1> QED
  BY <1>6, <1>8, <1>9, <1>10, <1>11, <1>12, <1>13 DEF Sound, Reached

\* The payload of frame n follows its prefix onto the line.
LEMMA SecondSent ==
    ASSUME NEW w \in Seq(Unit), NEW v, NEW got \in SUBSET Frame, NEW s \in Port, NEW n \in Nat \ {0},
           Extended(w, v, Second(FrameOf(s, n))), Sound(w, got), UpTo(w, got, s, n),
           Begins(w, FrameOf(s, n), Len(w)), PrefixOnly(w, FrameOf(s, n))
    PROVE  Sound(v, got) /\ UpTo(v, got, s, n) /\ Reached(v, got, s, n)
<1> DEFINE f == FrameOf(s, n)
           l == Len(w)
<1>1. /\ l \in Nat /\ v \in Seq(Unit) /\ Len(v) = l + 1 /\ v[l + 1] = Second(f)
      /\ \A i \in 1..l : v[i] = w[i]
  BY LineTypes DEF Extended
<1>2. /\ Second(f).of = f /\ Second(f).part = 2 /\ f.source = s /\ f.number = n
      /\ First(f).of = f /\ First(f).part = 1
  BY DEF First, Second, FrameOf
<1>3. \A i \in 1..l : w[i].of.source = s =>
          w[i].of.number < n \/ (w[i].of.number = n /\ w[i].part = 1)
  <2> SUFFICES ASSUME NEW i \in 1..l, w[i].of.source = s
               PROVE  w[i].of.number < n \/ (w[i].of.number = n /\ w[i].part = 1)
    OBVIOUS
  <2>1. w[i].of.number \in Nat /\ w[i].of.number <= n
    BY LineTypes DEF UpTo
  <2>2. w[i].of.number = n => w[i].of = f
    BY LineTypes
  <2> QED
    BY <2>1, <2>2 DEF PrefixOnly
<1>4. \A i \in 1..Len(v) : i \in 1..l \/ i = l + 1
  BY <1>1
<1>5. \A i \in 1..l : \A j \in 1..(i - 1) : j \in 1..l
  BY <1>1
<1>6. Ordered(v)
  <2> SUFFICES ASSUME NEW j \in 1..Len(v), NEW i \in 1..(j - 1), v[i].of.source = v[j].of.source
               PROVE  \/ v[i].of.number < v[j].of.number
                      \/ v[i].of.number = v[j].of.number /\ v[i].part < v[j].part
    BY DEF Ordered
  <2>1. CASE j \in 1..l
    BY <1>1, <1>5, <2>1 DEF Sound, Ordered
  <2>2. CASE j = l + 1
    <3>1. i \in 1..l
      BY <1>1, <2>2
    <3> QED
      BY <1>1, <1>2, <1>3, <2>2, <3>1
  <2> QED
    BY <1>4, <2>1, <2>2
<1>7. \A g, k : k \in 0..l /\ Begins(w, g, k) => Begins(v, g, k)
  BY <1>1 DEF Begins
<1>8. Paired(v)
  <2> SUFFICES ASSUME NEW i \in 1..Len(v), v[i].part = 2 PROVE Begins(v, v[i].of, i - 1)
    BY DEF Paired
  <2>1. CASE i \in 1..l
    <3>1. v[i] = w[i] /\ i - 1 \in 0..l
      BY <1>1, <2>1
    <3>2. Begins(w, w[i].of, i - 1)
      BY <2>1, <3>1 DEF Sound, Paired
    <3> QED
      BY <1>7, <3>1, <3>2
  <2>2. CASE i = l + 1
    <3>1. v[i].of = f /\ i - 1 = l /\ l \in 0..l
      BY <1>1, <1>2, <2>2
    <3> QED
      BY <1>7, <3>1
  <2> QED
    BY <1>4, <2>1, <2>2
<1>9. Behind(v, got)
  <2> SUFFICES ASSUME NEW g \in got, NEW i \in 1..Len(v), g.source = v[i].of.source
               PROVE  g.number < v[i].of.number
    BY DEF Behind
  <2>1. CASE i \in 1..l
    BY <1>1, <2>1 DEF Sound, Behind
  <2>2. CASE i = l + 1
    <3>1. PICK j \in 1..l : w[j] = First(f)
      BY DEF Begins
    <3>2. v[i].of = f /\ w[j].of = f
      BY <1>1, <1>2, <2>2, <3>1
    <3> QED
      BY <3>1, <3>2 DEF Sound, Behind
  <2> QED
    BY <1>4, <2>1, <2>2
<1>10. Chained(v, got)
  <2> SUFFICES ASSUME NEW i \in 1..Len(v), v[i].part = 1
               PROVE  LET t == v[i].of.source
                          g == FrameOf(t, v[i].of.number - 1)
                      IN  \/ Begins(v, g, i - 1) \/ g \in got
                          \/ /\ \A h \in got : h.source # t
                             /\ \A j \in 1..(i - 1) : v[j].of.source # t
    BY DEF Chained
  <2> DEFINE t == w[i].of.source
             g == FrameOf(t, w[i].of.number - 1)
  <2>1. i \in 1..l /\ v[i] = w[i] /\ i - 1 \in 0..l /\ \A j \in 1..(i - 1) : v[j] = w[j]
    BY <1>1, <1>2, <1>4, <1>5
  <2>2. \/ Begins(w, g, i - 1) \/ g \in got
        \/ /\ \A h \in got : h.source # t
           /\ \A j \in 1..(i - 1) : w[j].of.source # t
    BY <2>1 DEF Sound, Chained
  <2>3. Begins(w, g, i - 1) => Begins(v, g, i - 1)
    BY <1>7, <2>1
  <2> QED
    BY <2>1, <2>2, <2>3
<1>11. Reached(v, got, s, n)
  BY <1>1 DEF Begins, Reached
<1>12. UpTo(v, got, s, n)
  <2>1. ASSUME NEW i \in 1..Len(v), v[i].of.source = s PROVE v[i].of.number <= n
    BY <1>1, <1>2, <1>4, <2>1 DEF UpTo
  <2> QED
    BY <2>1 DEF UpTo
<1> QED
  BY <1>6, <1>8, <1>9, <1>10, <1>11, <1>12 DEF Sound

\* What a unit of s on the line means for another source t.
LEMMA OtherSource ==
    ASSUME NEW w \in Seq(Unit), NEW v, NEW got \in SUBSET Frame, NEW u \in Unit,
           Extended(w, v, u), NEW t \in Port, t # u.of.source, NEW n \in Int
    PROVE  /\ UpTo(w, got, t, n) => UpTo(v, got, t, n)
           /\ Known(v, got, t) => Known(w, got, t)
           /\ Reached(w, got, t, n) => Reached(v, got, t, n)
           /\ \A f : f.source = t /\ PrefixOnly(w, f) => PrefixOnly(v, f)
           /\ \A f : Begins(w, f, Len(w)) => Begins(v, f, Len(v))
<1> DEFINE l == Len(w)
<1>1. /\ l \in Nat /\ Len(v) = l + 1 /\ v[l + 1] = u /\ \A i \in 1..l : v[i] = w[i] /\ i \in 1..Len(v)
  BY LineTypes DEF Extended
<1>2. \A i \in 1..Len(v) : v[i].of.source = t => i \in 1..l /\ v[i] = w[i]
  BY <1>1
<1>3. \A f : Begins(w, f, Len(w)) => Begins(v, f, Len(v))
  BY <1>1 DEF Begins
<1>4. \A f : f.source = t /\ PrefixOnly(w, f) => PrefixOnly(v, f)
  BY <1>2 DEF PrefixOnly
<1>5. UpTo(w, got, t, n) => UpTo(v, got, t, n)
  BY <1>2 DEF UpTo
<1>6. Known(v, got, t) => Known(w, got, t)
  BY <1>2 DEF Known
<1>7. Reached(w, got, t, n) => Reached(v, got, t, n)
  BY <1>3 DEF Reached
<1> QED
  BY <1>3, <1>4, <1>5, <1>6, <1>7

\* The participant takes a frame off the line.
Taken(w, v, f) ==
    /\ v \in Seq(Unit) /\ Len(w) = Len(v) + 2
    /\ w[1] = First(f) /\ w[2] = Second(f)
    /\ \A i \in 1..Len(v) : v[i] = w[i + 2]

\* It is the next of its source, and the rest of the line stays sound behind it.
LEMMA FrameTaken ==
    ASSUME NEW w \in Seq(Unit), NEW v, NEW got \in SUBSET Frame, NEW f \in Frame,
           Taken(w, v, f), Sound(w, got)
    PROVE  /\ Sound(v, got \cup {f})
           /\ \A g \in got : g.source = f.source => g.number < f.number
           /\ FrameOf(f.source, f.number - 1) \in got \/ \A g \in got : g.source # f.source
<1> DEFINE l == Len(v)
           got2 == got \cup {f}
<1>1. /\ l \in Nat /\ Len(w) = l + 2 /\ v \in Seq(Unit)
      /\ \A i \in 1..l : v[i] = w[i + 2] /\ i + 2 \in 1..Len(w)
      /\ 1 \in 1..Len(w) /\ 2 \in 1..Len(w)
  BY LineTypes DEF Taken
<1>2. /\ w[1] = First(f) /\ w[2] = Second(f) /\ w[1].of = f /\ w[1].part = 1 /\ w[2].of = f /\ w[2].part = 2
  BY DEF Taken, First, Second
<1>3. \A j \in 1..Len(w) : j = 1 \/ j = 2 \/ (j - 2 \in 1..l /\ w[j] = v[j - 2])
  BY <1>1
<1>4. \A i \in 1..l : w[i + 2].of.source = f.source => f.number < w[i + 2].of.number
  <2> SUFFICES ASSUME NEW i \in 1..l, w[i + 2].of.source = f.source PROVE f.number < w[i + 2].of.number
    OBVIOUS
  <2>1. 2 \in 1..((i + 2) - 1) /\ i + 2 \in 1..Len(w)
    BY <1>1
  <2>2. f.number < w[i + 2].of.number \/ w[2].part < w[i + 2].part
    BY <1>2, <2>1 DEF Sound, Ordered
  <2>3. w[i + 2].part \in 1..2
    BY <2>1, LineTypes
  <2> QED
    BY <1>2, <2>2, <2>3
<1>5. Ordered(v)
  <2> SUFFICES ASSUME NEW j \in 1..l, NEW i \in 1..(j - 1), v[i].of.source = v[j].of.source
               PROVE  \/ v[i].of.number < v[j].of.number
                      \/ v[i].of.number = v[j].of.number /\ v[i].part < v[j].part
    BY DEF Ordered
  <2>1. i \in 1..l /\ i + 2 \in 1..((j + 2) - 1) /\ j + 2 \in 1..Len(w)
    BY <1>1
  <2>2. v[i] = w[i + 2] /\ v[j] = w[j + 2]
    BY <1>1, <2>1
  <2> QED
    BY <2>1, <2>2 DEF Sound, Ordered
<1>6. ASSUME NEW g, NEW i \in 1..l, Begins(w, g, (i + 2) - 1) PROVE g = f \/ Begins(v, g, i - 1)
  <2>1. PICK j \in 1..((i + 2) - 1) : w[j] = First(g)
    BY <1>6 DEF Begins
  <2>2. First(g).of = g /\ First(g).part = 1
    BY DEF First
  <2>3. CASE j = 1 \/ j = 2
    BY <1>2, <2>1, <2>2, <2>3
  <2>4. CASE j # 1 /\ j # 2
    <3>1. j - 2 \in 1..(i - 1) /\ j - 2 \in 1..l
      BY <1>1, <2>1, <2>4
    <3>2. v[j - 2] = w[j]
      BY <1>1, <3>1
    <3> QED
      BY <2>1, <3>1, <3>2 DEF Begins
  <2> QED
    BY <2>3, <2>4
<1>7. Paired(v)
  <2> SUFFICES ASSUME NEW i \in 1..l, v[i].part = 2 PROVE Begins(v, v[i].of, i - 1)
    BY DEF Paired
  <2>1. v[i] = w[i + 2] /\ i + 2 \in 1..Len(w)
    BY <1>1
  <2>2. Begins(w, v[i].of, (i + 2) - 1)
    BY <2>1 DEF Sound, Paired
  <2>3. v[i].of # f
    <3>1. v[i].of.source = f.source => f.number < v[i].of.number
      BY <1>4, <2>1
    <3>2. f.number \in Nat
      BY DEF Frame
    <3> QED
      BY <3>1, <3>2
  <2> QED
    BY <1>6, <2>2, <2>3
<1>8. Behind(v, got2)
  <2> SUFFICES ASSUME NEW g \in got2, NEW i \in 1..l, g.source = v[i].of.source
               PROVE  g.number < v[i].of.number
    BY DEF Behind
  <2>1. v[i] = w[i + 2] /\ i + 2 \in 1..Len(w)
    BY <1>1
  <2>2. CASE g = f
    BY <1>4, <2>1, <2>2
  <2>3. CASE g \in got
    BY <2>1, <2>3 DEF Sound, Behind
  <2> QED
    BY <2>2, <2>3
<1>9. Chained(v, got2)
  <2> SUFFICES ASSUME NEW i \in 1..l, v[i].part = 1
               PROVE  LET t == v[i].of.source
                          g == FrameOf(t, v[i].of.number - 1)
                      IN  \/ Begins(v, g, i - 1) \/ g \in got2
                          \/ /\ \A h \in got2 : h.source # t
                             /\ \A j \in 1..(i - 1) : v[j].of.source # t
    BY DEF Chained
  <2> DEFINE t == v[i].of.source
             g == FrameOf(t, v[i].of.number - 1)
  <2>1. v[i] = w[i + 2] /\ i + 2 \in 1..Len(w)
    BY <1>1
  <2>2. \/ Begins(w, g, (i + 2) - 1) \/ g \in got
        \/ /\ \A h \in got : h.source # t
           /\ \A j \in 1..((i + 2) - 1) : w[j].of.source # t
    BY <2>1 DEF Sound, Chained
  <2>3. Begins(w, g, (i + 2) - 1) => g = f \/ Begins(v, g, i - 1)
    BY <1>6
  <2>4. ASSUME \A h \in got : h.source # t, \A j \in 1..((i + 2) - 1) : w[j].of.source # t
        PROVE  /\ \A h \in got2 : h.source # t
               /\ \A j \in 1..(i - 1) : v[j].of.source # t
    <3>1. 1 \in 1..((i + 2) - 1)
      BY <1>1
    <3>2. f.source # t
      BY <1>2, <2>4, <3>1
    <3>3. \A j \in 1..(i - 1) : j \in 1..l /\ j + 2 \in 1..((i + 2) - 1)
      BY <1>1
    <3> QED
      BY <1>1, <2>4, <3>2, <3>3
  <2> QED
    BY <2>2, <2>3, <2>4
<1>10. \A g \in got : g.source = f.source => g.number < f.number
  BY <1>1, <1>2 DEF Sound, Behind
<1>11. FrameOf(f.source, f.number - 1) \in got \/ \A g \in got : g.source # f.source
  <2>1. ~Begins(w, FrameOf(f.source, f.number - 1), 1 - 1)
    BY DEF Begins
  <2> QED
    BY <1>1, <1>2, <2>1 DEF Sound, Chained
<1> QED
  BY <1>5, <1>7, <1>8, <1>9, <1>10, <1>11 DEF Sound

\* Nothing that is known of a source is lost with it.
LEMMA SourceAfterTaken ==
    ASSUME NEW w \in Seq(Unit), NEW v, NEW got \in SUBSET Frame, NEW f \in Frame,
           Taken(w, v, f), NEW s \in Port, NEW n \in Int
    PROVE  /\ UpTo(w, got, s, n) => UpTo(v, got \cup {f}, s, n)
           /\ Known(v, got \cup {f}, s) => Known(w, got, s)
           /\ Reached(w, got, s, n) => Reached(v, got \cup {f}, s, n)
           /\ \A g : PrefixOnly(w, g) => PrefixOnly(v, g)
           /\ \A g : PrefixOnly(w, g) /\ Begins(w, g, Len(w)) => Begins(v, g, Len(v))
<1> DEFINE l == Len(v)
           got2 == got \cup {f}
<1>1. /\ l \in Nat /\ Len(w) = l + 2
      /\ \A i \in 1..l : v[i] = w[i + 2] /\ i + 2 \in 1..Len(w)
      /\ 1 \in 1..Len(w) /\ 2 \in 1..Len(w)
  BY LineTypes DEF Taken
<1>2. /\ w[1].of = f /\ w[1].part = 1 /\ w[2].of = f /\ w[2].part = 2
  BY DEF Taken, First, Second
<1>3. \A g : Begins(w, g, Len(w)) => g = f \/ Begins(v, g, l)
  <2> SUFFICES ASSUME NEW g, Begins(w, g, Len(w)) PROVE g = f \/ Begins(v, g, l)
    OBVIOUS
  <2>1. PICK j \in 1..Len(w) : w[j] = First(g)
    BY DEF Begins
  <2>2. First(g).of = g /\ First(g).part = 1
    BY DEF First
  <2>3. CASE j = 1 \/ j = 2
    BY <1>2, <2>1, <2>2, <2>3
  <2>4. CASE j # 1 /\ j # 2
    <3>1. j - 2 \in 1..l /\ (j - 2) + 2 = j
      BY <1>1, <2>1, <2>4
    <3>2. v[j - 2] = w[j]
      BY <1>1, <3>1
    <3> QED
      BY <2>1, <3>1, <3>2 DEF Begins
  <2> QED
    BY <2>3, <2>4
<1>4. \A g : PrefixOnly(w, g) => g # f /\ PrefixOnly(v, g)
  <2> SUFFICES ASSUME NEW g, PrefixOnly(w, g) PROVE g # f /\ PrefixOnly(v, g)
    OBVIOUS
  <2>1. g # f
    BY <1>1, <1>2 DEF PrefixOnly
  <2>2. PrefixOnly(v, g)
    BY <1>1 DEF PrefixOnly
  <2> QED
    BY <2>1, <2>2
<1>5. UpTo(w, got, s, n) => UpTo(v, got2, s, n)
  BY <1>1, <1>2 DEF UpTo
<1>6. Known(v, got2, s) => Known(w, got, s)
  BY <1>1, <1>2 DEF Known
<1>7. Reached(w, got, s, n) => Reached(v, got2, s, n)
  BY <1>3 DEF Reached
<1> QED
  BY <1>3, <1>4, <1>5, <1>6, <1>7

\* What a participant has: r in the order of arrival.
Items(r) == {r[i] : i \in DOMAIN r}
Delivered(r, d) ==
    /\ \A i, j \in DOMAIN r : (i < j /\ r[i].source = r[j].source) => r[i].number < r[j].number
    /\ \A f \in Items(r) \ {Corrupt} :
           /\ f.source # d
           /\ \A g \in Items(r) : \A n \in (f.number + 1)..(g.number - 1) :
                  g.source = f.source => [source |-> f.source, number |-> n] \in Items(r)

\* One more.
LEMMA AppendItems ==
    ASSUME NEW S, NEW r \in Seq(S), NEW f \in S
    PROVE  Items(Append(r, f)) = Items(r) \cup {f} /\ Items(r) \subseteq S
<1> DEFINE q == Append(r, f)
           l == Len(r)
<1>1. /\ l \in Nat /\ DOMAIN r = 1..l /\ DOMAIN q = 1..(l + 1) /\ q[l + 1] = f
      /\ \A i \in 1..l : q[i] = r[i] /\ r[i] \in S
  OBVIOUS
<1> HIDE DEF q
<1>2. ASSUME NEW e \in Items(q) PROVE e \in Items(r) \cup {f}
  <2>1. PICK i \in DOMAIN q : e = q[i]
    BY DEF Items
  <2>2. i \in 1..l \/ i = l + 1
    BY <1>1
  <2> QED
    BY <1>1, <2>1, <2>2 DEF Items
<1>3. ASSUME NEW e \in Items(r) PROVE e \in Items(q) /\ e \in S
  <2>1. PICK i \in DOMAIN r : e = r[i]
    BY DEF Items
  <2>2. i \in 1..l /\ i \in DOMAIN q /\ q[i] = e
    BY <1>1, <2>1
  <2> QED
    BY <1>1, <2>1, <2>2 DEF Items
<1>4. f \in Items(q)
  <2>1. l + 1 \in DOMAIN q
    BY <1>1
  <2> QED
    BY <1>1, <2>1 DEF Items
<1> QED
  BY <1>2, <1>3, <1>4 DEF q

\* The next frame of a source leaves it so.
LEMMA NextDelivered ==
    ASSUME NEW r \in Seq(Frame), NEW f \in Frame, NEW d, f.source # d, Delivered(r, d),
           \A g \in Items(r) : g.source = f.source => g.number < f.number,
           FrameOf(f.source, f.number - 1) \in Items(r) \/ \A g \in Items(r) : g.source # f.source
    PROVE  Delivered(Append(r, f), d)
<1> DEFINE q == Append(r, f)
           l == Len(r)
<1>1. /\ l \in Nat /\ DOMAIN r = 1..l /\ q \in Seq(Frame) /\ DOMAIN q = 1..(l + 1) /\ q[l + 1] = f
      /\ \A i \in 1..l : q[i] = r[i] /\ r[i] \in Items(r) /\ r[i] \in Frame
  BY DEF Items
<1> HIDE DEF q
<1>2. \A i \in DOMAIN q : i \in 1..l \/ i = l + 1
  BY <1>1
<1>3. Items(q) = Items(r) \cup {f} /\ Items(r) \subseteq Frame
  BY AppendItems DEF q
<1>4. f.number \in Nat /\ \A g \in Items(r) : g.number \in Nat
  BY <1>3 DEF Frame
<1>5. ASSUME NEW i \in DOMAIN q, NEW j \in DOMAIN q, i < j, q[i].source = q[j].source
      PROVE  q[i].number < q[j].number
  <2>1. i \in 1..l
    BY <1>1, <1>5
  <2>2. CASE j \in 1..l
    BY <1>1, <1>5, <2>1, <2>2 DEF Delivered
  <2>3. CASE j = l + 1
    BY <1>1, <1>5, <2>1, <2>3
  <2> QED
    BY <1>2, <2>2, <2>3
<1>6. ASSUME NEW h \in Items(q) \ {Corrupt}
      PROVE  /\ h.source # d
             /\ \A g \in Items(q) : \A n \in (h.number + 1)..(g.number - 1) :
                    g.source = h.source => [source |-> h.source, number |-> n] \in Items(q)
  <2>1. h.source # d
    BY <1>3 DEF Delivered
  <2>2. ASSUME NEW g \in Items(q), NEW n \in (h.number + 1)..(g.number - 1), g.source = h.source
        PROVE  [source |-> h.source, number |-> n] \in Items(q)
    <3>1. CASE h = f
      <4>1. g.number <= f.number /\ g.number \in Nat
        BY <1>3, <1>4, <2>2, <3>1
      <4> QED
        BY <1>4, <2>2, <3>1, <4>1
    <3>2. CASE h \in Items(r) /\ g \in Items(r)
      BY <1>3, <2>2, <3>2 DEF Delivered
    <3>3. CASE h \in Items(r) /\ g = f
      <4>1. FrameOf(f.source, f.number - 1) \in Items(r)
        BY <2>2, <3>3
      <4> DEFINE e == FrameOf(f.source, f.number - 1)
      <4>2. e.source = h.source /\ e.number = f.number - 1
        BY <2>2, <3>3 DEF FrameOf
      <4>3. CASE n = f.number - 1
        BY <1>3, <2>2, <3>3, <4>1, <4>3 DEF FrameOf
      <4>4. CASE n # f.number - 1
        <5>1. n \in (h.number + 1)..(e.number - 1)
          BY <1>4, <2>2, <3>3, <4>2, <4>4
        <5> QED
          BY <1>3, <3>3, <4>1, <4>2, <5>1 DEF Delivered
      <4> QED
        BY <4>3, <4>4
    <3> QED
      BY <1>3, <3>1, <3>2, <3>3
  <2> QED
    BY <2>1, <2>2
<1> QED
  BY <1>5, <1>6 DEF Delivered, q

-----------------------------------------------------------------------------
(***************************************************************************)
(* The hub: the inductive invariant.                                       *)
(***************************************************************************)

\* The life of a port: a participant whose hub end is closed has lost its own end, and
\* once close() has come to joining nothing is open.
Sockets ==
    /\ \A p \in Port :
           /\ hubEnd[p] = "none" =>
                  /\ peerEnd[p] = "none" /\ thread[p] = "none" /\ p \notin connections
                  /\ received[p] = <<>> /\ partial[p] = <<>> /\ down[p] = <<>>
           /\ hubEnd[p] = "closed" => peerEnd[p] = "closed"
           /\ thread[p] = "remove" => peerEnd[p] = "closed"
           /\ Len(partial[p]) <= 1
    /\ owner \in {"joining", "closed"} => \A p \in Port : hubEnd[p] # "open" /\ peerEnd[p] # "open"
    /\ pcapFile = "open" \/ owner \in {"joining", "closed"}

\* A thread with a frame that is not yet, or that is, in an open file.
Unwritten == {"capture", "header", "payload"}
Written == {"flush", "snapshot", "send", "sendall"}

\* What a thread holds while it forwards.
Threads ==
    \A p \in Port :
        /\ frame[p] = Corrupt \/ frame[p].source = p
        /\ thread[p] \in Unwritten \cup Written => frame[p] \in Frame
        /\ thread[p] \in {"send", "sendall"} => p \notin destinations[p]
        /\ thread[p] = "sendall" =>
               /\ target[p] \in Port \ (destinations[p] \cup {p})
               /\ left[p] = Units(frame[p]) \/ left[p] = <<Second(frame[p])>>

\* What s has still to send to, and what it may come to send to; that has been a port.
Aimed(s, d) ==
    \/ thread[s] \in {"send", "sendall"} /\ d \in destinations[s]
    \/ thread[s] = "sendall" /\ target[s] = d
Served(s, d) == d \in connections \/ Aimed(s, d)
Aims == \A s, d \in Port : Served(s, d) => hubEnd[d] # "none"

\* The frames of a participant come up in the order it sent them.
Upstream ==
    \A p \in Port :
        /\ sent[p] = frame[p].number + Len(up[p]) /\ sent[p] <= Budget[p]
        /\ \A i \in 1..Len(up[p]) : up[p][i] = FrameOf(p, frame[p].number + i)

\* What is beyond the capture is in the file, each frame once; but a thread that
\* close() did not wait for may hold one more, which goes nowhere.
Recorded == Items(pcap)
Captured ==
    /\ \A p \in Port :
           /\ thread[p] \in Written /\ pcapFile = "open" => frame[p] \in Recorded
           /\ \A i \in 1..Len(partial[p]) : partial[p][i].of \in Recorded
           /\ \A i \in 1..Len(down[p]) : down[p][i].of \in Recorded
           /\ Got(p) \ {Corrupt} \subseteq Recorded
           /\ \A i \in 1..Len(pcap) : pcap[i].source = p =>
                  /\ pcap[i].number <= frame[p].number
                  /\ thread[p] \in Unwritten => pcap[i].number # frame[p].number
    /\ \A i, j \in 1..Len(pcap) : pcap[i] = pcap[j] => i = j

\* One thread writes at a time; a header is in front of its own frame as long as the
\* file is open, and one that close() cut off is of no recorded frame.
Locked ==
    /\ \A p, q \in Port : HoldsLock(p) /\ HoldsLock(q) => p = q
    /\ half \notin Recorded
    /\ pcapFile = "open" =>
           /\ half # Corrupt => \E p \in Port : thread[p] = "payload"
           /\ \A p \in Port : thread[p] = "payload" => half = frame[p]

\* The line of a participant.
Wire(d) == partial[d] \o down[d]

\* s has not begun to send d its current frame; the last frame it has begun to send;
\* it has sent half of it.
Ahead(s, d) ==
    \/ thread[s] \in {"capture", "header", "payload", "flush", "snapshot"}
    \/ thread[s] \in {"send", "sendall"} /\ d \in destinations[s]
    \/ thread[s] = "sendall" /\ target[s] = d /\ Len(left[s]) = 2
Begun(s, d) == IF Ahead(s, d) THEN frame[s].number - 1 ELSE frame[s].number
Half(s, d) == thread[s] = "sendall" /\ target[s] = d /\ Len(left[s]) = 1

\* How far the line is with the frames of s.  A participant that s serves, and that has
\* had a frame of s, has all that s has begun to send.
Link(s, d) ==
    /\ UpTo(Wire(d), Got(d), s, Begun(s, d))
    /\ Half(s, d) => PrefixOnly(Wire(d), frame[s])
    /\ Half(s, d) /\ peerEnd[d] = "open" => Begins(Wire(d), frame[s], Len(Wire(d)))
    /\ peerEnd[d] = "open" /\ Served(s, d) /\ Known(Wire(d), Got(d), s) =>
           Reached(Wire(d), Got(d), s, Begun(s, d))

Line(d) ==
    /\ Sound(Wire(d), Got(d)) /\ Delivered(received[d], d)
    /\ \A i \in 1..Len(Wire(d)) : Wire(d)[i].of.source # d
    /\ \A s \in Port : Link(s, d)

\* As long as d has read no frame that two threads mixed.
Lines == \A d \in Port : Corrupt \notin Got(d) => Line(d)

HubInv == TypeOK /\ Sockets /\ Threads /\ Aims /\ Upstream /\ Captured /\ Locked /\ Lines

-----------------------------------------------------------------------------
(***************************************************************************)
(* What every step of the hub keeps.                                       *)
(***************************************************************************)

\* The types, one by one.
LEMMA Types ==
    ASSUME TypeOK
    PROVE  /\ hubEnd \in [Port -> {"none", "open", "closed"}]
           /\ peerEnd \in [Port -> {"none", "open", "closed"}]
           /\ \A p \in Port : /\ Wire(p) \in Seq(Unit)
                              /\ frame[p] \in Frame => frame[p].number \in Nat \ {0}
                              /\ frame[p].number \in Nat
                              /\ Len(up[p]) \in Nat /\ Len(down[p]) \in Nat
  BY SMTT(40) DEF TypeOK, Wire, Frame, Corrupt

\* The two units of a frame.
LEMMA UnitTypes ==
    ASSUME NEW f \in Frame
    PROVE  /\ First(f) \in Unit /\ Second(f) \in Unit /\ First(f) # Second(f)
           /\ Units(f) = <<First(f), Second(f)>> /\ Units(f) \in Seq(Unit) /\ Len(Units(f)) = 2
           /\ Units(f)[1] = First(f) /\ Units(f)[2] = Second(f)
           /\ First(f).of = f /\ First(f).part = 1 /\ Second(f).of = f /\ Second(f).part = 2
           /\ <<Second(f)>> \in Seq(Unit) /\ Len(<<Second(f)>>) = 1 /\ <<Second(f)>>[1] = Second(f)
           /\ f = FrameOf(f.source, f.number) /\ f # Corrupt
<1>1. f = FrameOf(f.source, f.number)
  BY DEF Frame, FrameOf
<1>2. f # Corrupt
  BY DEF Frame, Corrupt
<1>3. First(f) \in Unit /\ Second(f) \in Unit /\ First(f) # Second(f)
  BY DEF First, Second, Unit
<1>4. First(f).of = f /\ First(f).part = 1 /\ Second(f).of = f /\ Second(f).part = 2
  BY DEF First, Second
<1>5. Units(f) = <<First(f), Second(f)>>
  BY DEF First, Second, Units
<1> QED
  BY <1>1, <1>2, <1>3, <1>4, <1>5

\* One sequence behind another.
LEMMA Concatenated ==
    ASSUME NEW S, NEW a \in Seq(S), NEW b \in Seq(S)
    PROVE  /\ a \o b \in Seq(S) /\ Len(a \o b) = Len(a) + Len(b)
           /\ \A i \in 1..Len(a) : (a \o b)[i] = a[i]
           /\ \A i \in 1..Len(b) : (a \o b)[Len(a) + i] = b[i]
  OBVIOUS

\* A sequence of one.
LEMMA Single ==
    ASSUME NEW S, NEW u \in Seq(S), NEW a, Len(u) = 1, u[1] = a
    PROVE  u = <<a>>
<1>1. u = [i \in 1..1 |-> u[i]]
  OBVIOUS
<1>2. <<a>> = [i \in 1..1 |-> a]
  OBVIOUS
<1> QED
  BY <1>1, <1>2

\* And of two.
LEMMA Pair ==
    ASSUME NEW S, NEW a \in S, NEW b \in S
    PROVE  Append(<<a>>, b) = <<a, b>>
<1> DEFINE x == Append(<<a>>, b)
<1>1. x \in Seq(S) /\ Len(x) = 2 /\ x[1] = a /\ x[2] = b
  OBVIOUS
<1> HIDE DEF x
<1>2. x = [i \in 1..2 |-> x[i]]
  BY <1>1
<1>3. <<a, b>> = [i \in 1..2 |-> x[i]]
  BY <1>1
<1> QED
  BY <1>2, <1>3 DEF x

\* What sendall sends and keeps of a packet is always a prefix and the rest.
LEMMA Parts ==
    ASSUME NEW S, NEW a \in S, NEW b \in S
    PROVE  /\ SubSeq(<<a, b>>, 1, 1) = <<a>> /\ SubSeq(<<a, b>>, 1, 2) = <<a, b>>
           /\ SubSeq(<<a, b>>, 1 + 1, 2) = <<b>> /\ SubSeq(<<a, b>>, 2 + 1, 2) = <<>>
           /\ SubSeq(<<b>>, 1, 1) = <<b>> /\ SubSeq(<<b>>, 1 + 1, 1) = <<>>
<1> DEFINE s == <<a, b>>
           t == <<b>>
<1>1. s \in Seq(S) /\ Len(s) = 2 /\ s[1] = a /\ s[2] = b
  OBVIOUS
<1>2. t \in Seq(S) /\ Len(t) = 1 /\ t[1] = b
  OBVIOUS
<1> HIDE DEF s, t
<1>3. SubSeq(s, 1, 1) \in Seq(S) /\ Len(SubSeq(s, 1, 1)) = 1 /\ SubSeq(s, 1, 1)[1] = a
  BY <1>1
<1>4. /\ SubSeq(s, 1 + 1, 2) \in Seq(S) /\ Len(SubSeq(s, 1 + 1, 2)) = 1
      /\ SubSeq(s, 1 + 1, 2)[1] = b
  BY <1>1
<1>5. SubSeq(s, 1, 1) = <<a>> /\ SubSeq(s, 1 + 1, 2) = <<b>>
  BY <1>3, <1>4, Single, ZenonT(60)
<1>6. SubSeq(s, 1, 2) = s /\ SubSeq(s, 2 + 1, 2) = <<>>
  BY <1>1
<1>7. SubSeq(t, 1, 1) = t /\ SubSeq(t, 1 + 1, 1) = <<>>
  BY <1>2
<1> QED
  BY <1>5, <1>6, <1>7 DEF s, t

\* The hub begins in the invariant.
LEMMA HubInit == Init => HubInv
<1> SUFFICES ASSUME Init PROVE HubInv
  OBVIOUS
<1> USE HubAssumption DEF HubAssumption
<1>1. TypeOK
  BY DEF Init, TypeOK
<1>2. Sockets
  BY DEF Init, Sockets
<1>3. Threads
  BY DEF Init, Threads, Unwritten, Written
<1>8. Aims
  BY DEF Init, Aims, Served, Aimed
<1>4. Upstream
  BY DEF Init, Upstream, Corrupt
<1>5. \A p \in Port : Wire(p) = <<>> /\ Got(p) = {} /\ received[p] = <<>> /\ Len(Wire(p)) = 0
  BY DEF Init, Wire, Got
<1>6. Captured
  BY <1>5 DEF Init, Captured, Unwritten, Written
<1>9. Locked
  BY DEF Init, Locked, HoldsLock, Recorded, Items
<1>7. Lines
  <2> SUFFICES ASSUME NEW d \in Port PROVE Line(d)
    BY DEF Lines
  <2>1. Sound(Wire(d), Got(d))
    BY <1>5 DEF Sound, Ordered, Paired, Behind, Chained
  <2>2. Delivered(received[d], d)
    BY <1>5 DEF Delivered, Items
  <2>3. ASSUME NEW s \in Port PROVE Link(s, d)
    BY <1>5 DEF Link, UpTo, Half, PrefixOnly, Known, Init
  <2> QED
    BY <1>5, <2>1, <2>2, <2>3 DEF Line
<1> QED
  BY <1>1, <1>2, <1>3, <1>4, <1>6, <1>7, <1>8, <1>9 DEF HubInv

\* The steps of the owner, of a thread that captures its frame, and of a port.
OwnerStep == Close \/ JoinThreads \/ ClosePcap \/ FinishClose \/ Stopped
CaptureStep(p) == Capture(p) \/ WriteHeader(p) \/ WritePayload(p) \/ Flush(p)
PortStep(p) ==
    \/ NewPort(p) \/ CloseConnection(p) \/ ReceiveFrame(p) \/ ReceiveEnds(p) \/ CaptureStep(p)
    \/ Snapshot(p) \/ (\E d \in Port : NextDestination(p, d)) \/ LoopAgain(p) \/ SendSome(p)
    \/ SendFails(p) \/ RemoveSource(p) \/ Send(p) \/ Receive(p) \/ Leave(p)

\* A step is the owner's or a port's.
LEMMA Steps ==
    ASSUME Next
    PROVE  OwnerStep \/ \E p \in Port : PortStep(p)
  BY DEF Next, Forward, OwnerStep, CaptureStep, PortStep

\* The owner's steps leave the threads, the traffic and the file's content alone.
LEMMA OwnerMoves ==
    ASSUME OwnerStep
    PROVE  /\ UNCHANGED <<hubEnd, peerEnd, threadVars, trafficVars, captureVars>>
           /\ connections' = connections \/ connections' = {}
           /\ pcapFile' = "open" => pcapFile = "open"
  BY DEF OwnerStep, Close, JoinThreads, ClosePcap, FinishClose, Stopped, vars, ownerVars, socketVars

\* A thread that captures its frame moves on towards its destinations, or is stopped by
\* a file that is not open any more.
LEMMA CaptureMoves ==
    ASSUME TypeOK, NEW p \in Port, CaptureStep(p)
    PROVE  /\ UNCHANGED <<ownerVars, socketVars, frame, destinations, target, left, trafficVars>>
           /\ thread[p] \in {"capture", "header", "payload", "flush"}
           /\ thread' = [thread EXCEPT ![p] = thread'[p]]
           /\ \A q \in Port : q # p => thread'[q] = thread[q]
           /\ \/ thread'[p] \in {"header", "payload", "flush", "snapshot"}
              \/ thread'[p] = "remove" /\ pcapFile # "open"
<1>1. CASE Capture(p)
  BY <1>1 DEF Capture, Step, TypeOK
<1>2. CASE WriteHeader(p)
  BY <1>2 DEF WriteHeader, Step, TypeOK
<1>3. CASE WritePayload(p)
  BY <1>3 DEF WritePayload, Step, TypeOK
<1>4. CASE Flush(p)
  BY <1>4 DEF Flush, Step, TypeOK
<1> QED
  BY <1>1, <1>2, <1>3, <1>4 DEF CaptureStep

\* Every operation keeps the types.
LEMMA TypesKept ==
    ASSUME TypeOK, Sockets, Threads, Next
    PROVE  TypeOK'
<1> USE HubAssumption DEF HubAssumption
<1>t. /\ hubEnd \in [Port -> {"none", "open", "closed"}]
      /\ peerEnd \in [Port -> {"none", "open", "closed"}]
  BY Types
<1>1. CASE OwnerStep
  <2>1. /\ owner' \in {"running", "closing", "joining", "closed"}
        /\ pcapFile' \in {"open", "closed", "none"} /\ connections' \subseteq Port
    BY <1>1 DEF TypeOK, OwnerStep, Close, JoinThreads, ClosePcap, FinishClose, Stopped,
                vars, ownerVars, socketVars
  <2> QED
    BY <1>t, <1>1, <2>1, OwnerMoves DEF TypeOK, threadVars, trafficVars, captureVars
<1> SUFFICES ASSUME NEW p \in Port,
                    \/ NewPort(p) \/ CloseConnection(p) \/ Forward(p)
                    \/ Send(p) \/ Receive(p) \/ Leave(p)
             PROVE  TypeOK'
  BY <1>1 DEF Next, OwnerStep
<1> USE DEF captureVars
<1>2. CASE NewPort(p)
  BY <1>t, <1>2 DEF TypeOK, NewPort, ownerVars, trafficVars
<1>6. CASE CloseConnection(p)
  BY <1>t, <1>6 DEF TypeOK, CloseConnection, ownerVars, threadVars, trafficVars
<1>7. CASE Leave(p)
  BY <1>t, <1>7 DEF TypeOK, Leave, ownerVars, threadVars, trafficVars
<1>3. CASE Send(p)
  <2>1. [source |-> p, number |-> sent[p] + 1] \in Frame
    BY DEF TypeOK, Frame
  <2>2. up' \in [Port -> Seq(Frame)] /\ sent' \in [Port -> Nat]
    BY <1>3, <2>1, SMTT(40) DEF TypeOK, Send
  <2> QED
    BY <1>3, <2>2 DEF TypeOK, Send, ownerVars, socketVars, threadVars
<1>4. CASE Receive(p)
  <2> DEFINE units == Append(partial[p], Head(down[p]))
  <2>1. /\ down[p] \in Seq(Unit) /\ down[p] # <<>> /\ partial[p] \in Seq(Unit)
        /\ Len(down[p]) <= Room
    BY <1>4 DEF TypeOK, Receive
  <2>2. Head(down[p]) \in Unit /\ Tail(down[p]) \in Seq(Unit) /\ Len(Tail(down[p])) <= Room
    BY <2>1
  <2>3. units \in Seq(Unit)
    BY <2>1, <2>2
  <2>4. Len(units) >= 2 => Assemble(units) \in Frame \cup {Corrupt}
    <3> SUFFICES ASSUME Len(units) >= 2 PROVE Assemble(units) \in Frame \cup {Corrupt}
      OBVIOUS
    <3>1. units[1] \in Unit
      BY <2>3
    <3> HIDE DEF units
    <3>2. units[1].of \in Frame
      BY <3>1 DEF Unit
    <3> QED
      BY <3>2 DEF Assemble
  <2> HIDE DEF units
  <2>5. partial' \in [Port -> Seq(Unit)] /\ received' \in [Port -> Seq(Frame \cup {Corrupt})]
    <3>1. CASE Len(units) < 2
      BY <1>4, <2>3, <3>1 DEF Receive, TypeOK, units
    <3>2. CASE ~(Len(units) < 2)
      <4>1. Assemble(units) \in Frame \cup {Corrupt}
        BY <2>3, <2>4, <3>2
      <4>2. /\ partial' = [partial EXCEPT ![p] = <<>>]
            /\ received' = [received EXCEPT ![p] = Append(@, Assemble(units))]
        BY <1>4, <3>2 DEF Receive, units
      <4> QED
        BY <4>1, <4>2, SMTT(40) DEF TypeOK
    <3> QED
      BY <3>1, <3>2
  <2>6. down' \in [Port -> Seq(Unit)] /\ \A q \in Port : Len(down'[q]) <= Room
    BY <1>4, <2>2 DEF Receive, TypeOK
  <2> QED
    BY <1>4, <2>5, <2>6 DEF TypeOK, Receive, ownerVars, socketVars, threadVars
<1>5. CASE Forward(p)
  <2>1. CASE ReceiveFrame(p)
    <3>1. Head(up[p]) \in Frame /\ Tail(up[p]) \in Seq(Frame)
      BY <2>1 DEF ReceiveFrame, TypeOK
    <3> QED
      BY <2>1, <3>1 DEF TypeOK, ReceiveFrame, Step, ownerVars, socketVars
  <2>2. CASE ReceiveEnds(p)
    BY <2>2 DEF TypeOK, ReceiveEnds, Step, ownerVars, socketVars, trafficVars
  <2>9. CASE LoopAgain(p)
    BY <2>9 DEF TypeOK, LoopAgain, Step, ownerVars, socketVars, trafficVars
  <2>3. CASE CaptureStep(p)
    <3>1. frame[p] \in Frame
      BY <2>3, CaptureMoves DEF Threads, Unwritten, Written
    <3>2. pcap' \in Seq(Frame) /\ half' \in Frame \cup {Corrupt}
      <4>1. CASE Capture(p) \/ Flush(p)
        BY <4>1 DEF TypeOK, Capture, Flush
      <4>2. CASE WriteHeader(p)
        BY <3>1, <4>2 DEF TypeOK, WriteHeader
      <4>3. CASE WritePayload(p)
        BY <3>1, <4>3 DEF TypeOK, WritePayload
      <4> QED
        BY <2>3, <4>1, <4>2, <4>3 DEF CaptureStep
    <3>3. thread' \in [Port -> {"none", "receive", "capture", "header", "payload", "flush",
                               "snapshot", "send", "sendall", "remove", "ended"}]
      BY <2>3, CaptureMoves DEF TypeOK
    <3>4. UNCHANGED <<ownerVars, socketVars, frame, destinations, target, left, trafficVars>>
      BY <2>3, CaptureMoves
    <3> QED
      BY <1>t, <3>2, <3>3, <3>4 DEF TypeOK, ownerVars, socketVars, trafficVars
  <2>4. CASE Snapshot(p)
    <3>1. connections \ {p} \in SUBSET Port
      BY DEF TypeOK
    <3> QED
      BY <2>4, <3>1 DEF TypeOK, Snapshot, Step, ownerVars, socketVars, trafficVars
  <2>5. CASE \E d \in Port : NextDestination(p, d)
    <3>1. PICK d \in Port : NextDestination(p, d)
      BY <2>5
    <3>2. frame[p] \in Frame
      BY <3>1 DEF NextDestination, Step, Threads, Written
    <3>3. Units(frame[p]) \in Seq(Unit)
      BY <3>2, UnitTypes
    <3>4. destinations[p] \ {d} \in SUBSET Port
      BY DEF TypeOK
    <3> QED
      BY <3>1, <3>3, <3>4 DEF TypeOK, NextDestination, Step, ownerVars, socketVars, trafficVars
  <2>6. CASE SendSome(p)
    <3> DEFINE d == target[p]
               n == Portion(p)
    <3>1. d \in Port /\ left[p] \in Seq(Unit) /\ down[d] \in Seq(Unit) /\ Len(down[d]) <= Room
      BY <2>6 DEF SendSome, Threads, TypeOK
    <3>2. n \in Int /\ n <= Len(left[p]) /\ n <= Room - Len(down[d]) /\ n > 0
      <4> DEFINE room == Room - Len(down[d])
                 k == Len(left[p])
      <4>1. n > 0
        BY <2>6 DEF SendSome
      <4>2. n = IF room < k THEN room ELSE k
        BY DEF Portion
      <4>3. k \in Int /\ room \in Int
        BY <3>1, HubAssumption
      <4> HIDE DEF n, room, k
      <4>4. n \in Int /\ n <= k /\ n <= room
        BY <4>2, <4>3
      <4> QED
        BY <4>1, <4>4 DEF room, k
    <3> HIDE DEF n
    <3>3. SubSeq(left[p], 1, n) \in Seq(Unit) /\ Len(SubSeq(left[p], 1, n)) = n
      BY <3>1, <3>2
    <3>4. SubSeq(left[p], n + 1, Len(left[p])) \in Seq(Unit)
      BY <3>1, <3>2
    <3>5. down[d] \o SubSeq(left[p], 1, n) \in Seq(Unit) /\ Len(down[d] \o SubSeq(left[p], 1, n)) <= Room
      <4> DEFINE x == SubSeq(left[p], 1, n)
      <4>1. x \in Seq(Unit) /\ Len(x) = n
        BY <3>3
      <4> HIDE DEF x
      <4> DEFINE y == down[d]
      <4>2. y \in Seq(Unit) /\ n <= Room - Len(y)
        BY <3>1, <3>2
      <4> HIDE DEF y
      <4>3. y \o x \in Seq(Unit) /\ Len(y \o x) = Len(y) + Len(x) /\ Len(y) \in Nat
        BY <4>1, <4>2, Concatenated
      <4>4. Len(y \o x) <= Room
        BY <3>2, <4>1, <4>2, <4>3
      <4> QED
        BY <4>3, <4>4 DEF x, y
    <3>6. /\ down' = [down EXCEPT ![d] = @ \o SubSeq(left[p], 1, n)]
          /\ left' = [left EXCEPT ![p] = SubSeq(@, n + 1, Len(@))]
          /\ thread' = [thread EXCEPT ![p] = IF n = Len(left[p]) THEN "send" ELSE @]
      BY <2>6 DEF SendSome, n
    <3>7. down' \in [Port -> Seq(Unit)] /\ \A q \in Port : Len(down'[q]) <= Room
      BY <3>1, <3>5, <3>6 DEF TypeOK
    <3>8. /\ left' \in [Port -> Seq(Unit)]
          /\ thread' \in [Port -> {"none", "receive", "capture", "header", "payload", "flush",
                                  "snapshot", "send", "sendall", "remove", "ended"}]
      BY <3>4, <3>6 DEF TypeOK
    <3> QED
      BY <2>6, <3>7, <3>8 DEF TypeOK, SendSome, ownerVars, socketVars
  <2>7. CASE SendFails(p)
    <3>1. /\ connections' \subseteq Port /\ hubEnd' \in [Port -> {"none", "open", "closed"}]
          /\ thread' = [thread EXCEPT ![p] = "send"] /\ peerEnd' = peerEnd
      BY <1>t, <2>7 DEF TypeOK, SendFails, Step
    <3> QED
      <4>1. UNCHANGED <<ownerVars, peerEnd, frame, destinations, target, left, trafficVars, captureVars>>
        BY <2>7 DEF SendFails
      <4> QED
        BY <1>t, <3>1, <4>1 DEF TypeOK, ownerVars, trafficVars
  <2>8. CASE RemoveSource(p)
    BY <1>t, <2>8 DEF TypeOK, RemoveSource, Step, ownerVars, trafficVars
  <2> QED
    BY <1>5, <2>1, <2>2, <2>3, <2>4, <2>5, <2>6, <2>7, <2>8, <2>9 DEF Forward, CaptureStep
<1> QED
  BY <1>2, <1>3, <1>4, <1>5, <1>6, <1>7

\* What of a port's state each step of a thread leaves alone.
LEMMA SendSomeStep ==
    ASSUME TypeOK, Threads, NEW p \in Port, SendSome(p)
    PROVE  LET d == target[p]
               f == frame[p]
           IN  /\ f \in Frame /\ d \in Port /\ d # p /\ d \notin destinations[p] /\ p \notin destinations[p]
               /\ thread[p] = "sendall" /\ hubEnd[d] = "open" /\ peerEnd[d] = "open"
               /\ \/ /\ left[p] = Units(f) /\ left' = [left EXCEPT ![p] = <<Second(f)>>]
                     /\ thread' = thread
                     /\ down' = [down EXCEPT ![d] = @ \o <<First(f)>>]
                  \/ /\ left[p] = Units(f) /\ left' = [left EXCEPT ![p] = <<>>]
                     /\ thread' = [thread EXCEPT ![p] = "send"]
                     /\ down' = [down EXCEPT ![d] = @ \o Units(f)]
                  \/ /\ left[p] = <<Second(f)>> /\ left' = [left EXCEPT ![p] = <<>>]
                     /\ thread' = [thread EXCEPT ![p] = "send"]
                     /\ down' = [down EXCEPT ![d] = @ \o <<Second(f)>>]
<1> DEFINE d == target[p]
           f == frame[p]
           n == Portion(p)
<1>1. /\ f \in Frame /\ d \in Port /\ d # p /\ d \notin destinations[p] /\ p \notin destinations[p]
      /\ thread[p] = "sendall" /\ hubEnd[d] = "open" /\ peerEnd[d] = "open"
      /\ left[p] = Units(f) \/ left[p] = <<Second(f)>>
  BY DEF Threads, SendSome, Written
<1>2. /\ down' = [down EXCEPT ![d] = @ \o SubSeq(left[p], 1, n)]
      /\ left' = [left EXCEPT ![p] = SubSeq(@, n + 1, Len(@))]
      /\ thread' = [thread EXCEPT ![p] = IF n = Len(left[p]) THEN "send" ELSE @]
  BY DEF SendSome
<1>3. n \in Int /\ n <= Len(left[p]) /\ n > 0
  <2>1. left[p] \in Seq(Unit) /\ down[d] \in Seq(Unit)
    BY <1>1 DEF TypeOK
  <2> QED
    BY <2>1, HubAssumption DEF SendSome, Portion, HubAssumption
<1>4. /\ thread \in [Port -> {"none", "receive", "capture", "header", "payload", "flush",
                             "snapshot", "send", "sendall", "remove", "ended"}]
      /\ left \in [Port -> Seq(Unit)]
  BY DEF TypeOK
<1> HIDE DEF n
<1>5. CASE left[p] = Units(f)
  <2>1. /\ SubSeq(Units(f), 1, 1) = <<First(f)>> /\ SubSeq(Units(f), 1, 2) = Units(f)
        /\ SubSeq(Units(f), 1 + 1, 2) = <<Second(f)>> /\ SubSeq(Units(f), 2 + 1, 2) = <<>>
        /\ Len(Units(f)) = 2
    <3>1. /\ First(f) \in Unit /\ Second(f) \in Unit /\ Units(f) = <<First(f), Second(f)>>
          /\ Len(Units(f)) = 2
      BY <1>1, UnitTypes
    <3> DEFINE a == First(f)
               b == Second(f)
    <3>2. /\ SubSeq(<<a, b>>, 1, 1) = <<a>> /\ SubSeq(<<a, b>>, 1, 2) = <<a, b>>
          /\ SubSeq(<<a, b>>, 1 + 1, 2) = <<b>> /\ SubSeq(<<a, b>>, 2 + 1, 2) = <<>>
      BY <3>1, Parts, ZenonT(60)
    <3> HIDE DEF a, b
    <3>3. Units(f) = <<a, b>>
      BY <3>1 DEF a, b
    <3> QED
      BY <3>1, <3>2, <3>3 DEF a, b
  <2>2. n = 1 \/ n = 2
    BY <1>3, <1>5, <2>1
  <2>3. CASE n = 1
    <3>1. /\ down' = [down EXCEPT ![d] = @ \o <<First(f)>>]
          /\ left' = [left EXCEPT ![p] = <<Second(f)>>]
      BY <1>2, <1>5, <2>1, <2>3
    <3>2. thread' = thread
      BY <1>2, <1>4, <1>5, <2>1, <2>3
    <3> QED
      BY <1>1, <1>5, <3>1, <3>2
  <2>4. CASE n = 2
    <3>1. /\ down' = [down EXCEPT ![d] = @ \o Units(f)]
          /\ left' = [left EXCEPT ![p] = <<>>] /\ thread' = [thread EXCEPT ![p] = "send"]
      BY <1>2, <1>5, <2>1, <2>4
    <3> QED
      BY <1>1, <1>5, <3>1
  <2> QED
    BY <2>2, <2>3, <2>4
<1>6. CASE left[p] = <<Second(f)>>
  <2>1. /\ SubSeq(<<Second(f)>>, 1, 1) = <<Second(f)>> /\ SubSeq(<<Second(f)>>, 1 + 1, 1) = <<>>
        /\ Len(<<Second(f)>>) = 1
    BY <1>1, UnitTypes, Parts
  <2>2. n = 1
    BY <1>3, <1>6, <2>1
  <2>3. /\ down' = [down EXCEPT ![d] = @ \o <<Second(f)>>]
        /\ left' = [left EXCEPT ![p] = <<>>] /\ thread' = [thread EXCEPT ![p] = "send"]
    BY <1>2, <1>6, <2>1, <2>2
  <2> QED
    BY <1>1, <1>6, <2>3
<1> QED
  BY <1>1, <1>5, <1>6

\* Every step keeps what ends of what sockets are open.
LEMMA SocketsKept ==
    ASSUME TypeOK, Sockets, Threads, Next
    PROVE  Sockets'
<1>t. /\ hubEnd \in [Port -> {"none", "open", "closed"}]
      /\ peerEnd \in [Port -> {"none", "open", "closed"}]
  BY Types
<1> USE DEF Sockets, TypeOK
<1>1. CASE OwnerStep
  BY <1>1 DEF OwnerStep, Close, JoinThreads, ClosePcap, FinishClose, Stopped, vars, ownerVars, socketVars,
              threadVars, trafficVars
<1> SUFFICES ASSUME NEW p \in Port, PortStep(p) PROVE Sockets'
  BY <1>1, Steps
<1>2. CASE NewPort(p)
  BY <1>t, <1>2 DEF NewPort, ownerVars, trafficVars
<1>3. CASE CloseConnection(p)
  BY <1>t, <1>3 DEF CloseConnection, ownerVars, threadVars, trafficVars
<1>4. CASE ReceiveFrame(p)
  BY <1>4 DEF ReceiveFrame, Step, ownerVars, socketVars
<1>5. CASE ReceiveEnds(p)
  BY <1>t, <1>5 DEF ReceiveEnds, Step, ownerVars, socketVars, trafficVars
<1>6. CASE CaptureStep(p)
  <2>1. UNCHANGED <<ownerVars, socketVars, trafficVars>>
    BY <1>6, CaptureMoves
  <2>2. \A q \in Port : q # p => thread'[q] = thread[q]
    BY <1>6, CaptureMoves
  <2>3. thread[p] # "none" /\ (thread'[p] = "remove" => peerEnd[p] = "closed")
    BY <1>t, <1>6, CaptureMoves
  <2> QED
    BY <2>1, <2>2, <2>3 DEF ownerVars, socketVars, trafficVars
<1>7. CASE Snapshot(p)
  BY <1>7 DEF Snapshot, Step, ownerVars, socketVars, trafficVars
<1>8. CASE \E d \in Port : NextDestination(p, d)
  <2>1. PICK d \in Port : NextDestination(p, d)
    BY <1>8
  <2>2. thread[p] = "send" /\ thread' = [thread EXCEPT ![p] = "sendall"]
    BY <2>1 DEF NextDestination, Step
  <2>3. UNCHANGED <<ownerVars, socketVars, trafficVars>>
    BY <2>1 DEF NextDestination
  <2> QED
    BY <2>2, <2>3 DEF ownerVars, socketVars, trafficVars
<1>9. CASE LoopAgain(p)
  BY <1>9 DEF LoopAgain, Step, ownerVars, socketVars, trafficVars
<1>10. CASE SendSome(p)
  <2>1. /\ target[p] \in Port /\ hubEnd[target[p]] = "open" /\ thread[p] = "sendall"
        /\ thread' = thread \/ thread' = [thread EXCEPT ![p] = "send"]
    BY <1>10, SendSomeStep
  <2>2. \A q \in Port : q # target[p] => down'[q] = down[q]
    BY <1>10 DEF SendSome
  <2> QED
    BY <1>10, <2>1, <2>2, ZenonT(60) DEF SendSome, ownerVars, socketVars
<1>11. CASE SendFails(p)
  <2>1. target[p] \in Port /\ peerEnd[target[p]] = "closed" /\ hubEnd[target[p]] # "none"
    BY <1>t, <1>11 DEF SendFails, Step, Threads
  <2> QED
    BY <1>t, <1>11, <2>1, ZenonT(60) DEF SendFails, Step, ownerVars, trafficVars
<1>12. CASE RemoveSource(p)
  BY <1>t, <1>12 DEF RemoveSource, Step, ownerVars, trafficVars
<1>13. CASE Send(p)
  BY <1>13 DEF Send, ownerVars, socketVars, threadVars
<1>14. CASE Receive(p)
  <2>1. /\ peerEnd[p] = "open" /\ hubEnd[p] = "open"
        /\ \A q \in Port \ {p} : down'[q] = down[q] /\ partial'[q] = partial[q] /\ received'[q] = received[q]
    BY <1>t, <1>14, ZenonT(60) DEF Receive
  <2>2. Len(partial'[p]) <= 1
    <3> DEFINE units == Append(partial[p], Head(down[p]))
    <3>1. Len(units) \in Nat
      OBVIOUS
    <3> HIDE DEF units
    <3> QED
      BY <1>14, <3>1 DEF Receive, units
  <2>3. UNCHANGED <<owner, pcapFile, connections, hubEnd, peerEnd, thread>>
    BY <1>14 DEF Receive, ownerVars, socketVars, threadVars
  <2>4. \A q \in Port : Len(partial'[q]) <= 1
    BY <2>1, <2>2
  <2> QED
    BY <2>1, <2>3, <2>4
<1>15. CASE Leave(p)
  BY <1>t, <1>15 DEF Leave, ownerVars, threadVars, trafficVars
<1> QED
  BY <1>2, <1>3, <1>4, <1>5, <1>6, <1>7, <1>8, <1>9, <1>10, <1>11, <1>12, <1>13, <1>14, <1>15 DEF PortStep

\* A frame taken from a participant is its next one.
LEMMA NextFrame ==
    ASSUME TypeOK, Upstream, NEW p \in Port, ReceiveFrame(p)
    PROVE  /\ thread[p] = "receive" /\ thread' = [thread EXCEPT ![p] = "capture"]
           /\ frame[p].number \in Nat
           /\ frame' = [frame EXCEPT ![p] = FrameOf(p, frame[p].number + 1)]
           /\ frame'[p] \in Frame /\ frame'[p].source = p /\ frame'[p].number = frame[p].number + 1
           /\ up[p] \in Seq(Frame) /\ Len(up[p]) > 0 /\ up' = [up EXCEPT ![p] = Tail(up[p])]
<1>1. up[p] \in Seq(Frame) /\ up[p] # <<>> /\ frame[p].number \in Nat
  BY Types DEF ReceiveFrame, TypeOK
<1>2. Len(up[p]) > 0 /\ Head(up[p]) = up[p][1]
  BY <1>1
<1>3. Head(up[p]) = FrameOf(p, frame[p].number + 1)
  BY <1>1, <1>2 DEF Upstream
<1>4. FrameOf(p, frame[p].number + 1) \in Frame
  BY <1>1 DEF Frame, FrameOf
<1>5. frame' = [frame EXCEPT ![p] = FrameOf(p, frame[p].number + 1)]
  BY <1>3 DEF ReceiveFrame
<1>6. frame'[p] = FrameOf(p, frame[p].number + 1)
  BY <1>5 DEF TypeOK
<1>7. frame'[p] \in Frame /\ frame'[p].source = p /\ frame'[p].number = frame[p].number + 1
  <2> DEFINE n == frame[p].number + 1
  <2>1. frame'[p] = FrameOf(p, n) /\ FrameOf(p, n) \in Frame
    BY <1>4, <1>6
  <2> HIDE DEF n
  <2>2. frame'[p] \in Frame /\ frame'[p].source = p /\ frame'[p].number = n
    BY <2>1 DEF FrameOf
  <2> QED
    BY <2>2 DEF n
<1>8. /\ thread[p] = "receive" /\ thread' = [thread EXCEPT ![p] = "capture"]
      /\ up' = [up EXCEPT ![p] = Tail(up[p])]
  BY DEF ReceiveFrame, Step
<1> QED
  BY <1>1, <1>2, <1>5, <1>7, <1>8

\* Every step keeps what the threads hold.
LEMMA ThreadsKept ==
    ASSUME TypeOK, Threads, Upstream, Next
    PROVE  Threads'
<1> USE DEF Threads, TypeOK, Unwritten, Written
<1>1. CASE OwnerStep
  BY <1>1, OwnerMoves DEF threadVars
<1> SUFFICES ASSUME NEW p \in Port, PortStep(p) PROVE Threads'
  BY <1>1, Steps
<1>2. CASE NewPort(p)
  BY <1>2 DEF NewPort
<1>3. CASE CloseConnection(p) \/ Send(p) \/ Receive(p) \/ Leave(p)
  <2>1. UNCHANGED threadVars
    BY <1>3 DEF CloseConnection, Send, Receive, Leave
  <2> QED
    BY <2>1 DEF threadVars
<1>4. CASE ReceiveFrame(p)
  <2>1. UNCHANGED <<destinations, target, left>>
    BY <1>4 DEF ReceiveFrame
  <2>2. /\ thread' = [thread EXCEPT ![p] = "capture"]
        /\ frame'[p] \in Frame /\ frame'[p].source = p
    BY <1>4, NextFrame
  <2>3. \A q \in Port : q # p => frame'[q] = frame[q] /\ thread'[q] = thread[q]
    BY <1>4 DEF ReceiveFrame, Step
  <2>4. thread'[p] = "capture"
    BY <2>2
  <2>5. ASSUME NEW q \in Port
        PROVE  /\ frame'[q] = Corrupt \/ frame'[q].source = q
               /\ thread'[q] \in Unwritten \cup Written => frame'[q] \in Frame
               /\ thread'[q] \in {"send", "sendall"} => q \notin destinations'[q]
               /\ thread'[q] = "sendall" =>
                      /\ target'[q] \in Port \ (destinations'[q] \cup {q})
                      /\ left'[q] = Units(frame'[q]) \/ left'[q] = <<Second(frame'[q])>>
    <3>1. CASE q = p
      BY <2>2, <2>4, <3>1, ZenonT(60)
    <3>2. CASE q # p
      BY <2>1, <2>3, <3>2, ZenonT(60)
    <3> QED
      BY <3>1, <3>2
  <2> QED
    BY <2>5
<1>5. CASE ReceiveEnds(p)
  BY <1>5, SMTT(40) DEF ReceiveEnds, Step
<1>11. CASE CaptureStep(p)
  <2>1. /\ UNCHANGED <<frame, destinations, target, left>>
        /\ \A q \in Port : q # p => thread'[q] = thread[q]
        /\ frame[p] \in Frame /\ thread'[p] \notin {"send", "sendall"}
    BY <1>11, CaptureMoves
  <2> QED
    BY <2>1, ZenonT(60)
<1>12. CASE LoopAgain(p)
  BY <1>12 DEF LoopAgain, Step
<1>6. CASE Snapshot(p)
  BY <1>6, ZenonT(60) DEF Snapshot, Step
<1>7. CASE \E d \in Port : NextDestination(p, d)
  <2>1. PICK d \in Port : NextDestination(p, d)
    BY <1>7
  <2> QED
    BY <2>1, ZenonT(60) DEF NextDestination, Step
<1>8. CASE SendSome(p)
  <2>1. UNCHANGED <<frame, destinations, target>>
    BY <1>8 DEF SendSome
  <2>2. thread[p] = "sendall"
        /\ \/ left' = [left EXCEPT ![p] = <<Second(frame[p])>>] /\ thread' = thread
           \/ left' = [left EXCEPT ![p] = <<>>] /\ thread' = [thread EXCEPT ![p] = "send"]
    BY <1>8, SendSomeStep
  <2>3. CASE left' = [left EXCEPT ![p] = <<Second(frame[p])>>] /\ thread' = thread
    BY <2>1, <2>3
  <2>4. CASE left' = [left EXCEPT ![p] = <<>>] /\ thread' = [thread EXCEPT ![p] = "send"]
    BY <2>1, <2>2, <2>4, ZenonT(60)
  <2> QED
    BY <2>2, <2>3, <2>4
<1>9. CASE SendFails(p)
  BY <1>9, ZenonT(60) DEF SendFails, Step
<1>10. CASE RemoveSource(p)
  BY <1>10 DEF RemoveSource, Step
<1> QED
  BY <1>2, <1>3, <1>4, <1>5, <1>6, <1>7, <1>8, <1>9, <1>10, <1>11, <1>12 DEF PortStep

\* Every step keeps the order in which the frames come up.
LEMMA UpstreamKept ==
    ASSUME TypeOK, Upstream, Next
    PROVE  Upstream'
<1>1. CASE UNCHANGED <<sent, frame, up>>
  BY <1>1 DEF Upstream
<1>2. CASE OwnerStep
  BY <1>1, <1>2, OwnerMoves DEF threadVars, trafficVars
<1> SUFFICES ASSUME NEW p \in Port, PortStep(p) PROVE Upstream'
  BY <1>2, Steps
<1> SUFFICES ASSUME NEW q \in Port
             PROVE  /\ sent'[q] = frame'[q].number + Len(up'[q]) /\ sent'[q] <= Budget[q]
                    /\ \A i \in 1..Len(up'[q]) : up'[q][i] = FrameOf(q, frame'[q].number + i)
  BY DEF Upstream
<1>3. /\ frame[q].number \in Nat /\ up[q] \in Seq(Frame) /\ sent[q] \in Nat /\ Budget[q] \in Nat
      /\ sent[q] = frame[q].number + Len(up[q]) /\ sent[q] <= Budget[q]
      /\ \A i \in 1..Len(up[q]) : up[q][i] = FrameOf(q, frame[q].number + i)
  BY Types, HubAssumption DEF TypeOK, Upstream, HubAssumption
<1>4. CASE ReceiveFrame(p)
  <2>0. sent' = sent
    BY <1>4 DEF ReceiveFrame
  <2>1. CASE q # p
    BY <1>3, <1>4, <2>0, <2>1 DEF ReceiveFrame
  <2>2. CASE q = p
    <3> DEFINE r == up[p]
               t == Tail(r)
    <3>1. /\ up'[p] = t /\ frame'[p].number = frame[p].number + 1 /\ Len(r) > 0 /\ r \in Seq(Frame)
      <4>1. up'[p] = t
        BY <1>4 DEF ReceiveFrame, TypeOK
      <4> QED
        BY <1>4, <4>1, NextFrame
    <3>2. Len(t) = Len(r) - 1 /\ \A i \in 1..Len(t) : t[i] = r[i + 1] /\ i + 1 \in 1..Len(r)
      BY <3>1
    <3> HIDE DEF r, t
    <3>3. /\ sent[p] = frame[p].number + Len(r) /\ Len(r) \in Nat /\ frame[p].number \in Nat
          /\ sent[p] <= Budget[p] /\ \A i \in 1..Len(r) : r[i] = FrameOf(p, frame[p].number + i)
      BY <1>3, <2>2 DEF r
    <3>4. sent'[p] = frame'[p].number + Len(up'[p]) /\ sent'[p] <= Budget[p]
      BY <1>3, <2>0, <2>2, <3>1, <3>2, <3>3
    <3>5. ASSUME NEW i \in 1..Len(t) PROVE t[i] = FrameOf(p, frame'[p].number + i)
      <4>1. t[i] = FrameOf(p, frame[p].number + (i + 1))
        BY <3>2, <3>3
      <4>2. frame[p].number + (i + 1) = frame'[p].number + i
        <5>1. i \in Int /\ frame[p].number \in Int /\ frame'[p].number = frame[p].number + 1
          BY <3>1, <3>3
        <5> QED
          BY <5>1
      <4> QED
        BY <4>1, <4>2
    <3> QED
      BY <2>2, <3>1, <3>4, <3>5
  <2> QED
    BY <2>1, <2>2
<1>5. CASE Send(p)
  <2>0. frame' = frame
    BY <1>5 DEF Send, threadVars
  <2>1. CASE q # p
    BY <1>3, <1>5, <2>0, <2>1 DEF Send
  <2>2. CASE q = p
    <3> DEFINE r == up[p]
               g == FrameOf(p, sent[p] + 1)
               t == Append(r, g)
    <3>1. up'[p] = t /\ sent'[p] = sent[p] + 1 /\ sent[p] < Budget[p]
      BY <1>5 DEF Send, TypeOK, FrameOf
    <3>2. Len(t) = Len(r) + 1 /\ t[Len(r) + 1] = g /\ Len(r) \in Nat /\ \A i \in 1..Len(r) : t[i] = r[i]
      BY <1>3, <2>2
    <3> HIDE DEF r, t, g
    <3>3. /\ sent[p] = frame[p].number + Len(r) /\ frame[p].number \in Nat /\ Budget[p] \in Nat
          /\ \A i \in 1..Len(r) : r[i] = FrameOf(p, frame[p].number + i)
      BY <1>3, <2>2 DEF r
    <3>4. sent'[p] = frame'[p].number + Len(up'[p]) /\ sent'[p] <= Budget[p]
      <4>1. Len(up'[p]) = Len(r) + 1 /\ frame'[p].number = frame[p].number /\ sent[p] \in Nat
        BY <2>0, <3>1, <3>2 DEF TypeOK
      <4>2. sent[p] = frame[p].number + Len(r) /\ frame[p].number \in Nat /\ Budget[p] \in Nat /\ Len(r) \in Nat
        BY <3>2, <3>3
      <4>3. sent'[p] = sent[p] + 1 /\ sent[p] < Budget[p]
        BY <3>1
      <4> QED
        BY <4>1, <4>2, <4>3, SMTT(40)
    <3>5. ASSUME NEW i \in 1..Len(t) PROVE t[i] = FrameOf(p, frame'[p].number + i)
      <4>1. CASE i \in 1..Len(r)
        BY <2>0, <3>2, <3>3, <4>1
      <4>2. CASE i = Len(r) + 1
        <5>1. sent[p] + 1 = frame'[p].number + i
          BY <1>3, <2>0, <2>2, <3>2, <3>3, <4>2, SMTT(40)
        <5> QED
          BY <3>2, <4>2, <5>1 DEF g
      <4> QED
        BY <3>2, <4>1, <4>2
    <3> QED
      BY <2>2, <3>1, <3>4, <3>5
  <2> QED
    BY <2>1, <2>2
<1>6. CASE ~ReceiveFrame(p) /\ ~Send(p)
  <2>1. UNCHANGED <<sent, frame, up>>
    BY <1>6, CaptureMoves
       DEF PortStep, NewPort, CloseConnection, ReceiveEnds, Snapshot, NextDestination, LoopAgain,
           SendSome, SendFails, RemoveSource, Receive, Leave, threadVars, trafficVars
  <2> QED
    BY <1>3, <2>1
<1> QED
  BY <1>4, <1>5, <1>6

\* A participant makes a frame of the next two units, or reads the first of them.
LEMMA ReceiveStep ==
    ASSUME TypeOK, Sockets, NEW p \in Port, Receive(p)
    PROVE  /\ \A q \in Port : q # p => /\ partial'[q] = partial[q] /\ down'[q] = down[q]
                                       /\ received'[q] = received[q]
           /\ down[p] \in Seq(Unit) /\ Len(down[p]) > 0 /\ down'[p] = Tail(down[p])
           /\ peerEnd[p] = "open"
           /\ \/ /\ partial[p] = <<>> /\ partial'[p] = <<down[p][1]>> /\ received' = received
              \/ /\ Len(partial[p]) = 1 /\ partial'[p] = <<>>
                 /\ received'[p] = Append(received[p], Assemble(<<partial[p][1], down[p][1]>>))
                 /\ Assemble(<<partial[p][1], down[p][1]>>) \in {partial[p][1].of, Corrupt}
                 /\ Assemble(<<partial[p][1], down[p][1]>>) # Corrupt =>
                        /\ partial[p][1] = First(Assemble(<<partial[p][1], down[p][1]>>))
                        /\ down[p][1] = Second(Assemble(<<partial[p][1], down[p][1]>>))
<1> DEFINE w == partial[p]
           u == down[p][1]
           units == Append(w, Head(down[p]))
<1>1. /\ \A q \in Port : q # p => /\ partial'[q] = partial[q] /\ down'[q] = down[q]
                                  /\ received'[q] = received[q]
      /\ down[p] \in Seq(Unit) /\ Len(down[p]) > 0 /\ down'[p] = Tail(down[p])
      /\ peerEnd[p] = "open"
  BY SMTT(40) DEF Receive, TypeOK
<1>2. w \in Seq(Unit) /\ Len(w) <= 1 /\ u = Head(down[p]) /\ u \in Unit
  BY <1>1 DEF TypeOK, Sockets
<1>3. /\ Len(units) < 2 => partial' = [partial EXCEPT ![p] = units] /\ received' = received
      /\ ~(Len(units) < 2) => /\ partial' = [partial EXCEPT ![p] = <<>>]
                              /\ received' = [received EXCEPT ![p] = Append(@, Assemble(units))]
  BY DEF Receive
<1>4. units = Append(w, u)
  BY <1>2
<1>5. partial \in [Port -> Seq(Unit)] /\ received \in [Port -> Seq(Frame \cup {Corrupt})]
  BY DEF TypeOK
<1> HIDE DEF units, u
<1>6. CASE w = <<>>
  <2>1. units = <<u>> /\ Len(units) = 1
    BY <1>2, <1>4, <1>6
  <2>2. partial'[p] = <<u>> /\ received' = received
    BY <1>3, <1>5, <2>1
  <2> QED
    BY <1>1, <1>6, <2>2 DEF u
<1>7. CASE w # <<>>
  <2> HIDE DEF w
  <2>1. Len(w) = 1
    <3> DEFINE k == Len(w)
    <3>1. k > 0 /\ k \in Nat /\ k <= 1
      BY <1>2, <1>7
    <3> HIDE DEF k
    <3>2. k = 1
      BY <3>1
    <3> QED
      BY <3>2 DEF k
  <2>2. w = <<w[1]>> /\ w[1] \in Unit
    BY <1>2, <2>1, Single
  <2>3. units = <<w[1], u>> /\ Len(units) = 2 /\ units[1] = w[1] /\ units[2] = u
    <3> DEFINE e == w[1]
    <3>1. w = <<e>> /\ e \in Unit
      BY <2>2
    <3> HIDE DEF e
    <3>2. units = <<e, u>> /\ Len(<<e, u>>) = 2 /\ <<e, u>>[1] = e /\ <<e, u>>[2] = u
      BY <1>2, <1>4, <3>1, Pair
    <3> QED
      BY <3>2 DEF e
  <2>4. /\ partial'[p] = <<>> /\ received'[p] = Append(received[p], Assemble(<<w[1], u>>))
    BY <1>3, <1>5, <2>3
  <2> DEFINE a == w[1]
             f == Assemble(units)
  <2>5. /\ f \in {a.of, Corrupt}
        /\ f # Corrupt => a.of = f /\ a.part = 1 /\ u.of = f /\ u.part = 2
    BY <2>3 DEF Assemble
  <2>6. a = [of |-> a.of, part |-> a.part] /\ u = [of |-> u.of, part |-> u.part]
    BY <1>2, <2>2 DEF Unit
  <2>7. f # Corrupt => a = First(f) /\ u = Second(f)
    BY <2>5, <2>6 DEF First, Second
  <2>8. f = Assemble(<<w[1], u>>)
    BY <2>3
  <2> QED
    BY <1>1, <2>1, <2>4, <2>5, <2>7, <2>8 DEF u, w
<1> QED
  BY <1>6, <1>7

\* Every step keeps the capture complete.
LEMMA CapturedKept ==
    ASSUME TypeOK, Sockets, Threads, Upstream, Captured, Next
    PROVE  Captured'
<1>t. /\ pcap \in Seq(Frame) /\ DOMAIN pcap = 1..Len(pcap) /\ Len(pcap) \in Nat
      /\ \A i \in 1..Len(pcap) : pcap[i] \in Frame /\ pcap[i].number \in Nat /\ pcap[i].source \in Port
      /\ \A p \in Port : partial[p] \in Seq(Unit) /\ down[p] \in Seq(Unit) /\ received[p] \in Seq(Frame \cup {Corrupt})
      /\ \A p \in Port : frame[p].number \in Nat
  <2>1. pcap \in Seq(Frame)
    BY DEF TypeOK
  <2>2. \A i \in 1..Len(pcap) : pcap[i] \in Frame
    BY <2>1
  <2>3. \A i \in 1..Len(pcap) : pcap[i].number \in Nat /\ pcap[i].source \in Port
    BY <2>2 DEF Frame
  <2>4. \A p \in Port : partial[p] \in Seq(Unit) /\ down[p] \in Seq(Unit) /\ received[p] \in Seq(Frame \cup {Corrupt})
    BY DEF TypeOK
  <2>5. DOMAIN pcap = 1..Len(pcap) /\ Len(pcap) \in Nat
    BY <2>1
  <2> QED
    BY <2>1, <2>2, <2>3, <2>4, <2>5, Types
<1> USE DEF Unwritten, Written
\* A step that only moves the thread, and not past the capture.
<1>2. ASSUME UNCHANGED <<frame, partial, down, received, pcap>>, pcapFile' = "open" => pcapFile = "open",
             \A q \in Port :
                 \/ thread'[q] = thread[q]
                 \/ thread[q] \in Written /\ thread'[q] \notin Unwritten
                 \/ thread'[q] \notin Unwritten \cup Written
      PROVE  Captured'
  <2>1. Recorded' = Recorded /\ \A q \in Port : Got(q)' = Got(q)
    BY <1>2 DEF Recorded, Got
  <2>2. \A q \in Port :
            /\ thread'[q] \in Unwritten => thread[q] \in Unwritten
            /\ thread'[q] \in Written => thread[q] \in Written
    BY <1>2
  <2> HIDE DEF Unwritten, Written
  <2> QED
    BY <1>2, <2>1, <2>2 DEF Captured
<1>1. CASE OwnerStep
  BY <1>1, <1>2, OwnerMoves DEF threadVars, trafficVars, captureVars
<1> SUFFICES ASSUME NEW p \in Port, PortStep(p) PROVE Captured'
  BY <1>1, Steps
<1>3. CASE NewPort(p)
  BY <1>2, <1>3 DEF captureVars, NewPort, trafficVars, ownerVars, TypeOK
<1>4. CASE CloseConnection(p)
  BY <1>2, <1>4 DEF captureVars, CloseConnection, threadVars, trafficVars, ownerVars
<1>5. CASE Leave(p)
  BY <1>2, <1>5 DEF captureVars, Leave, threadVars, trafficVars, ownerVars
<1>6. CASE Send(p)
  BY <1>2, <1>6 DEF captureVars, Send, threadVars, ownerVars
<1>7. CASE ReceiveEnds(p)
  BY <1>2, <1>7 DEF captureVars, ReceiveEnds, Step, trafficVars, ownerVars, TypeOK
<1>8. CASE Snapshot(p)
  BY <1>2, <1>8 DEF captureVars, Snapshot, Step, trafficVars, ownerVars, TypeOK
<1>9. CASE \E d \in Port : NextDestination(p, d)
  BY <1>2, <1>9 DEF captureVars, NextDestination, Step, trafficVars, ownerVars, TypeOK
<1>10. CASE LoopAgain(p)
  BY <1>2, <1>10 DEF captureVars, LoopAgain, Step, trafficVars, ownerVars, TypeOK
<1>11. CASE SendFails(p)
  BY <1>2, <1>11 DEF captureVars, SendFails, Step, trafficVars, ownerVars, TypeOK
<1>12. CASE RemoveSource(p)
  BY <1>2, <1>12 DEF captureVars, RemoveSource, Step, trafficVars, ownerVars, TypeOK
<1>13. CASE ReceiveFrame(p)
  <2>1. UNCHANGED <<partial, down, received, pcap, pcapFile>>
    BY <1>13 DEF ReceiveFrame, ownerVars, captureVars
  <2>2. \A q \in Port : q # p => frame'[q] = frame[q] /\ thread'[q] = thread[q]
    BY <1>13 DEF ReceiveFrame, Step
  <2>3. thread'[p] = "capture" /\ frame'[p].number = frame[p].number + 1 /\ frame[p].number \in Nat
    <3>1. thread'[p] = "capture"
      BY <1>13 DEF ReceiveFrame, Step, TypeOK
    <3> QED
      BY <1>13, <3>1, NextFrame
  <2>4. \A i \in 1..Len(pcap) : pcap[i].source = p =>
            pcap[i].number <= frame'[p].number /\ pcap[i].number # frame'[p].number
    BY <1>t, <2>3 DEF Captured
  <2>5. Recorded' = Recorded /\ \A q \in Port : Got(q)' = Got(q)
    BY <2>1 DEF Recorded, Got
  <2>6. ASSUME NEW q \in Port
        PROVE  /\ thread'[q] \in Written /\ pcapFile' = "open" => frame'[q] \in Recorded'
               /\ \A i \in 1..Len(pcap') : pcap'[i].source = q =>
                      /\ pcap'[i].number <= frame'[q].number
                      /\ thread'[q] \in Unwritten => pcap'[i].number # frame'[q].number
    <3>1. CASE q = p
      BY <2>1, <2>3, <2>4, <3>1
    <3>2. CASE q # p
      BY <2>1, <2>2, <2>5, <3>2 DEF Captured
    <3> QED
      BY <3>1, <3>2
  <2> QED
    BY <2>1, <2>5, <2>6 DEF Captured
<1>14. CASE CaptureStep(p) /\ ~(WritePayload(p) /\ pcapFile = "open")
  <2>1. /\ UNCHANGED <<frame, partial, down, received, pcap, pcapFile>>
        /\ \A q \in Port : q # p => thread'[q] = thread[q]
    <3>1. pcap' = pcap
      BY <1>14 DEF CaptureStep, Capture, WriteHeader, WritePayload, Flush, captureVars
    <3> QED
      BY <1>14, <3>1, CaptureMoves DEF ownerVars, trafficVars
  <2>2. CASE pcapFile = "open"
    <3>1. \/ thread[p] \in Unwritten /\ thread'[p] \in Unwritten
          \/ thread[p] \in Written /\ thread'[p] \in Written
      BY <1>14, <2>2 DEF CaptureStep, Capture, WriteHeader, WritePayload, Flush, Step, TypeOK
    <3>2. Recorded' = Recorded /\ \A q \in Port : Got(q)' = Got(q)
      BY <2>1 DEF Recorded, Got
    <3>3. \A q \in Port :
              /\ thread'[q] \in Unwritten => thread[q] \in Unwritten
              /\ thread'[q] \in Written => thread[q] \in Written
      BY <2>1, <3>1
    <3> HIDE DEF Unwritten, Written
    <3> QED
      BY <2>1, <3>2, <3>3 DEF Captured
  <2>3. CASE pcapFile # "open"
    <3>1. thread'[p] \in Unwritten => thread[p] \in Unwritten
      BY <1>14, <2>3 DEF CaptureStep, Capture, WriteHeader, WritePayload, Flush, Step, TypeOK
    <3>2. Recorded' = Recorded /\ \A q \in Port : Got(q)' = Got(q)
      BY <2>1 DEF Recorded, Got
    <3>3. \A q \in Port : thread'[q] \in Unwritten => thread[q] \in Unwritten
      BY <2>1, <3>1
    <3> HIDE DEF Unwritten, Written
    <3> QED
      BY <2>1, <2>3, <3>2, <3>3 DEF Captured
  <2> QED
    BY <2>2, <2>3
<1>17. CASE WritePayload(p) /\ pcapFile = "open"
  <2>0. /\ UNCHANGED <<frame, partial, down, received, pcapFile>> /\ thread[p] = "payload"
        /\ thread'[p] = "flush" /\ \A q \in Port : q # p => thread'[q] = thread[q]
    BY <1>17 DEF WritePayload, Step, ownerVars, trafficVars, TypeOK
  <2> DEFINE f == frame[p]
             l == Len(pcap)
  <2>1. pcap' = Append(pcap, f) /\ f \in Frame /\ f.source = p
    <3>1. f \in Frame /\ f # Corrupt
      BY <2>0, UnitTypes DEF Threads
    <3> QED
      BY <1>17, <3>1 DEF WritePayload, Threads
  <2>2. Recorded' = Recorded \cup {f}
    BY <1>t, <2>1, AppendItems DEF Recorded
  <2>3. Len(pcap') = l + 1 /\ pcap'[l + 1] = f /\ \A i \in 1..l : pcap'[i] = pcap[i]
    BY <1>t, <2>1
  <2>4. \A i \in 1..(l + 1) : i \in 1..l \/ i = l + 1
    BY <1>t
  <2>5. \A i \in 1..l : pcap[i] # f
    BY <2>0, <2>1 DEF Captured
  <2>6. \A i, j \in 1..Len(pcap') : pcap'[i] = pcap'[j] => i = j
    BY <2>3, <2>4, <2>5 DEF Captured
  <2>7. ASSUME NEW q \in Port, NEW i \in 1..Len(pcap'), pcap'[i].source = q
        PROVE  /\ pcap'[i].number <= frame'[q].number
               /\ thread'[q] \in Unwritten => pcap'[i].number # frame'[q].number
    <3>1. CASE i \in 1..l
      BY <2>0, <2>3, <2>7, <3>1 DEF Captured
    <3>2. CASE i = l + 1
      <4>1. q = p /\ pcap'[i] = f /\ f.number \in Nat
        BY <1>t, <2>1, <2>3, <2>7, <3>2
      <4> QED
        BY <2>0, <4>1
    <3> QED
      BY <2>3, <2>4, <3>1, <3>2
  <2>8. ASSUME NEW q \in Port
        PROVE  /\ thread'[q] \in Written /\ pcapFile' = "open" => frame'[q] \in Recorded'
               /\ \A i \in 1..Len(partial'[q]) : partial'[q][i].of \in Recorded'
               /\ \A i \in 1..Len(down'[q]) : down'[q][i].of \in Recorded'
               /\ Got(q)' \ {Corrupt} \subseteq Recorded'
    BY <2>0, <2>2 DEF Captured, Got
  <2> QED
    BY <2>6, <2>7, <2>8 DEF Captured
<1>15. CASE SendSome(p)
  <2> DEFINE d == target[p]
             f == frame[p]
  <2>1. UNCHANGED <<frame, partial, received, pcap, pcapFile>>
    BY <1>15 DEF SendSome, ownerVars, captureVars
  <2>2. /\ f \in Frame /\ d \in Port /\ thread[p] = "sendall" /\ peerEnd[d] = "open"
        /\ \A q \in Port : thread'[q] = thread[q] \/ (thread[q] = "sendall" /\ thread'[q] = "send")
    <3>1. \A q \in Port : q # p => thread'[q] = thread[q]
      BY <1>15 DEF SendSome
    <3>2. p \in DOMAIN thread
      BY DEF TypeOK
    <3>3. thread[p] = "sendall" /\ (thread' = thread \/ thread' = [thread EXCEPT ![p] = "send"])
      BY <1>15, SendSomeStep
    <3>4. thread'[p] = thread[p] \/ (thread[p] = "sendall" /\ thread'[p] = "send")
      BY <3>2, <3>3
    <3>5. f \in Frame /\ d \in Port /\ peerEnd[d] = "open"
      BY <1>15, SendSomeStep
    <3> QED
      BY <3>1, <3>3, <3>4, <3>5
  <2>3. f \in Recorded
    BY <2>2 DEF Captured, Sockets
  <2>4. \E x : /\ x \in {<<First(f)>>, Units(f), <<Second(f)>>}
               /\ down' = [down EXCEPT ![d] = @ \o x]
    BY <1>15, SendSomeStep
  <2>5. PICK x \in {<<First(f)>>, Units(f), <<Second(f)>>} : down' = [down EXCEPT ![d] = @ \o x]
    BY <2>4
  <2>6. x \in Seq(Unit) /\ \A i \in 1..Len(x) : x[i].of = f
    BY <2>2, <2>5, UnitTypes
  <2>7. ASSUME NEW q \in Port, NEW i \in 1..Len(down'[q]) PROVE down'[q][i].of \in Recorded
    <3>1. CASE q # d
      BY <2>5, <2>7, <3>1 DEF Captured, TypeOK
    <3>2. CASE q = d
      <4> DEFINE y == down[d]
      <4>1. down'[q] = y \o x /\ y \in Seq(Unit)
        BY <2>2, <2>5, <3>2 DEF TypeOK
      <4>2. \A j \in 1..Len(y) : y[j].of \in Recorded
        BY <2>2 DEF Captured
      <4> HIDE DEF y
      <4>3. CASE i \in 1..Len(y)
        BY <2>6, <4>1, <4>2, <4>3, Concatenated
      <4>4. CASE i \notin 1..Len(y)
        <5>1. Len(y) \in Nat /\ Len(x) \in Nat /\ Len(down'[q]) = Len(y) + Len(x)
          BY <2>6, <4>1, Concatenated
        <5>2. i - Len(y) \in 1..Len(x) /\ Len(y) + (i - Len(y)) = i
          BY <4>4, <5>1
        <5>3. down'[q][Len(y) + (i - Len(y))] = x[i - Len(y)]
          BY <2>6, <4>1, <5>2, Concatenated
        <5> QED
          BY <2>3, <2>6, <5>2, <5>3
      <4> QED
        BY <4>3, <4>4
    <3> QED
      BY <3>1, <3>2
  <2> QED
    BY <2>1, <2>2, <2>7 DEF Captured, Recorded, Got
<1>16. CASE Receive(p)
  <2>1. UNCHANGED <<frame, thread, pcap, pcapFile>>
    BY <1>16 DEF Receive, ownerVars, threadVars, captureVars
  <2>2. \A i \in 1..Len(down'[p]) : down'[p][i].of \in Recorded
    <3>1. down[p] \in Seq(Unit) /\ Len(down[p]) > 0 /\ down'[p] = Tail(down[p])
      BY <1>16, ReceiveStep
    <3>2. \A i \in 1..Len(Tail(down[p])) : Tail(down[p])[i] = down[p][i + 1] /\ i + 1 \in 1..Len(down[p])
      BY <3>1
    <3> QED
      BY <3>1, <3>2 DEF Captured
  <2>3. down[p][1].of \in Recorded
    <3>1. 1 \in 1..Len(down[p])
      <4>1. down[p] \in Seq(Unit) /\ Len(down[p]) > 0
        BY <1>16, ReceiveStep
      <4> QED
        BY <4>1
    <3> QED
      BY <3>1 DEF Captured
  <2>4. /\ \A i \in 1..Len(partial'[p]) : partial'[p][i].of \in Recorded
        /\ Got(p)' \ {Corrupt} \subseteq Recorded
    <3>1. CASE partial[p] = <<>> /\ partial'[p] = <<down[p][1]>> /\ received' = received
      BY <2>3, <3>1 DEF Captured, Got
    <3>2. CASE /\ Len(partial[p]) = 1 /\ partial'[p] = <<>>
               /\ received'[p] = Append(received[p], Assemble(<<partial[p][1], down[p][1]>>))
               /\ Assemble(<<partial[p][1], down[p][1]>>) \in {partial[p][1].of, Corrupt}
      <4> DEFINE f == Assemble(<<partial[p][1], down[p][1]>>)
      <4>1. partial[p][1].of \in Recorded /\ Recorded \subseteq Frame
        BY <1>t, <3>2, SMTT(40) DEF Captured, Recorded, Items
      <4>2. f \in Recorded \cup {Corrupt} /\ f \in Frame \cup {Corrupt}
        BY <3>2, <4>1
      <4>3. Items(received'[p]) = Items(received[p]) \cup {f}
        <5>1. received[p] \in Seq(Frame \cup {Corrupt})
          BY <1>t
        <5>2. received'[p] = Append(received[p], f)
          BY <3>2
        <5> HIDE DEF f
        <5> QED
          BY <4>2, <5>1, <5>2, AppendItems
      <4>4. Got(p)' = Got(p) \cup {f}
        BY <4>3 DEF Got, Items
      <4>5. Got(p) \ {Corrupt} \subseteq Recorded
        BY DEF Captured
      <4>6. Got(p)' \ {Corrupt} \subseteq Recorded
        <5> HIDE DEF f
        <5> QED
          BY <4>2, <4>4, <4>5
      <4>7. Len(partial'[p]) = 0
        BY <3>2
      <4>8. \A i \in 1..Len(partial'[p]) : partial'[p][i].of \in Recorded
        BY <4>7
      <4> QED
        BY <4>6, <4>8
    <3> QED
      BY <1>16, <3>1, <3>2, ReceiveStep
  <2>5. \A q \in Port : q # p => /\ partial'[q] = partial[q] /\ down'[q] = down[q]
                                 /\ received'[q] = received[q]
    BY <1>16, ReceiveStep
  <2> QED
    BY <2>1, <2>2, <2>4, <2>5 DEF Captured, Recorded, Got
<1> QED
  BY <1>3, <1>4, <1>5, <1>6, <1>7, <1>8, <1>9, <1>10, <1>11, <1>12, <1>13, <1>14, <1>15, <1>16, <1>17 DEF PortStep, CaptureStep

\* Every step keeps the order of the writes to the file.
LEMMA LockedKept ==
    ASSUME TypeOK, Sockets, Threads, Captured, Locked, Next
    PROVE  Locked'
<1>t. /\ DOMAIN thread = Port /\ pcap \in Seq(Frame) /\ DOMAIN frame = Port
      /\ \A i \in DOMAIN pcap : pcap[i] \in Frame
      /\ \A f \in Frame : f # Corrupt
  BY UnitTypes DEF TypeOK
\* A step that writes nothing, and neither takes the lock nor leaves a header behind.
<1>1. ASSUME UNCHANGED captureVars, pcapFile' = "open" => pcapFile = "open",
             \A q \in Port :
                 /\ thread'[q] \in {"payload", "flush"} => thread[q] \in {"payload", "flush"}
                 /\ pcapFile' = "open" => (thread'[q] = "payload" <=> thread[q] = "payload")
                 /\ thread[q] = "payload" => frame'[q] = frame[q]
      PROVE  Locked'
  <2>1. half' = half /\ Recorded' = Recorded
    BY <1>1 DEF captureVars, Recorded
  <2> QED
    BY <1>1, <2>1 DEF Locked, HoldsLock
<1>2. CASE OwnerStep
  BY <1>1, <1>2, OwnerMoves DEF threadVars
<1> SUFFICES ASSUME NEW p \in Port, PortStep(p) PROVE Locked'
  BY <1>2, Steps
<1>3. CASE CloseConnection(p) \/ Leave(p) \/ Send(p) \/ Receive(p)
  BY <1>1, <1>3 DEF CloseConnection, Leave, Send, Receive, threadVars, ownerVars
\* A step of a thread that neither comes to the file nor leaves it.
<1>4. ASSUME UNCHANGED <<captureVars, ownerVars>>, \A q \in Port : q # p => frame'[q] = frame[q],
             thread[p] \notin {"payload", "flush"}, thread'[p] \notin {"payload", "flush"},
             \A q \in Port : q # p => thread'[q] = thread[q]
      PROVE  Locked'
  BY <1>1, <1>4 DEF ownerVars
<1>5. CASE NewPort(p) \/ ReceiveFrame(p) \/ ReceiveEnds(p) \/ Snapshot(p) \/ LoopAgain(p) \/ RemoveSource(p)
  <2>1. thread[p] \notin {"payload", "flush"}
    BY <1>5 DEF NewPort, ReceiveFrame, ReceiveEnds, Snapshot, LoopAgain, RemoveSource, Step, Sockets
  <2> QED
    BY <1>t, <1>4, <1>5, <2>1
       DEF NewPort, ReceiveFrame, ReceiveEnds, Snapshot, LoopAgain, RemoveSource, Step
<1>6. CASE (\E d \in Port : NextDestination(p, d)) \/ SendSome(p) \/ SendFails(p)
  BY <1>t, <1>4, <1>6 DEF NextDestination, SendSome, SendFails, Step
<1>7. CASE Capture(p)
  BY <1>t, <1>4, <1>7 DEF Capture, Step
<1>8. CASE WriteHeader(p)
  <2>1. /\ \A q \in Port : thread[q] \notin {"payload", "flush"}
        /\ UNCHANGED <<frame, pcap, pcapFile>> /\ thread[p] = "header"
        /\ \A q \in Port : q # p => thread'[q] = thread[q]
    BY <1>8 DEF WriteHeader, HoldsLock, Step, ownerVars
  <2>2. CASE pcapFile # "open"
    <3>1. half' = half /\ thread'[p] = "remove"
      BY <1>t, <1>8, <2>2 DEF WriteHeader, Step
    <3> QED
      BY <1>1, <2>1, <2>2, <3>1 DEF captureVars
  <2>3. CASE pcapFile = "open"
    <3>1. half' = frame[p] /\ thread'[p] = "payload"
      BY <1>t, <1>8, <2>3 DEF WriteHeader, Step
    <3>2. frame[p] \in Frame /\ frame[p].source = p
      BY <1>t, <2>1 DEF Threads, Unwritten
    <3>3. frame[p] \notin Recorded /\ Recorded' = Recorded
      BY <1>t, <2>1, <3>2 DEF Captured, Recorded, Items, Unwritten
    <3> QED
      BY <2>1, <3>1, <3>3 DEF Locked, HoldsLock
  <2> QED
    BY <2>2, <2>3
<1>9. CASE WritePayload(p)
  <2>1. /\ UNCHANGED <<frame, pcapFile>> /\ thread[p] = "payload"
        /\ \A q \in Port : q # p => thread'[q] = thread[q]
    BY <1>9 DEF WritePayload, Step, ownerVars
  <2>2. \A q \in Port : q # p => thread[q] \notin {"payload", "flush"}
    BY <2>1 DEF Locked, HoldsLock
  <2>3. CASE pcapFile # "open"
    <3>1. half' = half /\ pcap' = pcap /\ thread'[p] = "remove"
      BY <1>t, <1>9, <2>3 DEF WritePayload, Step
    <3> QED
      BY <1>1, <2>1, <2>3, <3>1 DEF captureVars
  <2>4. CASE pcapFile = "open"
    <3>1. half' = Corrupt /\ thread'[p] = "flush" /\ pcap' = Append(pcap, frame[p])
      BY <1>t, <1>9, <2>4 DEF WritePayload, Step
    <3>2. frame[p] \in Frame
      BY <2>1 DEF Threads, Unwritten
    <3>3. Corrupt \notin Recorded'
      <4>1. Recorded' = Recorded \cup {frame[p]}
        BY <1>t, <3>1, <3>2, AppendItems DEF Recorded
      <4>2. Corrupt \notin Recorded
        BY <1>t DEF Recorded, Items
      <4> QED
        BY <1>t, <3>2, <4>1, <4>2
    <3> QED
      BY <2>1, <2>2, <3>1, <3>3 DEF Locked, HoldsLock
  <2> QED
    BY <2>3, <2>4
<1>10. CASE Flush(p)
  <2>1. /\ UNCHANGED <<captureVars, frame, pcapFile>> /\ thread[p] = "flush"
        /\ thread'[p] \in {"snapshot", "remove"} /\ \A q \in Port : q # p => thread'[q] = thread[q]
    BY <1>t, <1>10 DEF Flush, Step, ownerVars
  <2> QED
    BY <1>1, <2>1
<1> QED
  BY <1>3, <1>5, <1>6, <1>7, <1>8, <1>9, <1>10 DEF PortStep, CaptureStep

\* Every step keeps what the threads aim at.
LEMMA AimsKept ==
    ASSUME TypeOK, Sockets, Threads, Aims, Next
    PROVE  Aims'
<1>t. hubEnd \in [Port -> {"none", "open", "closed"}] /\ DOMAIN thread = Port /\ DOMAIN target = Port
      /\ DOMAIN destinations = Port
  BY Types DEF TypeOK
\* No end becomes "none", and a thread aims at nothing new but connections.
<1>1. ASSUME \A d \in Port : hubEnd[d] # "none" => hubEnd'[d] # "none",
             \A d \in Port : d \in connections' => d \in connections \/ hubEnd'[d] # "none",
             \A p, d \in Port : Aimed(p, d)' => Served(p, d)
      PROVE  Aims'
  BY <1>1 DEF Aims, Served
<1> USE DEF Aimed, Served
<1>2. CASE OwnerStep
  BY <1>1, <1>2, OwnerMoves DEF threadVars
<1> SUFFICES ASSUME NEW p \in Port, PortStep(p) PROVE Aims'
  BY <1>2, Steps
<1>3. CASE NewPort(p)
  BY <1>t, <1>1, <1>3 DEF NewPort
<1>4. CASE CloseConnection(p)
  BY <1>t, <1>1, <1>4 DEF CloseConnection, threadVars
<1>5. CASE ReceiveFrame(p)
  BY <1>t, <1>1, <1>5 DEF ReceiveFrame, Step, socketVars
<1>6. CASE ReceiveEnds(p)
  BY <1>t, <1>1, <1>6 DEF ReceiveEnds, Step, socketVars
<1>7. CASE CaptureStep(p)
  <2>1. UNCHANGED <<connections, hubEnd, destinations, target>>
        /\ \A q \in Port : thread'[q] = thread[q] \/ thread'[q] \notin {"send", "sendall"}
    BY <1>7, CaptureMoves DEF socketVars
  <2> QED
    BY <1>1, <2>1
<1>8. CASE Snapshot(p)
  BY <1>t, <1>1, <1>8 DEF Snapshot, Step, socketVars
<1>9. CASE \E d \in Port : NextDestination(p, d)
  <2>1. PICK d \in Port : NextDestination(p, d)
    BY <1>9
  <2> QED
    BY <1>t, <1>1, <2>1 DEF NextDestination, Step, socketVars
<1>10. CASE LoopAgain(p)
  BY <1>t, <1>1, <1>10 DEF LoopAgain, Step, socketVars
<1>11. CASE SendSome(p)
  <2>1. UNCHANGED <<connections, hubEnd, destinations, target>> /\ thread[p] = "sendall"
        /\ \A q \in Port : q # p => thread'[q] = thread[q]
    BY <1>11 DEF SendSome, socketVars
  <2> QED
    BY <1>1, <2>1
<1>12. CASE SendFails(p)
  <2>1. target[p] \in Port
    BY <1>12 DEF SendFails, Step, Threads
  <2>2. /\ UNCHANGED <<destinations, target>>
        /\ thread[p] = "sendall" /\ thread' = [thread EXCEPT ![p] = "send"]
        /\ connections' \subseteq connections
        /\ hubEnd' = [hubEnd EXCEPT ![target[p]] = "closed"] \/ hubEnd' = hubEnd
    BY <1>12 DEF SendFails, Step
  <2>3. \A d \in Port : hubEnd[d] # "none" => hubEnd'[d] # "none"
    BY <1>t, <2>1, <2>2
  <2>4. ASSUME NEW q \in Port, NEW d \in Port PROVE Aimed(q, d)' => Served(q, d)
    <3>1. thread'[q] = thread[q] \/ (thread[q] = "sendall" /\ thread'[q] = "send")
      BY <1>t, <2>2
    <3>2. destinations' = destinations /\ target' = target
      BY <2>2
    <3> QED
      BY <3>1, <3>2
  <2>5. \A d \in Port : d \in connections' => d \in connections
    BY <2>2
  <2> HIDE DEF Aimed, Served
  <2> QED
    BY <1>1, <2>3, <2>4, <2>5
<1>13. CASE RemoveSource(p)
  BY <1>t, <1>1, <1>13 DEF RemoveSource, Step
<1>14. CASE Send(p)
  BY <1>1, <1>14 DEF Send, socketVars, threadVars
<1>15. CASE Receive(p)
  BY <1>1, <1>15 DEF Receive, socketVars, threadVars
<1>16. CASE Leave(p)
  BY <1>1, <1>16 DEF Leave, threadVars
<1> QED
  BY <1>3, <1>4, <1>5, <1>6, <1>7, <1>8, <1>9, <1>10, <1>11, <1>12, <1>13, <1>14, <1>15, <1>16 DEF PortStep

\* A line with a unit more.
LEMMA WireExtended ==
    ASSUME NEW a \in Seq(Unit), NEW b \in Seq(Unit), NEW x \in Unit, NEW y \in Unit
    PROVE  /\ a \o (b \o <<x>>) \in Seq(Unit)
           /\ Extended(a \o b, a \o (b \o <<x>>), x)
           /\ Extended(a \o (b \o <<x>>), a \o (b \o <<x, y>>), y)
<1> DEFINE m == Len(a)
           n == Len(b)
           v == b \o <<x>>
           w == b \o <<x, y>>
<1>1. /\ v \in Seq(Unit) /\ Len(v) = n + 1 /\ v[n + 1] = x /\ \A i \in 1..n : v[i] = b[i]
      /\ m \in Nat /\ n \in Nat
  OBVIOUS
<1>2. /\ w \in Seq(Unit) /\ Len(w) = n + 2 /\ w[n + 1] = x /\ w[n + 2] = y /\ \A i \in 1..n : w[i] = b[i]
  OBVIOUS
<1>3. \A i \in 1..(n + 1) : w[i] = v[i]
  <2>1. \A i \in 1..(n + 1) : i \in 1..n \/ i = n + 1
    BY <1>1
  <2> QED
    BY <1>1, <1>2, <2>1
<1> HIDE DEF v, w
<1>4. /\ a \o b \in Seq(Unit) /\ Len(a \o b) = m + n
      /\ \A i \in 1..m : (a \o b)[i] = a[i]
      /\ \A i \in 1..n : (a \o b)[m + i] = b[i]
  BY Concatenated
<1>5. /\ a \o v \in Seq(Unit) /\ Len(a \o v) = m + Len(v)
      /\ \A i \in 1..m : (a \o v)[i] = a[i]
      /\ \A i \in 1..Len(v) : (a \o v)[m + i] = v[i]
  <2>1. v \in Seq(Unit)
    BY <1>1
  <2> QED
    BY <2>1, Concatenated
<1>6. /\ a \o w \in Seq(Unit) /\ Len(a \o w) = m + Len(w)
      /\ \A i \in 1..m : (a \o w)[i] = a[i]
      /\ \A i \in 1..Len(w) : (a \o w)[m + i] = w[i]
  <2>1. w \in Seq(Unit)
    BY <1>2
  <2> QED
    BY <2>1, Concatenated
<1>7. \A i \in 1..(m + n) : i \in 1..m \/ (i - m \in 1..n /\ i = m + (i - m))
  BY <1>1
<1>8. \A i \in 1..(m + (n + 1)) : i \in 1..m \/ (i - m \in 1..(n + 1) /\ i = m + (i - m))
  BY <1>1
<1>9. Extended(a \o b, a \o v, x)
  <2>1. ASSUME NEW i \in 1..(m + n) PROVE (a \o v)[i] = (a \o b)[i]
    <3>1. CASE i \in 1..m
      BY <1>4, <1>5, <3>1
    <3>2. CASE i - m \in 1..n /\ i = m + (i - m)
      <4>1. i - m \in 1..Len(v)
        BY <1>1, <3>2
      <4>2. (a \o v)[m + (i - m)] = v[i - m] /\ (a \o b)[m + (i - m)] = b[i - m]
        BY <1>4, <1>5, <3>2, <4>1
      <4> QED
        BY <1>1, <3>2, <4>2
    <3> QED
      BY <1>7, <3>1, <3>2
  <2>2. n + 1 \in 1..Len(v) /\ m + (n + 1) = (m + n) + 1
    BY <1>1
  <2>3. (a \o v)[m + (n + 1)] = x
    BY <1>1, <1>5, <2>2
  <2>4. Len(a \o v) = Len(a \o b) + 1
    BY <1>1, <1>4, <1>5
  <2> QED
    BY <1>4, <1>5, <2>1, <2>2, <2>3, <2>4 DEF Extended
<1>10. Extended(a \o v, a \o w, y)
  <2>1. ASSUME NEW i \in 1..(m + (n + 1)) PROVE (a \o w)[i] = (a \o v)[i]
    <3>1. CASE i \in 1..m
      BY <1>5, <1>6, <3>1
    <3>2. CASE i - m \in 1..(n + 1) /\ i = m + (i - m)
      <4>1. i - m \in 1..Len(v) /\ i - m \in 1..Len(w)
        BY <1>1, <1>2, <3>2
      <4>2. (a \o v)[m + (i - m)] = v[i - m] /\ (a \o w)[m + (i - m)] = w[i - m]
        BY <1>5, <1>6, <4>1
      <4> QED
        BY <1>3, <3>2, <4>2
    <3> QED
      BY <1>8, <3>1, <3>2
  <2>2. n + 2 \in 1..Len(w) /\ m + (n + 2) = (m + (n + 1)) + 1
    BY <1>1, <1>2
  <2>3. (a \o w)[m + (n + 2)] = y
    BY <1>2, <1>6, <2>2
  <2>4. Len(a \o w) = Len(a \o v) + 1 /\ Len(a \o v) = m + (n + 1)
    BY <1>1, <1>2, <1>5, <1>6
  <2> QED
    BY <1>6, <2>1, <2>2, <2>3, <2>4 DEF Extended
<1> QED
  BY <1>5, <1>9, <1>10 DEF v, w

\* A step that leaves the line of d alone.
LEMMA QuietLink ==
    ASSUME NEW s \in Port, NEW d \in Port, Link(s, d),
           Wire(d)' = Wire(d), Got(d)' = Got(d), Begun(s, d) \in Int, Begun(s, d)' \in Int,
           Wire(d) \in Seq(Unit), Got(d) \subseteq Frame,
           Begun(s, d) <= Begun(s, d)',
           Half(s, d)' => Half(s, d) /\ frame'[s] = frame[s],
           Half(s, d)' /\ peerEnd'[d] = "open" => peerEnd[d] = "open",
           peerEnd'[d] = "open" /\ Served(s, d)' /\ Known(Wire(d), Got(d), s) =>
               peerEnd[d] = "open" /\ Served(s, d) /\ Begun(s, d)' = Begun(s, d)
    PROVE  Link(s, d)'
<1>1. UpTo(Wire(d), Got(d), s, Begun(s, d)')
  <2>1. \A f \in Got(d) : f.number \in Nat
    BY DEF Frame
  <2>2. \A i \in 1..Len(Wire(d)) : Wire(d)[i].of.number \in Nat
    BY LineTypes
  <2>3. UpTo(Wire(d), Got(d), s, Begun(s, d))
    BY DEF Link
  <2> QED
    BY <2>1, <2>2, <2>3 DEF UpTo
<1>2. UpTo(Wire(d), Got(d), s, Begun(s, d))'
  BY <1>1 DEF UpTo
<1>3. Half(s, d)' => PrefixOnly(Wire(d), frame[s])'
  BY DEF Link, PrefixOnly
<1>4. Half(s, d)' /\ peerEnd'[d] = "open" => Begins(Wire(d), frame[s], Len(Wire(d)))'
  BY DEF Link, Begins
<1>5. Known(Wire(d), Got(d), s)' => Known(Wire(d), Got(d), s)
  BY DEF Known
<1>6. Begun(s, d)' = Begun(s, d) /\ Reached(Wire(d), Got(d), s, Begun(s, d)) =>
          Reached(Wire(d), Got(d), s, Begun(s, d))'
  BY DEF Reached, Begins
<1>7. (peerEnd[d] = "open" /\ Served(s, d) /\ Known(Wire(d), Got(d), s))' =>
          Reached(Wire(d), Got(d), s, Begun(s, d))'
  BY <1>5, <1>6 DEF Link
<1> QED
  BY <1>2, <1>3, <1>4, <1>7 DEF Link

\* What of a line depends on nothing but the line.
LEMMA QuietLine ==
    ASSUME NEW d \in Port, Line(d), Wire(d)' = Wire(d), received'[d] = received[d],
           \A s \in Port : Link(s, d)'
    PROVE  Line(d)'
<1>1. Got(d)' = Got(d)
  BY DEF Got
<1>2. Sound(Wire(d), Got(d))'
  BY <1>1 DEF Line, Sound, Ordered, Paired, Behind, Chained, Begins
<1>3. Delivered(received[d], d)'
  BY DEF Line, Delivered, Items
<1> QED
  BY <1>2, <1>3 DEF Line

\* The line of d stays as it is.
Still(d) ==
    /\ Wire(d)' = Wire(d) /\ received'[d] = received[d]
    /\ Wire(d) \in Seq(Unit) /\ Got(d) \subseteq Frame

\* The last frame begun is a number.
LEMMA BegunInt ==
    ASSUME TypeOK, NEW s \in Port, NEW d \in Port
    PROVE  Begun(s, d) \in Int
<1>1. frame[s].number \in Int
  BY Types
<1> QED
  BY <1>1 DEF Begun

\* A step that leaves the thread of s alone too.
LEMMA SameThread ==
    ASSUME TypeOK, TypeOK', NEW s \in Port, NEW d \in Port, Still(d), Link(s, d),
           thread'[s] = thread[s], frame'[s] = frame[s], destinations'[s] = destinations[s],
           target'[s] = target[s], left'[s] = left[s],
           d \in connections' => d \in connections,
           peerEnd'[d] = "open" => peerEnd[d] = "open"
    PROVE  Link(s, d)'
<1>1. Begun(s, d)' = Begun(s, d) /\ Half(s, d)' = Half(s, d) /\ Aimed(s, d)' = Aimed(s, d)
  BY DEF Begun, Ahead, Half, Aimed
<1>2. Begun(s, d) \in Int /\ Got(d)' = Got(d)
  BY BegunInt DEF Still, Got
<1> QED
  BY <1>1, <1>2, QuietLink DEF Served, Still

\* A step of the thread of s that begins no frame.
LEMMA ThreadMoves ==
    ASSUME TypeOK, TypeOK', NEW s \in Port, NEW d \in Port, Still(d), Link(s, d),
           ~Half(s, d)', connections' \subseteq connections, peerEnd' = peerEnd,
           Begun(s, d)' = Begun(s, d), Aimed(s, d)' => Served(s, d)
    PROVE  Link(s, d)'
<1>1. Begun(s, d) \in Int /\ Got(d)' = Got(d)
  BY BegunInt DEF Still, Got
<1> QED
  BY <1>1, QuietLink DEF Served, Still

\* The thread of s leaves d behind: it has nothing of s, or its end is closed.
LEMMA ThreadPasses ==
    ASSUME TypeOK, TypeOK', NEW s \in Port, NEW d \in Port, Still(d), Link(s, d),
           ~Half(s, d)', Begun(s, d) <= Begun(s, d)',
           ~Known(Wire(d), Got(d), s) \/ peerEnd'[d] # "open"
    PROVE  Link(s, d)'
<1>1. Begun(s, d) \in Int /\ Begun(s, d)' \in Int /\ Got(d)' = Got(d)
  <2>1. Begun(s, d)' \in Int
    <3>1. frame'[s] \in Frame \cup {Corrupt}
      BY DEF TypeOK
    <3>2. frame'[s].number \in Int
      BY <3>1 DEF Frame, Corrupt
    <3> QED
      BY <3>2 DEF Begun
  <2> QED
    BY <2>1, BegunInt DEF Still, Got
<1> QED
  BY <1>1, QuietLink DEF Still

\* A step of a port leaves the links of a line that it leaves alone.
LEMMA LinkKept ==
    ASSUME TypeOK, TypeOK', Sockets, Threads, Aims, Upstream, NEW p \in Port, PortStep(p),
           NEW s \in Port, NEW d \in Port, Still(d), Line(d), SendSome(p) => d # target[p]
    PROVE  Link(s, d)'
<1>t. /\ DOMAIN thread = Port /\ DOMAIN frame = Port /\ DOMAIN destinations = Port
      /\ DOMAIN target = Port /\ DOMAIN left = Port
      /\ connections \subseteq Port /\ \A q \in Port : frame[q].number \in Int
      /\ DOMAIN peerEnd = Port /\ DOMAIN hubEnd = Port
  <2>1. DOMAIN peerEnd = Port /\ DOMAIN hubEnd = Port /\ \A q \in Port : frame[q].number \in Int
    BY Types
  <2> QED
    BY <2>1 DEF TypeOK
<1>l. Link(s, d)
  BY DEF Line
<1>o. ~Known(Wire(d), Got(d), d)
  <2>1. \A i \in 1..Len(Wire(d)) : Wire(d)[i].of.source # d
    BY DEF Line
  <2>2. \A f \in Got(d) : f.source # d
    <3>1. Got(d) = Items(received[d])
      BY DEF Got, Items
    <3>2. \A f \in Frame : f # Corrupt
      BY UnitTypes
    <3> QED
      BY <3>1, <3>2 DEF Line, Delivered, Still
  <2> QED
    BY <2>1, <2>2 DEF Known
<1>1. CASE CloseConnection(p)
  <2>1. UNCHANGED <<connections, threadVars>> /\ (peerEnd'[d] = "open" => peerEnd[d] = "open")
    BY <1>t, <1>1 DEF CloseConnection
  <2> QED
    BY <1>l, <2>1, SameThread DEF threadVars
<1>2. CASE Leave(p)
  <2>1. UNCHANGED <<connections, threadVars>> /\ (peerEnd'[d] = "open" => peerEnd[d] = "open")
    BY <1>t, <1>2 DEF Leave
  <2> QED
    BY <1>l, <2>1, SameThread DEF threadVars
<1>3. CASE Send(p) \/ Receive(p)
  <2>1. UNCHANGED <<connections, threadVars, peerEnd>>
    BY <1>3 DEF Send, Receive, socketVars
  <2> QED
    BY <1>l, <2>1, SameThread DEF threadVars
<1>4. CASE NewPort(p)
  <2>1. /\ hubEnd[p] = "none" /\ thread[p] = "none" /\ thread' = [thread EXCEPT ![p] = "receive"]
        /\ UNCHANGED <<frame, destinations, target, left>>
        /\ connections' = connections \cup {p} /\ peerEnd' = [peerEnd EXCEPT ![p] = "open"]
    BY <1>4 DEF NewPort, Sockets
  <2>2. thread'[p] = "receive" /\ \A q \in Port : q # p => thread'[q] = thread[q]
    BY <1>t, <2>1
  <2>3. CASE d = p
    <3>1. Wire(d) = <<>> /\ Got(d) = {}
      BY <2>1, <2>3 DEF Wire, Got, Sockets
    <3>2. ~Known(Wire(d), Got(d), s)
      BY <3>1 DEF Known
    <3>3. ~Half(s, d)'
      <4>1. CASE s = p
        BY <2>2, <4>1 DEF Half
      <4>2. CASE s # p
        <5>1. ~Half(s, d)
          BY <2>1, <2>3 DEF Half, Aims, Served, Aimed
        <5> QED
          BY <2>1, <2>2, <4>2, <5>1 DEF Half
      <4> QED
        BY <4>1, <4>2
    <3>4. Begun(s, d) <= Begun(s, d)'
      <4>1. Begun(s, d)' = Begun(s, d)
        BY <2>1, <2>2 DEF Begun, Ahead
      <4> QED
        BY <4>1, BegunInt
    <3> QED
      BY <1>l, <3>2, <3>3, <3>4, ThreadPasses
  <2>4. CASE d # p
    <3>0. (d \in connections' => d \in connections) /\ peerEnd'[d] = peerEnd[d]
      BY <1>t, <2>1, <2>4
    <3>1. CASE s # p
      BY <1>l, <2>1, <2>2, <3>0, <3>1, SameThread
    <3>2. CASE s = p
      <4>1. ~Half(s, d)' /\ ~Aimed(s, d)' /\ Begun(s, d)' = Begun(s, d)
        BY <2>1, <2>2, <3>2 DEF Half, Aimed, Begun, Ahead
      <4>2. Begun(s, d) \in Int /\ Got(d)' = Got(d)
        BY BegunInt DEF Still, Got
      <4> QED
        BY <1>l, <3>0, <4>1, <4>2, QuietLink DEF Served, Still
    <3> QED
      BY <3>1, <3>2
  <2> QED
    BY <2>3, <2>4
\* The steps of a thread: the others' links do not change.
<1>5. ASSUME s # p, connections' \subseteq connections, peerEnd' = peerEnd,
             thread'[s] = thread[s], frame'[s] = frame[s], destinations'[s] = destinations[s],
             target'[s] = target[s], left'[s] = left[s]
      PROVE  Link(s, d)'
  BY <1>l, <1>5, SameThread
<1>6. CASE ReceiveFrame(p)
  <2>1. /\ UNCHANGED <<connections, peerEnd, destinations, target, left>>
        /\ \A q \in Port : q # p => frame'[q] = frame[q] /\ thread'[q] = thread[q]
        /\ thread[p] = "receive" /\ thread'[p] = "capture"
    BY <1>t, <1>6 DEF ReceiveFrame, Step, socketVars
  <2>2. CASE s # p
    BY <1>5, <2>1, <2>2
  <2>3. CASE s = p
    <3>1. frame'[p].number = frame[p].number + 1 /\ frame[p].number \in Nat
      BY <1>6, NextFrame
    <3>2. ~Half(s, d)' /\ ~Aimed(s, d)'
      BY <2>1, <2>3 DEF Half, Aimed
    <3>3. Begun(s, d)' = frame'[p].number - 1 /\ Begun(s, d) = frame[p].number
      BY <2>1, <2>3 DEF Begun, Ahead
    <3>4. Begun(s, d)' = Begun(s, d)
      BY <3>1, <3>3
    <3> QED
      BY <1>l, <2>1, <3>2, <3>4, ThreadMoves
  <2> QED
    BY <2>2, <2>3
<1>7. CASE ReceiveEnds(p) \/ LoopAgain(p)
  <2>1. /\ UNCHANGED <<connections, peerEnd, frame, destinations, target, left>>
        /\ \A q \in Port : q # p => thread'[q] = thread[q]
        /\ \/ thread[p] = "receive" /\ thread'[p] = "remove"
           \/ thread[p] = "send" /\ thread'[p] = "receive" /\ destinations[p] = {}
    <3>1. CASE ReceiveEnds(p)
      BY <1>t, <3>1 DEF ReceiveEnds, Step, socketVars
    <3>2. CASE LoopAgain(p)
      BY <1>t, <3>2 DEF LoopAgain, Step, socketVars
    <3> QED
      BY <1>7, <3>1, <3>2
  <2>2. CASE s # p
    BY <1>5, <2>1, <2>2
  <2>3. CASE s = p
    <3>1. ~Half(s, d)' /\ ~Aimed(s, d)' /\ Begun(s, d)' = Begun(s, d)
      BY <2>1, <2>3 DEF Half, Aimed, Begun, Ahead
    <3> QED
      BY <1>l, <2>1, <3>1, ThreadMoves
  <2> QED
    BY <2>2, <2>3
<1>13. CASE CaptureStep(p)
  <2>1. /\ UNCHANGED <<connections, peerEnd, frame, destinations, target, left>>
        /\ \A q \in Port : q # p => thread'[q] = thread[q]
        /\ thread[p] \in {"capture", "header", "payload", "flush"}
        /\ \/ thread'[p] \in {"header", "payload", "flush", "snapshot"}
           \/ thread'[p] = "remove" /\ pcapFile # "open"
    BY <1>13, CaptureMoves DEF socketVars
  <2>2. CASE s # p
    BY <1>5, <2>1, <2>2
  <2>3. CASE s = p /\ thread'[p] # "remove"
    <3>1. ~Half(s, d)' /\ ~Aimed(s, d)' /\ Begun(s, d)' = Begun(s, d)
      BY <2>1, <2>3 DEF Half, Aimed, Begun, Ahead
    <3> QED
      BY <1>l, <2>1, <3>1, ThreadMoves
  <2>4. CASE s = p /\ thread'[p] = "remove"
    <3>1. ~Half(s, d)' /\ Begun(s, d)' = frame[p].number
      BY <2>1, <2>4 DEF Half, Begun, Ahead
    <3>2. Begun(s, d) <= Begun(s, d)'
      BY <1>t, <2>4, <3>1 DEF Begun
    <3>3. peerEnd'[d] # "open"
      BY <2>1, <2>4 DEF Sockets
    <3> QED
      BY <1>l, <3>1, <3>2, <3>3, ThreadPasses
  <2> QED
    BY <2>2, <2>3, <2>4
<1>8. CASE Snapshot(p)
  <2>1. /\ UNCHANGED <<connections, peerEnd, frame, target, left>>
        /\ \A q \in Port : q # p => thread'[q] = thread[q] /\ destinations'[q] = destinations[q]
        /\ thread[p] = "snapshot" /\ thread'[p] = "send" /\ destinations'[p] = connections \ {p}
    BY <1>t, <1>8 DEF Snapshot, Step, socketVars
  <2>2. CASE s # p
    BY <1>5, <2>1, <2>2
  <2>3. CASE s = p
    <3>1. ~Half(s, d)' /\ (Aimed(s, d)' => Served(s, d)) /\ Begun(s, d) = frame[p].number - 1
      BY <2>1, <2>3 DEF Half, Aimed, Served, Begun, Ahead
    <3>2. CASE d \in connections \ {p}
      <4>1. Begun(s, d)' = Begun(s, d)
        BY <2>1, <2>3, <3>2 DEF Begun, Ahead
      <4> QED
        BY <1>l, <2>1, <3>1, <4>1, ThreadMoves
    <3>3. CASE d = p
      <4>1. Begun(s, d)' = frame[p].number
        BY <2>1, <2>3, <3>3 DEF Begun, Ahead
      <4>2. Begun(s, d) <= Begun(s, d)'
        BY <1>t, <3>1, <4>1
      <4> QED
        BY <1>l, <1>o, <2>3, <3>1, <3>3, <4>2, ThreadPasses
    <3>4. CASE d \notin connections
      <4>1. Begun(s, d)' = frame[p].number /\ ~Served(s, d)'
        BY <2>1, <2>3, <3>4 DEF Begun, Ahead, Served, Aimed
      <4>2. Begun(s, d) <= Begun(s, d)' /\ Begun(s, d) \in Int /\ Begun(s, d)' \in Int
        BY <1>t, <3>1, <4>1
      <4>3. Got(d)' = Got(d)
        BY DEF Still, Got
      <4> QED
        BY <1>l, <3>1, <4>1, <4>2, <4>3, QuietLink DEF Still
    <3> QED
      BY <3>2, <3>3, <3>4
  <2> QED
    BY <2>2, <2>3
<1>9. CASE \E e \in Port : NextDestination(p, e)
  <2>0. PICK e \in Port : NextDestination(p, e)
    BY <1>9
  <2>1. /\ UNCHANGED <<connections, peerEnd, frame>>
        /\ \A q \in Port : q # p => /\ thread'[q] = thread[q] /\ destinations'[q] = destinations[q]
                                    /\ target'[q] = target[q] /\ left'[q] = left[q]
        /\ thread[p] = "send" /\ thread'[p] = "sendall" /\ destinations'[p] = destinations[p] \ {e}
        /\ target'[p] = e /\ left'[p] = Units(frame[p]) /\ e \in destinations[p]
    BY <1>t, <2>0 DEF NextDestination, Step, socketVars
  <2>2. CASE s # p
    BY <1>5, <2>1, <2>2
  <2>3. CASE s = p
    <3>1. Len(left'[p]) = 2
      BY <2>1, UnitTypes DEF Threads, Written
    <3>2. ~Half(s, d)'
      BY <2>3, <3>1 DEF Half
    <3>3. Aimed(s, d)' => Served(s, d)
      BY <2>1, <2>3 DEF Aimed, Served
    <3>4. Begun(s, d)' = Begun(s, d)
      BY <2>1, <2>3, <3>1 DEF Begun, Ahead
    <3> QED
      BY <1>l, <2>1, <3>2, <3>3, <3>4, ThreadMoves
  <2> QED
    BY <2>2, <2>3
<1>10. CASE SendSome(p) /\ d # target[p]
  <2>1. /\ UNCHANGED <<connections, peerEnd, frame, destinations, target>>
        /\ \A q \in Port : q # p => thread'[q] = thread[q] /\ left'[q] = left[q]
        /\ thread[p] = "sendall" /\ thread'[p] \in {"send", "sendall"}
    BY <1>t, <1>10 DEF SendSome, socketVars
  <2>2. CASE s # p
    BY <1>5, <2>1, <2>2
  <2>3. CASE s = p
    <3>1. ~Half(s, d)' /\ (Aimed(s, d)' => Served(s, d)) /\ Begun(s, d)' = Begun(s, d)
      BY <1>10, <2>1, <2>3 DEF Half, Aimed, Served, Begun, Ahead
    <3> QED
      BY <1>l, <2>1, <3>1, ThreadMoves
  <2> QED
    BY <2>2, <2>3
<1>11. CASE SendFails(p)
  <2>1. /\ UNCHANGED <<peerEnd, frame, destinations, target, left>>
        /\ \A q \in Port : q # p => thread'[q] = thread[q]
        /\ thread[p] = "sendall" /\ thread'[p] = "send"
        /\ connections' \subseteq connections
    BY <1>t, <1>11 DEF SendFails, Step
  <2>2. target[p] \in Port /\ target[p] \notin destinations[p] /\ peerEnd[target[p]] = "closed"
    <3>1. target[p] \in Port /\ target[p] \notin destinations[p]
      BY <2>1 DEF Threads
    <3> QED
      BY <1>11, <3>1 DEF SendFails, Sockets
  <2>3. CASE s # p
    BY <1>5, <2>1, <2>3
  <2>4. CASE s = p /\ d # target[p]
    <3>1. ~Half(s, d)' /\ (Aimed(s, d)' => Served(s, d)) /\ Begun(s, d)' = Begun(s, d)
      BY <2>1, <2>4 DEF Half, Aimed, Served, Begun, Ahead
    <3> QED
      BY <1>l, <2>1, <3>1, ThreadMoves
  <2>5. CASE s = p /\ d = target[p]
    <3>1. ~Half(s, d)' /\ Begun(s, d)' = frame[p].number
      BY <2>1, <2>2, <2>5 DEF Half, Begun, Ahead
    <3>2. Begun(s, d) <= Begun(s, d)'
      BY <1>t, <2>5, <3>1 DEF Begun
    <3>3. peerEnd'[d] # "open"
      BY <2>1, <2>2, <2>5
    <3> QED
      BY <1>l, <3>1, <3>2, <3>3, ThreadPasses
  <2> QED
    BY <2>3, <2>4, <2>5
<1>12. CASE RemoveSource(p)
  <2>1. /\ UNCHANGED <<peerEnd, frame, destinations, target, left>>
        /\ \A q \in Port : q # p => thread'[q] = thread[q]
        /\ thread[p] = "remove" /\ thread'[p] = "ended"
        /\ connections' \subseteq connections
    BY <1>t, <1>12 DEF RemoveSource, Step
  <2>2. CASE s # p
    BY <1>5, <2>1, <2>2
  <2>3. CASE s = p
    <3>1. ~Half(s, d)' /\ ~Aimed(s, d)' /\ Begun(s, d)' = Begun(s, d)
      BY <2>1, <2>3 DEF Half, Aimed, Begun, Ahead
    <3> QED
      BY <1>l, <2>1, <3>1, ThreadMoves
  <2> QED
    BY <2>2, <2>3
<1> QED
  BY <1>1, <1>2, <1>3, <1>4, <1>6, <1>7, <1>8, <1>9, <1>10, <1>11, <1>12, <1>13 DEF PortStep

\* A participant that reads takes nothing off its line, or the next two units.
LEMMA WireRead ==
    ASSUME TypeOK, Sockets, NEW d \in Port, Receive(d)
    PROVE  LET w == Wire(d)
               f == Assemble(<<w[1], w[2]>>)
           IN  \/ Wire(d)' = w /\ received'[d] = received[d]
               \/ /\ Len(w) >= 2 /\ f \in {w[1].of, Corrupt} /\ f \in Frame \cup {Corrupt}
                  /\ received'[d] = Append(received[d], f) /\ Got(d)' = Got(d) \cup {f}
                  /\ f # Corrupt => Taken(w, Wire(d)', f)
<1> DEFINE w == Wire(d)
           v == Wire(d)'
           a == partial[d]
           b == down[d]
           t == Tail(b)
           f == Assemble(<<a[1], b[1]>>)
<1>1. b \in Seq(Unit) /\ Len(b) > 0 /\ down'[d] = t /\ a \in Seq(Unit)
  BY ReceiveStep DEF TypeOK
<1>2. w = a \o b /\ v = partial'[d] \o t
  BY <1>1 DEF Wire
<1>3. t \in Seq(Unit) /\ Len(t) = Len(b) - 1 /\ \A i \in 1..Len(t) : t[i] = b[i + 1]
  BY <1>1
<1> HIDE DEF b, t
<1>4. CASE partial[d] = <<>> /\ partial'[d] = <<b[1]>> /\ received' = received
  <2>1. w = b
    BY <1>1, <1>2, <1>4
  <2>2. v = <<b[1]>> \o t
    BY <1>2, <1>4
  <2>3. v = b
    BY <1>1, <1>3, <2>2 DEF t
  <2> QED
    BY <1>4, <2>1, <2>3
<1>5. CASE /\ Len(a) = 1 /\ partial'[d] = <<>> /\ received'[d] = Append(received[d], f)
           /\ f \in {a[1].of, Corrupt}
           /\ f # Corrupt => a[1] = First(f) /\ b[1] = Second(f)
  <2>1. a[1] \in Unit /\ a[1].of \in Frame
    <3>1. a[1] \in Unit
      BY <1>1, <1>5
    <3> QED
      BY <3>1 DEF Unit
  <2>2. f \in Frame \cup {Corrupt} /\ received[d] \in Seq(Frame \cup {Corrupt})
    BY <1>5, <2>1 DEF TypeOK
  <2>3. Items(received'[d]) = Items(received[d]) \cup {f}
    BY <1>5, <2>2, AppendItems
  <2>4. Got(d)' = Got(d) \cup {f}
    BY <2>3 DEF Got, Items
  <2> HIDE DEF f, a, w, v
  <2>5. v = t
    <3>1. v = <<>> \o t
      BY <1>2, <1>5 DEF v
    <3> QED
      BY <1>3, <3>1
  <2>6. /\ Len(w) = Len(a) + Len(b) /\ \A i \in 1..Len(a) : w[i] = a[i]
        /\ \A i \in 1..Len(b) : w[Len(a) + i] = b[i]
    BY <1>1, <1>2, Concatenated
  <2>7. Len(b) \in Nat /\ Len(b) > 0
    BY <1>1
  <2>8. w[1] = a[1] /\ w[1 + 1] = b[1] /\ 1 + 1 = 2 /\ Len(w) >= 2 /\ Len(w) = Len(v) + 2
    BY <1>3, <1>5, <2>5, <2>6, <2>7
  <2>9. ASSUME NEW i \in 1..Len(v) PROVE v[i] = w[i + 2]
    <3>1. i + 1 \in 1..Len(b) /\ 1 + (i + 1) = i + 2
      BY <1>3, <2>5, <2>7
    <3>2. w[1 + (i + 1)] = b[i + 1]
      BY <1>5, <2>6, <3>1
    <3> QED
      BY <1>3, <2>5, <3>1, <3>2
  <2>10. f # Corrupt => Taken(w, v, f)
    BY <1>3, <1>5, <2>5, <2>8, <2>9 DEF Taken
  <2>11. f = Assemble(<<w[1], w[2]>>) /\ f \in {w[1].of, Corrupt}
    BY <1>5, <2>8 DEF f
  <2> QED
    BY <1>5, <2>2, <2>4, <2>8, <2>10, <2>11 DEF w, v
<1> QED
  BY <1>4, <1>5, ReceiveStep DEF b

\* A participant that reads keeps its line sound.
LEMMA LineRead ==
    ASSUME TypeOK, TypeOK', Sockets, NEW d \in Port, Receive(d), Line(d),
           Corrupt \notin Got(d)'
    PROVE  Line(d)'
<1> DEFINE w == Wire(d)
           v == Wire(d)'
           got == Got(d)
           r == received[d]
           f == Assemble(<<w[1], w[2]>>)
<1>0. UNCHANGED <<connections, peerEnd, thread, frame, destinations, target, left>> /\ peerEnd[d] = "open"
  BY DEF Receive, socketVars, threadVars
<1>4. w \in Seq(Unit) /\ r \in Seq(Frame \cup {Corrupt}) /\ got \subseteq Frame \cup {Corrupt}
      /\ got = Items(r)
  <2>1. r \in Seq(Frame \cup {Corrupt})
    BY DEF TypeOK
  <2> QED
    BY <2>1, Types DEF Got, Items
<1>5. CASE v = w /\ received'[d] = r
  <2>1. Still(d)
    <3>1. Got(d)' = got
      BY <1>5 DEF Got
    <3> QED
      BY <1>4, <1>5, <3>1 DEF Still
  <2>2. ASSUME NEW s \in Port PROVE Link(s, d)'
    BY <1>0, <2>1, SameThread DEF Line
  <2> QED
    BY <2>1, <2>2, QuietLine DEF Still
<1>6. CASE /\ f \in Frame \cup {Corrupt} /\ received'[d] = Append(r, f) /\ Got(d)' = got \cup {f}
           /\ f # Corrupt => Taken(w, v, f)
  <2>4. got \subseteq Frame /\ f \in Frame
    BY <1>4, <1>6
  <2>8. Taken(w, v, f)
    BY <1>6
  <2> HIDE DEF f, w, v
  <2>9. Sound(w, got) /\ Delivered(r, d) /\ \A i \in 1..Len(w) : w[i].of.source # d
    BY DEF Line, w
  <2>10. /\ Sound(v, got \cup {f})
         /\ \A g \in got : g.source = f.source => g.number < f.number
         /\ FrameOf(f.source, f.number - 1) \in got \/ \A g \in got : g.source # f.source
    <3>1. w \in Seq(Unit)
      BY <1>4 DEF w
    <3> HIDE DEF got
    <3> QED
      BY <2>4, <2>8, <2>9, <3>1, FrameTaken
  <2>11. f.source # d
    <3>1. 1 \in 1..Len(w) /\ w[1] = First(f)
      BY <2>8 DEF Taken
    <3> QED
      BY <2>4, <2>9, <3>1, UnitTypes
  <2>12. \A i \in 1..Len(v) : v[i].of.source # d
    <3>1. \A i \in 1..Len(v) : v[i] = w[i + 2] /\ i + 2 \in 1..Len(w)
      BY <2>8 DEF Taken
    <3> QED
      BY <2>9, <3>1
  <2>13. Delivered(Append(r, f), d)
    <3>1. r \in Seq(Frame)
      <4>1. \A i \in 1..Len(r) : r[i] \in got
        BY <1>4 DEF Items
      <4> QED
        BY <1>4, <2>4, <4>1
    <3> QED
      BY <1>4, <2>4, <2>9, <2>10, <2>11, <3>1, NextDelivered
  <2>14. ASSUME NEW s \in Port PROVE Link(s, d)'
    <3> DEFINE n == Begun(s, d)
               g == frame[s]
    <3>0. n \in Int
      BY BegunInt
    <3>1. Begun(s, d)' = n /\ Half(s, d)' = Half(s, d) /\ Served(s, d)' = Served(s, d) /\ frame'[s] = g
      BY <1>0 DEF Begun, Ahead, Half, Served, Aimed
    <3>2. /\ UpTo(w, got, s, n) /\ (Half(s, d) => PrefixOnly(w, g) /\ Begins(w, g, Len(w)))
          /\ Served(s, d) /\ Known(w, got, s) => Reached(w, got, s, n)
      BY <1>0 DEF Line, Link, w
    <3> HIDE DEF n, g
    <3>3. /\ UpTo(w, got, s, n) => UpTo(v, got \cup {f}, s, n)
          /\ Known(v, got \cup {f}, s) => Known(w, got, s)
          /\ Reached(w, got, s, n) => Reached(v, got \cup {f}, s, n)
          /\ PrefixOnly(w, g) => PrefixOnly(v, g)
          /\ PrefixOnly(w, g) /\ Begins(w, g, Len(w)) => Begins(v, g, Len(v))
      BY <1>4, <2>4, <2>8, <3>0, SourceAfterTaken DEF w
    <3>4. UpTo(Wire(d), Got(d), s, Begun(s, d))'
      BY <1>6, <3>1, <3>2, <3>3 DEF UpTo, v
    <3>5. Half(s, d)' => PrefixOnly(Wire(d), frame[s])' /\ Begins(Wire(d), frame[s], Len(Wire(d)))'
      BY <3>1, <3>2, <3>3 DEF PrefixOnly, Begins, v
    <3>6. Served(s, d)' /\ Known(Wire(d), Got(d), s)' => Reached(Wire(d), Got(d), s, Begun(s, d))'
      BY <1>6, <3>1, <3>2, <3>3 DEF Known, Reached, Begins, v
    <3> QED
      BY <3>4, <3>5, <3>6 DEF Link
  <2>15. Sound(Wire(d), Got(d))'
    BY <1>6, <2>10 DEF Sound, Ordered, Paired, Behind, Chained, Begins, v
  <2>16. Delivered(received[d], d)'
    BY <1>6, <2>13 DEF Delivered, Items
  <2> QED
    BY <2>12, <2>14, <2>15, <2>16 DEF Line, v
<1> QED
  BY <1>5, <1>6, WireRead

\* A unit of s on the line of d: what it does to the links of the others.
LEMMA OtherLink ==
    ASSUME TypeOK, NEW d \in Port, NEW t \in Port, Link(t, d), NEW w, NEW v, NEW u \in Unit,
           w \in Seq(Unit), Extended(w, v, u), t # u.of.source,
           Got(d) \subseteq Frame, frame[t] = Corrupt \/ frame[t].source = t,
           NEW n \in Int, NEW midway \in BOOLEAN, NEW served \in BOOLEAN,
           UpTo(w, Got(d), t, n), midway => PrefixOnly(w, frame[t]) /\ Begins(w, frame[t], Len(w)),
           midway => frame[t] \in Frame,
           served /\ Known(w, Got(d), t) => Reached(w, Got(d), t, n)
    PROVE  /\ UpTo(v, Got(d), t, n) /\ (midway => PrefixOnly(v, frame[t]) /\ Begins(v, frame[t], Len(v)))
           /\ served /\ Known(v, Got(d), t) => Reached(v, Got(d), t, n)
<1>1. midway => frame[t].source = t
  BY UnitTypes
<1>2. /\ UpTo(w, Got(d), t, n) => UpTo(v, Got(d), t, n)
      /\ Known(v, Got(d), t) => Known(w, Got(d), t)
      /\ Reached(w, Got(d), t, n) => Reached(v, Got(d), t, n)
      /\ frame[t].source = t /\ PrefixOnly(w, frame[t]) => PrefixOnly(v, frame[t])
      /\ Begins(w, frame[t], Len(w)) => Begins(v, frame[t], Len(v))
  BY OtherSource
<1> QED
  BY <1>1, <1>2

\* Whoever sends to a participant keeps its line sound.
LEMMA LineSent ==
    ASSUME TypeOK, TypeOK', Sockets, Threads, NEW s \in Port, SendSome(s), Line(target[s]),
           Corrupt \notin Got(target[s])
    PROVE  Line(target[s])'
<1> DEFINE d == target[s]
           f == frame[s]
           n == f.number
           w == Wire(d)
           v == Wire(d)'
           got == Got(d)
           a == partial[d]
           b == down[d]
<1>1. /\ f \in Frame /\ d \in Port /\ d # s /\ d \notin destinations[s]
      /\ thread[s] = "sendall" /\ peerEnd[d] = "open"
      /\ \/ /\ left[s] = Units(f) /\ left' = [left EXCEPT ![s] = <<Second(f)>>]
            /\ thread' = thread
            /\ down' = [down EXCEPT ![d] = @ \o <<First(f)>>]
         \/ /\ left[s] = Units(f) /\ left' = [left EXCEPT ![s] = <<>>]
            /\ thread' = [thread EXCEPT ![s] = "send"]
            /\ down' = [down EXCEPT ![d] = @ \o Units(f)]
         \/ /\ left[s] = <<Second(f)>> /\ left' = [left EXCEPT ![s] = <<>>]
            /\ thread' = [thread EXCEPT ![s] = "send"]
            /\ down' = [down EXCEPT ![d] = @ \o <<Second(f)>>]
  BY SendSomeStep
<1>2. /\ UNCHANGED <<connections, peerEnd, frame, destinations, target, partial, received>>
      /\ \A t \in Port : t # s => thread'[t] = thread[t] /\ left'[t] = left[t]
  BY DEF SendSome, socketVars
<1>3. /\ f.source = s /\ f = FrameOf(s, n) /\ n \in Nat \ {0} /\ First(f) \in Unit /\ Second(f) \in Unit
      /\ First(f).of = f /\ Second(f).of = f
      /\ Units(f) = <<First(f), Second(f)>> /\ Len(Units(f)) = 2 /\ Len(<<Second(f)>>) = 1
  <2>1. f.source = s
    BY <1>1, UnitTypes DEF Threads
  <2>2. n \in Nat \ {0}
    BY <1>1 DEF Frame
  <2> QED
    BY <1>1, <2>1, <2>2, UnitTypes
<1>4. a \in Seq(Unit) /\ b \in Seq(Unit) /\ w = a \o b /\ v = a \o down'[d] /\ w \in Seq(Unit)
  BY <1>1, <1>2, Types DEF TypeOK, Wire
<1>5. Got(d)' = got /\ got \subseteq Frame
  <2>1. received[d] \in Seq(Frame \cup {Corrupt})
    BY <1>1 DEF TypeOK
  <2>2. Got(d) \subseteq Frame \cup {Corrupt}
    BY <2>1 DEF Got
  <2> QED
    BY <1>2, <2>2 DEF Got
<1>6. /\ Sound(w, got) /\ Delivered(received[d], d) /\ \A i \in 1..Len(w) : w[i].of.source # d
      /\ \A t \in Port : Link(t, d)
  BY DEF Line
<1>7. \A t \in Port : t # s => /\ Begun(t, d)' = Begun(t, d) /\ Half(t, d)' = Half(t, d)
                               /\ Served(t, d)' = Served(t, d) /\ frame'[t] = frame[t]
  BY <1>2 DEF Begun, Ahead, Half, Served, Aimed
\* What is left to show once the line is known.
<1>8. ASSUME Sound(v, got), \A i \in 1..Len(v) : v[i].of.source # d,
             UpTo(v, got, s, n), Reached(v, got, s, n),
             Half(s, d)' => PrefixOnly(v, f) /\ Begins(v, f, Len(v)),
             ~Ahead(s, d)',
             \A t \in Port : t # s =>
                 /\ UpTo(v, got, t, Begun(t, d))
                 /\ Half(t, d) => PrefixOnly(v, frame[t]) /\ Begins(v, frame[t], Len(v))
                 /\ Served(t, d) /\ Known(v, got, t) => Reached(v, got, t, Begun(t, d))
      PROVE  Line(d)'
  <2>1. Sound(Wire(d), Got(d))'
    BY <1>5, <1>8 DEF Sound, Ordered, Paired, Behind, Chained, Begins
  <2>2. Delivered(received[d], d)'
    BY <1>2, <1>6 DEF Delivered, Items
  <2>3. ASSUME NEW t \in Port PROVE Link(t, d)'
    <3> DEFINE m == IF t = s THEN n ELSE Begun(t, d)
    <3>1. Begun(t, d)' = m /\ frame'[t] = frame[t]
      BY <1>2, <1>7, <1>8 DEF Begun
    <3>2. /\ UpTo(v, got, t, m)
          /\ Half(t, d)' => PrefixOnly(v, frame[t]) /\ Begins(v, frame[t], Len(v))
          /\ Served(t, d)' /\ Known(v, got, t) => Reached(v, got, t, m)
      BY <1>7, <1>8
    <3> HIDE DEF m, v, got
    <3>3. UpTo(Wire(d), Got(d), t, Begun(t, d))'
      BY <1>5, <3>1, <3>2 DEF UpTo, v
    <3>4. Half(t, d)' => PrefixOnly(Wire(d), frame[t])' /\ Begins(Wire(d), frame[t], Len(Wire(d)))'
      BY <3>1, <3>2 DEF PrefixOnly, Begins, v
    <3>5. Served(t, d)' /\ Known(Wire(d), Got(d), t)' => Reached(Wire(d), Got(d), t, Begun(t, d))'
      BY <1>5, <3>1, <3>2 DEF Known, Reached, Begins, v
    <3> QED
      BY <3>3, <3>4, <3>5 DEF Link
  <2> QED
    BY <1>2, <1>8, <2>1, <2>2, <2>3 DEF Line
\* The links of the others, on a line with one more unit of f.
<1>9. ASSUME NEW x, NEW y, NEW u \in {First(f), Second(f)}, x \in Seq(Unit), Extended(x, y, u),
             \A t \in Port : t # s =>
                 /\ UpTo(x, got, t, Begun(t, d))
                 /\ Half(t, d) => PrefixOnly(x, frame[t]) /\ Begins(x, frame[t], Len(x))
                 /\ Served(t, d) /\ Known(x, got, t) => Reached(x, got, t, Begun(t, d))
      PROVE  \A t \in Port : t # s =>
                 /\ UpTo(y, got, t, Begun(t, d))
                 /\ Half(t, d) => PrefixOnly(y, frame[t]) /\ Begins(y, frame[t], Len(y))
                 /\ Served(t, d) /\ Known(y, got, t) => Reached(y, got, t, Begun(t, d))
  <2> SUFFICES ASSUME NEW t \in Port, t # s
               PROVE  /\ UpTo(y, got, t, Begun(t, d))
                      /\ Half(t, d) => PrefixOnly(y, frame[t]) /\ Begins(y, frame[t], Len(y))
                      /\ Served(t, d) /\ Known(y, got, t) => Reached(y, got, t, Begun(t, d))
    OBVIOUS
  <2> DEFINE m == Begun(t, d)
             h == Half(t, d)
             e == Served(t, d)
  <2>1. u \in Unit /\ t # u.of.source
    BY <1>3
  <2>2. m \in Int /\ Link(t, d) /\ (frame[t] = Corrupt \/ frame[t].source = t)
    BY <1>1, <1>6, BegunInt DEF Threads
  <2>3. h => frame[t] \in Frame
    BY DEF Half, Threads, Written
  <2>4. h \in BOOLEAN /\ e \in BOOLEAN
    BY DEF Half, Served, Aimed
  <2>5. /\ UpTo(x, got, t, m)
        /\ h => PrefixOnly(x, frame[t]) /\ Begins(x, frame[t], Len(x))
        /\ e /\ Known(x, got, t) => Reached(x, got, t, m)
    BY <1>9
  <2> HIDE DEF m, h, e
  <2>6. /\ UpTo(y, got, t, m)
        /\ h => PrefixOnly(y, frame[t]) /\ Begins(y, frame[t], Len(y))
        /\ e /\ Known(y, got, t) => Reached(y, got, t, m)
    BY <1>1, <1>5, <1>9, <2>1, <2>2, <2>3, <2>4, <2>5, OtherLink
  <2> QED
    BY <2>6 DEF m, h, e
<1>10. \A t \in Port : t # s =>
           /\ UpTo(w, got, t, Begun(t, d))
           /\ Half(t, d) => PrefixOnly(w, frame[t]) /\ Begins(w, frame[t], Len(w))
           /\ Served(t, d) /\ Known(w, got, t) => Reached(w, got, t, Begun(t, d))
  BY <1>1, <1>6 DEF Link
\* No unit of f is of d.
<1>11. ASSUME NEW x, NEW y, NEW u \in {First(f), Second(f)}, x \in Seq(Unit), Extended(x, y, u),
              \A i \in 1..Len(x) : x[i].of.source # d
       PROVE  \A i \in 1..Len(y) : y[i].of.source # d
  <2>1. Len(x) \in Nat /\ \A i \in 1..(Len(x) + 1) : i \in 1..Len(x) \/ i = Len(x) + 1
    BY <1>11
  <2>2. u.of.source # d
    BY <1>1, <1>3
  <2> QED
    BY <1>11, <2>1, <2>2 DEF Extended
<1>12. CASE left[s] = Units(f)
  <2>1. Begun(s, d) = n - 1 /\ Served(s, d)
    BY <1>1, <1>3, <1>12 DEF Begun, Ahead, Served, Aimed
  <2>2. UpTo(w, got, s, n - 1) /\ (Known(w, got, s) => Reached(w, got, s, n - 1))
    BY <1>1, <1>6, <2>1 DEF Link
  <2> DEFINE x == a \o (b \o <<First(f)>>)
  <2>3. x \in Seq(Unit) /\ Extended(w, x, First(f)) /\ Extended(x, a \o (b \o Units(f)), Second(f))
    BY <1>3, <1>4, WireExtended
  <2> HIDE DEF x
  <2>4. /\ Sound(x, got) /\ UpTo(x, got, s, n) /\ Reached(x, got, s, n)
        /\ PrefixOnly(x, f) /\ Begins(x, f, Len(x))
    <3>1. /\ w \in Seq(Unit) /\ got \in SUBSET Frame /\ n \in Nat \ {0}
          /\ Extended(w, x, First(FrameOf(s, n))) /\ Sound(w, got) /\ f = FrameOf(s, n)
      BY <1>3, <1>4, <1>5, <1>6, <2>3
    <3> HIDE DEF w, n, got, f
    <3>2. /\ Sound(x, got) /\ UpTo(x, got, s, n) /\ Reached(x, got, s, n)
          /\ PrefixOnly(x, FrameOf(s, n)) /\ Begins(x, FrameOf(s, n), Len(x))
      BY <2>2, <3>1, FirstSent
    <3> QED
      BY <3>1, <3>2
  <2>5. \A i \in 1..Len(x) : x[i].of.source # d
    BY <1>4, <1>6, <1>11, <2>3
  <2>6. \A t \in Port : t # s =>
            /\ UpTo(x, got, t, Begun(t, d))
            /\ Half(t, d) => PrefixOnly(x, frame[t]) /\ Begins(x, frame[t], Len(x))
            /\ Served(t, d) /\ Known(x, got, t) => Reached(x, got, t, Begun(t, d))
    BY <1>4, <1>9, <1>10, <2>3
  <2>7. CASE /\ left' = [left EXCEPT ![s] = <<Second(f)>>] /\ thread' = thread
             /\ down' = [down EXCEPT ![d] = @ \o <<First(f)>>]
    <3>1. v = x
      BY <1>1, <1>4, <2>7, ZenonT(60) DEF x, TypeOK
    <3>2. ~Ahead(s, d)'
      <4>1. Len(left'[s]) = 1
        BY <1>3, <2>7 DEF TypeOK
      <4> QED
        <5>1. thread'[s] = "sendall" /\ d' = d /\ destinations' = destinations /\ d \notin destinations[s]
          BY <1>1, <1>2, <2>7
        <5> QED
          BY <4>1, <5>1 DEF Ahead
    <3> QED
      BY <1>8, <2>4, <2>5, <2>6, <3>1, <3>2
  <2>8. CASE /\ left' = [left EXCEPT ![s] = <<>>] /\ thread' = [thread EXCEPT ![s] = "send"]
             /\ down' = [down EXCEPT ![d] = @ \o Units(f)]
    <3>1. v = a \o (b \o Units(f))
      BY <1>1, <1>4, <2>8, ZenonT(60) DEF TypeOK
    <3> HIDE DEF v
    <3>2. Extended(x, v, Second(f))
      BY <2>3, <3>1
    <3>3. Sound(v, got) /\ UpTo(v, got, s, n) /\ Reached(v, got, s, n)
      <4> HIDE DEF n, got
      <4> QED
        BY <1>3, <1>5, <2>3, <2>4, <3>2, SecondSent
    <3>4. \A i \in 1..Len(v) : v[i].of.source # d
      BY <1>11, <2>3, <2>5, <3>2
    <3>5. \A t \in Port : t # s =>
              /\ UpTo(v, got, t, Begun(t, d))
              /\ Half(t, d) => PrefixOnly(v, frame[t]) /\ Begins(v, frame[t], Len(v))
              /\ Served(t, d) /\ Known(v, got, t) => Reached(v, got, t, Begun(t, d))
      BY <1>9, <2>3, <2>6, <3>2
    <3>6. ~Ahead(s, d)' /\ ~Half(s, d)'
      <4>1. thread'[s] = "send"
        BY <2>8 DEF TypeOK
      <4> QED
        BY <1>1, <1>2, <4>1 DEF Ahead, Half
    <3> QED
      BY <1>8, <3>3, <3>4, <3>5, <3>6
  <2> QED
    BY <1>1, <1>3, <1>12, <2>7, <2>8
<1>13. CASE left[s] = <<Second(f)>>
  <2>0. /\ left' = [left EXCEPT ![s] = <<>>] /\ thread' = [thread EXCEPT ![s] = "send"]
        /\ down' = [down EXCEPT ![d] = @ \o <<Second(f)>>]
    BY <1>1, <1>3, <1>13
  <2>1. Begun(s, d) = n /\ Half(s, d)
    BY <1>1, <1>3, <1>13 DEF Begun, Ahead, Half
  <2>2. UpTo(w, got, s, n) /\ PrefixOnly(w, f) /\ Begins(w, f, Len(w))
    BY <1>1, <1>6, <2>1 DEF Link
  <2>3. v = a \o (b \o <<Second(f)>>)
    BY <1>1, <1>4, <2>0, ZenonT(60) DEF TypeOK
  <2>4. Extended(w, v, Second(f))
    BY <1>3, <1>4, <2>3, WireExtended
  <2>5. Sound(v, got) /\ UpTo(v, got, s, n) /\ Reached(v, got, s, n)
    <3> HIDE DEF n, got, v, w
    <3> QED
      BY <1>3, <1>4, <1>5, <1>6, <2>2, <2>4, SecondSent
  <2>6. \A i \in 1..Len(v) : v[i].of.source # d
    BY <1>4, <1>6, <1>11, <2>4
  <2>7. \A t \in Port : t # s =>
            /\ UpTo(v, got, t, Begun(t, d))
            /\ Half(t, d) => PrefixOnly(v, frame[t]) /\ Begins(v, frame[t], Len(v))
            /\ Served(t, d) /\ Known(v, got, t) => Reached(v, got, t, Begun(t, d))
    BY <1>4, <1>9, <1>10, <2>4
  <2>8. ~Ahead(s, d)' /\ ~Half(s, d)'
    <3>1. thread'[s] = "send"
      BY <2>0 DEF TypeOK
    <3> QED
      BY <1>1, <1>2, <3>1 DEF Ahead, Half
  <2> QED
    BY <1>8, <2>5, <2>6, <2>7, <2>8
<1> QED
  BY <1>1, <1>2, <1>12, <1>13

\* Every step keeps every line that has lost no frame to a mixture.
LEMMA LinesKept ==
    ASSUME TypeOK, TypeOK', Sockets, Threads, Aims, Upstream, Lines, Next
    PROVE  Lines'
<1> SUFFICES ASSUME NEW d \in Port, Corrupt \notin Got(d)' PROVE Line(d)'
  BY DEF Lines
<1>1. ASSUME received'[d] = received[d]
      PROVE  /\ Line(d) /\ Got(d) \subseteq Frame /\ Wire(d) \in Seq(Unit)
             /\ (Wire(d)' = Wire(d) => Still(d))
  <2>1. Got(d)' = Got(d)
    BY <1>1 DEF Got
  <2>2. Got(d) \subseteq Frame \cup {Corrupt}
    <3>1. received[d] \in Seq(Frame \cup {Corrupt})
      BY DEF TypeOK
    <3> QED
      BY <3>1 DEF Got
  <2> QED
    BY <1>1, <2>1, <2>2, Types DEF Lines, Still
<1>2. CASE OwnerStep
  <2>1. /\ UNCHANGED <<peerEnd, threadVars, trafficVars>> /\ connections' \subseteq connections
    BY <1>2, OwnerMoves
  <2>2. Wire(d)' = Wire(d) /\ received'[d] = received[d]
    BY <2>1 DEF Wire, trafficVars
  <2>3. \A s \in Port : Link(s, d)'
    BY <1>1, <2>1, <2>2, SameThread DEF Line, threadVars
  <2> QED
    BY <1>1, <2>2, <2>3, QuietLine
<1> SUFFICES ASSUME NEW p \in Port, PortStep(p) PROVE Line(d)'
  BY <1>2, Steps
<1>3. CASE Receive(p) /\ p = d
  <2>1. Corrupt \notin Got(d)
    <3>1. received[d] \in Seq(Frame \cup {Corrupt}) /\ partial[d] \in Seq(Unit)
      BY DEF TypeOK
    <3> DEFINE f == Assemble(<<partial[d][1], down[d][1]>>)
    <3>2. CASE received' = received
      BY <3>2 DEF Got
    <3>3. CASE Len(partial[d]) = 1 /\ received'[d] = Append(received[d], f) /\ f \in {partial[d][1].of, Corrupt}
      <4>1. partial[d][1] \in Unit
        BY <3>1, <3>3
      <4>2. f \in Frame \cup {Corrupt}
        BY <3>3, <4>1 DEF Unit
      <4>3. Items(received'[d]) = Items(received[d]) \cup {f}
        BY <3>1, <3>3, <4>2, AppendItems
      <4> QED
        BY <4>3 DEF Got, Items
    <3> QED
      BY <1>3, <3>2, <3>3, ReceiveStep
  <2> QED
    BY <1>3, <2>1, LineRead DEF Lines
<1>4. CASE SendSome(p) /\ d = target[p]
  <2>1. received' = received /\ target' = target
    BY <1>4 DEF SendSome
  <2>2. Corrupt \notin Got(d)
    BY <2>1 DEF Got
  <2>3. Line(target[p])'
    BY <1>4, <2>2, LineSent DEF Lines
  <2> QED
    BY <1>4, <2>1, <2>3
<1>5. CASE ~(Receive(p) /\ p = d) /\ ~(SendSome(p) /\ d = target[p])
  <2>1. partial'[d] = partial[d] /\ down'[d] = down[d] /\ received'[d] = received[d]
    <3>1. CASE Receive(p)
      BY <1>5, <3>1, ReceiveStep
    <3>2. CASE SendSome(p)
      BY <1>5, <3>2 DEF SendSome
    <3>3. CASE ~Receive(p) /\ ~SendSome(p)
      BY <3>3, CaptureMoves
         DEF PortStep, NewPort, CloseConnection, ReceiveFrame, ReceiveEnds, Snapshot,
             NextDestination, LoopAgain, SendFails, RemoveSource, Send, Leave, trafficVars
    <3> QED
      BY <3>1, <3>2, <3>3
  <2>2. Still(d) /\ Line(d)
    BY <1>1, <2>1 DEF Wire
  <2>3. \A s \in Port : Link(s, d)'
    BY <1>5, <2>2, LinkKept
  <2> QED
    BY <2>2, <2>3, QuietLine DEF Still
<1> QED
  BY <1>3, <1>4, <1>5

\* Every step keeps the invariant.
LEMMA HubStep == HubInv /\ [Next]_vars => HubInv'
<1> SUFFICES ASSUME HubInv, [Next]_vars PROVE HubInv'
  OBVIOUS
<1>1. CASE Next
  BY <1>1, TypesKept, SocketsKept, ThreadsKept, AimsKept, UpstreamKept, CapturedKept, LockedKept,
     LinesKept DEF HubInv
<1>2. CASE UNCHANGED vars
  <2> USE <1>2 DEF vars, ownerVars, socketVars, threadVars, trafficVars, captureVars
  <2>1. TypeOK'
    BY DEF HubInv, TypeOK
  <2>2. Sockets' /\ Threads' /\ Aims' /\ Upstream'
    BY DEF HubInv, Sockets, Threads, Aims, Served, Aimed, Upstream
  <2>3. Captured'
    <3>1. Recorded' = Recorded /\ \A q \in Port : Got(q)' = Got(q)
      BY DEF Recorded, Got
    <3> QED
      BY <3>1 DEF HubInv, Captured
  <2>4. Locked'
    BY DEF HubInv, Locked, HoldsLock, Recorded
  <2>5. Lines'
    <3> SUFFICES ASSUME NEW d \in Port, Corrupt \notin Got(d)' PROVE Line(d)'
      BY DEF Lines
    <3>1. Wire(d)' = Wire(d) /\ received'[d] = received[d] /\ Got(d)' = Got(d)
      BY DEF Wire, Got
    <3>2. Line(d) /\ Wire(d) \in Seq(Unit)
      BY <3>1, Types DEF HubInv, Lines
    <3>3. Got(d) \subseteq Frame
      <4>1. received[d] \in Seq(Frame \cup {Corrupt})
        BY DEF HubInv, TypeOK
      <4>2. Got(d) \subseteq Frame \cup {Corrupt}
        BY <4>1 DEF Got
      <4> QED
        BY <3>1, <4>2
    <3>4. ASSUME NEW s \in Port PROVE Link(s, d)'
      BY <2>1, <3>1, <3>2, <3>3, SameThread DEF HubInv, Line, Still
    <3> QED
      BY <3>1, <3>2, <3>4, QuietLine
  <2> QED
    BY <2>1, <2>2, <2>3, <2>4, <2>5 DEF HubInv
<1> QED
  BY <1>1, <1>2

\* HubInv is an invariant of the hub, whatever the ports send and whoever leaves.
THEOREM HubInvariant == Spec => []HubInv
<1>1. Init /\ [][Next]_vars => []HubInv
  BY HubInit, HubStep, PTL
<1> QED
  BY <1>1, PTL DEF Spec

\* The capture file is a faithful record for every number of ports, however the threads
\* interleave, and also when they mix their frames on a socket: it has every frame that
\* reached a participant, whole and once.  close() may close the file between any two
\* calls of a thread that writes; what it cuts is a record of a frame nobody received.
THEOREM CaptureComplete == Spec => []CaptureIsComplete
<1>1. HubInv => CaptureIsComplete
  <2> SUFFICES ASSUME HubInv PROVE CaptureIsComplete
    OBVIOUS
  <2>1. DOMAIN pcap = 1..Len(pcap)
    BY DEF HubInv, TypeOK
  <2> QED
    BY <2>1 DEF HubInv, Captured, Locked, CaptureIsComplete, Recorded, Items
<1> QED
  BY <1>1, HubInvariant, PTL

\* A participant that reads whole frames has those of each source in the order they
\* were sent, none twice and none missing in between, and none of its own.
THEOREM OrderWhileIntact == Spec => [](FramesIntact => InOrderOnce)
<1>1. HubInv => (FramesIntact => InOrderOnce)
  <2> SUFFICES ASSUME HubInv, FramesIntact PROVE InOrderOnce
    OBVIOUS
  <2>1. ASSUME NEW p \in Port PROVE Delivered(received[p], p) /\ Got(p) = Items(received[p])
    BY DEF HubInv, Lines, Line, FramesIntact, Got, Items
  <2> QED
    BY <2>1 DEF InOrderOnce, Delivered
<1> QED
  BY <1>1, HubInvariant, PTL

-----------------------------------------------------------------------------
(***************************************************************************)
(* Where at most one other port sends, frames stay whole: between two      *)
(* ports, and from one port to many.                                       *)
(***************************************************************************)
Lone(d) == \A p, q \in Port \ {d} : Budget[p] > 0 /\ Budget[q] > 0 => p = q

\* Every prefix is followed by its payload, every payload by a prefix.
Packets(w) ==
    /\ Len(w) > 0 => w[1].part = 1
    /\ \A i \in 1..(Len(w) - 1) :
           /\ w[i].part = 1 => w[i + 1] = Second(w[i].of)
           /\ w[i].part = 2 => w[i + 1].part = 1

\* The line ends in a prefix exactly while some thread is half way through that frame.
Clean(d) ==
    LET w == Wire(d)
    IN  /\ Corrupt \notin Got(d) /\ Packets(w)
        /\ peerEnd[d] = "open" =>
               /\ Len(w) > 0 /\ w[Len(w)].part = 1 =>
                      \E s \in Port : Half(s, d) /\ w[Len(w)] = First(frame[s])
               /\ \A s \in Port : Half(s, d) => Len(w) > 0 /\ w[Len(w)] = First(frame[s])

\* Who is half way through a frame to d has sent one.
LEMMA HalfSent ==
    ASSUME TypeOK, Threads, Upstream, NEW s \in Port, NEW d \in Port,
           thread[s] = "sendall", target[s] = d
    PROVE  s # d /\ Budget[s] > 0
<1>1. s # d /\ frame[s] \in Frame
  BY DEF Threads, Written
<1>2. frame[s].number \in Nat \ {0} /\ Len(up[s]) \in Nat /\ sent[s] = frame[s].number + Len(up[s])
      /\ sent[s] <= Budget[s] /\ Budget[s] \in Nat
  BY <1>1, Types, HubAssumption DEF Upstream, HubAssumption
<1> QED
  BY <1>1, <1>2

\* One packet more on a line of packets.
LEMMA PacketsSent ==
    ASSUME NEW w \in Seq(Unit), NEW v, NEW u \in Unit, Extended(w, v, u), Packets(w),
           \/ u.part = 1 /\ (Len(w) > 0 => w[Len(w)].part = 2)
           \/ Len(w) > 0 /\ w[Len(w)].part = 1 /\ u = Second(w[Len(w)].of)
    PROVE  Packets(v) /\ Len(v) > 0 /\ v[Len(v)] = u
<1> DEFINE l == Len(w)
<1>1. l \in Nat /\ v \in Seq(Unit) /\ Len(v) = l + 1 /\ v[l + 1] = u /\ \A i \in 1..l : v[i] = w[i]
  BY DEF Extended
<1>2. v[1].part = 1
  <2>1. CASE l = 0
    BY <1>1, <2>1
  <2>2. CASE l > 0
    BY <1>1, <2>2 DEF Packets
  <2> QED
    BY <1>1, <2>1, <2>2
<1>3. ASSUME NEW i \in 1..(Len(v) - 1)
      PROVE  /\ v[i].part = 1 => v[i + 1] = Second(v[i].of)
             /\ v[i].part = 2 => v[i + 1].part = 1
  <2>1. i \in 1..l /\ v[i] = w[i]
    BY <1>1
  <2>2. CASE i = l
    <3>1. v[i + 1] = u /\ l > 0 /\ v[i] = w[l]
      BY <1>1, <2>1, <2>2
    <3>2. Second(w[l].of).part = 2
      BY DEF Second
    <3> QED
      BY <3>1, <3>2
  <2>3. CASE i # l
    <3>1. i \in 1..(l - 1) /\ i + 1 \in 1..l
      BY <1>1, <2>1, <2>3
    <3>2. v[i + 1] = w[i + 1]
      BY <1>1, <3>1
    <3> QED
      BY <2>1, <3>1, <3>2 DEF Packets
  <2> QED
    BY <2>2, <2>3
<1> QED
  BY <1>1, <1>2, <1>3 DEF Packets

\* One packet less.
LEMMA PacketsTaken ==
    ASSUME NEW w \in Seq(Unit), NEW v, NEW f, Taken(w, v, f), Packets(w)
    PROVE  Packets(v) /\ (Len(v) > 0 => v[Len(v)] = w[Len(w)])
<1> DEFINE l == Len(v)
<1>1. l \in Nat /\ Len(w) = l + 2 /\ \A i \in 1..l : v[i] = w[i + 2]
  BY DEF Taken
<1>2. l > 0 => v[1].part = 1
  <2> SUFFICES ASSUME l > 0 PROVE v[1].part = 1
    OBVIOUS
  <2>1. 2 \in 1..(Len(w) - 1) /\ v[1] = w[2 + 1]
    BY <1>1
  <2>2. w[2].part = 2
    BY DEF Taken, Second
  <2> QED
    BY <2>1, <2>2 DEF Packets
<1>3. ASSUME NEW i \in 1..(l - 1)
      PROVE  /\ v[i].part = 1 => v[i + 1] = Second(v[i].of)
             /\ v[i].part = 2 => v[i + 1].part = 1
  <2>1. i \in 1..l /\ i + 1 \in 1..l /\ i + 2 \in 1..(Len(w) - 1) /\ (i + 1) + 2 = (i + 2) + 1
    BY <1>1
  <2>2. v[i] = w[i + 2] /\ v[i + 1] = w[(i + 2) + 1]
    BY <1>1, <2>1
  <2> QED
    BY <2>1, <2>2 DEF Packets
<1> QED
  BY <1>1, <1>2, <1>3 DEF Packets

\* A step that leaves the line of d alone keeps it clean.
LEMMA CleanStill ==
    ASSUME NEW d \in Port, Clean(d), Wire(d)' = Wire(d), received'[d] = received[d],
           peerEnd'[d] = "open" => \/ peerEnd[d] = "open"
                                   \/ Wire(d) = <<>> /\ \A s \in Port : ~Half(s, d)',
           peerEnd'[d] = "open" /\ peerEnd[d] = "open" =>
               \A s \in Port : Half(s, d)' = Half(s, d) /\ (Half(s, d) => frame'[s] = frame[s])
    PROVE  Clean(d)'
<1>1. Got(d)' = Got(d)
  BY DEF Got
<1>2. Packets(Wire(d))'
  BY DEF Clean, Packets
<1> DEFINE w == Wire(d)
<1>3. CASE peerEnd'[d] # "open"
  BY <1>1, <1>2, <1>3 DEF Clean
<1>4. CASE peerEnd'[d] = "open" /\ peerEnd[d] = "open"
  <2>1. /\ Len(w) > 0 /\ w[Len(w)].part = 1 => \E s \in Port : Half(s, d) /\ w[Len(w)] = First(frame[s])
        /\ \A s \in Port : Half(s, d) => Len(w) > 0 /\ w[Len(w)] = First(frame[s])
    BY <1>4 DEF Clean
  <2>2. /\ Len(w) > 0 /\ w[Len(w)].part = 1 => \E s \in Port : Half(s, d)' /\ w[Len(w)] = First(frame'[s])
        /\ \A s \in Port : Half(s, d)' => Len(w) > 0 /\ w[Len(w)] = First(frame'[s])
    BY <1>4, <2>1
  <2> QED
    BY <1>1, <1>2, <2>2 DEF Clean
<1>5. CASE Wire(d) = <<>> /\ \A s \in Port : ~Half(s, d)'
  <2>1. ~(Len(w) > 0)
    BY <1>5
  <2> QED
    BY <1>1, <1>2, <1>5, <2>1 DEF Clean
<1> QED
  BY <1>3, <1>4, <1>5

\* A port that reads keeps its line clean.
LEMMA CleanRead ==
    ASSUME TypeOK, Sockets, NEW d \in Port, Clean(d), Receive(d)
    PROVE  Clean(d)'
<1> DEFINE w == Wire(d)
           v == Wire(d)'
           f == Assemble(<<w[1], w[2]>>)
<1>0. UNCHANGED <<peerEnd, thread, frame, target, left>> /\ peerEnd[d] = "open"
  BY DEF Receive, socketVars, threadVars
<1>1. \A s \in Port : Half(s, d)' = Half(s, d) /\ frame'[s] = frame[s]
  BY <1>0 DEF Half
<1>2. CASE v = w /\ received'[d] = received[d]
  BY <1>0, <1>1, <1>2, CleanStill
<1>3. CASE /\ Len(w) >= 2 /\ Got(d)' = Got(d) \cup {f} /\ (f # Corrupt => Taken(w, v, f))
  <2>1. w \in Seq(Unit) /\ Len(w) \in Nat /\ 1 \in 1..Len(w) /\ 2 \in 1..Len(w) /\ 1 \in 1..(Len(w) - 1)
    BY <1>3, Types
  <2>2. w[1].part = 1 /\ w[1 + 1] = Second(w[1].of) /\ 1 + 1 = 2
    BY <1>3, <2>1 DEF Clean, Packets
  <2>3. f = w[1].of
    <3>1. w[2].part = 2 /\ w[2].of = w[1].of
      BY <2>2 DEF Second
    <3> HIDE DEF w
    <3> QED
      BY <2>2, <3>1 DEF Assemble
  <2>4. f \in Frame /\ f # Corrupt
    <3>1. w[1].of \in Frame
      BY <2>1, LineTypes
    <3> QED
      BY <2>3, <3>1, UnitTypes
  <2>5. Taken(w, v, f) /\ Packets(w) /\ Corrupt \notin Got(d)'
    BY <1>3, <2>4 DEF Clean
  <2>6. Packets(v) /\ (Len(v) > 0 => v[Len(v)] = w[Len(w)]) /\ Len(v) \in Nat /\ Len(w) = Len(v) + 2
    BY <2>1, <2>5, PacketsTaken DEF Taken
  <2>7. Packets(Wire(d))'
    BY <2>6 DEF Packets
  <2>8. /\ Len(w) > 0 /\ w[Len(w)].part = 1 => \E s \in Port : Half(s, d) /\ w[Len(w)] = First(frame[s])
        /\ \A s \in Port : Half(s, d) => Len(w) > 0 /\ w[Len(w)] = First(frame[s])
    BY <1>0 DEF Clean
  <2>9. Len(v) > 0 /\ v[Len(v)].part = 1 => \E s \in Port : Half(s, d)' /\ v[Len(v)] = First(frame'[s])
    BY <1>1, <2>1, <2>6, <2>8
  <2>10. ASSUME NEW s \in Port, Half(s, d)' PROVE Len(v) > 0 /\ v[Len(v)] = First(frame'[s])
    <3>1. w[Len(w)] = First(frame[s])
      BY <1>1, <2>8, <2>10
    <3>2. Len(v) > 0
      <4>1. w[2].part = 2
        BY <2>2 DEF Second
      <4>2. w[Len(w)].part = 1
        BY <3>1 DEF First
      <4> QED
        BY <2>6, <4>1, <4>2
    <3> QED
      BY <1>1, <2>6, <3>1, <3>2
  <2> QED
    BY <2>5, <2>7, <2>9, <2>10 DEF Clean
<1> QED
  BY <1>2, <1>3, WireRead

\* The only one who sends to d keeps its line clean.
LEMMA CleanSent ==
    ASSUME TypeOK, Sockets, Threads, Upstream, NEW s \in Port, SendSome(s), Lone(target[s]), Clean(target[s])
    PROVE  Clean(target[s])'
<1> DEFINE d == target[s]
           f == frame[s]
           w == Wire(d)
           v == Wire(d)'
           a == partial[d]
           b == down[d]
           l == Len(w)
<1>1. /\ f \in Frame /\ d \in Port /\ thread[s] = "sendall" /\ peerEnd[d] = "open"
      /\ \/ /\ left[s] = Units(f) /\ left' = [left EXCEPT ![s] = <<Second(f)>>]
            /\ thread' = thread
            /\ down' = [down EXCEPT ![d] = @ \o <<First(f)>>]
         \/ /\ left[s] = Units(f) /\ left' = [left EXCEPT ![s] = <<>>]
            /\ thread' = [thread EXCEPT ![s] = "send"]
            /\ down' = [down EXCEPT ![d] = @ \o Units(f)]
         \/ /\ left[s] = <<Second(f)>> /\ left' = [left EXCEPT ![s] = <<>>]
            /\ thread' = [thread EXCEPT ![s] = "send"]
            /\ down' = [down EXCEPT ![d] = @ \o <<Second(f)>>]
  BY SendSomeStep
<1>2. /\ UNCHANGED <<peerEnd, frame, target, partial, received>> /\ d' = d
      /\ \A t \in Port : t # s => thread'[t] = thread[t] /\ left'[t] = left[t]
  BY DEF SendSome, socketVars
<1>3. /\ First(f) \in Unit /\ Second(f) \in Unit /\ First(f).part = 1 /\ Second(f).part = 2 /\ First(f).of = f
      /\ Units(f) = <<First(f), Second(f)>> /\ Len(Units(f)) = 2 /\ Len(<<Second(f)>>) = 1
  BY <1>1, UnitTypes
<1>4. a \in Seq(Unit) /\ b \in Seq(Unit) /\ w = a \o b /\ v = a \o down'[d] /\ w \in Seq(Unit) /\ l \in Nat
  BY <1>1, <1>2, Types DEF TypeOK, Wire
<1>5. Packets(w) /\ Corrupt \notin Got(d) /\ Got(d)' = Got(d)
  BY <1>2 DEF Clean, Got
\* Nobody else is sending to d.
<1>6. \A t \in Port : t # s => ~Half(t, d) /\ ~Half(t, d)'
  <2> SUFFICES ASSUME NEW t \in Port, t # s PROVE ~Half(t, d) /\ ~Half(t, d)'
    OBVIOUS
  <2>1. Half(t, d)' = Half(t, d)
    BY <1>2 DEF Half
  <2>2. s # d /\ Budget[s] > 0
    BY <1>1, HalfSent
  <2>3. Half(t, d) => t # d /\ Budget[t] > 0
    BY <1>1, HalfSent DEF Half
  <2> QED
    BY <2>1, <2>2, <2>3 DEF Lone
<1>7. ASSUME Packets(v), Len(v) > 0,
             \/ v[Len(v)] = First(f) /\ Half(s, d)'
             \/ v[Len(v)] = Second(f) /\ ~Half(s, d)'
      PROVE  Clean(d)'
  <2>1. Packets(Wire(d))'
    BY <1>7 DEF Packets
  <2>2. v[Len(v)].part = 1 => \E t \in Port : Half(t, d)' /\ v[Len(v)] = First(frame'[t])
    BY <1>2, <1>3, <1>7
  <2>3. \A t \in Port : Half(t, d)' => v[Len(v)] = First(frame'[t])
    BY <1>2, <1>6, <1>7
  <2> QED
    BY <1>5, <1>7, <2>1, <2>2, <2>3 DEF Clean
<1>8. CASE left[s] = Units(f)
  <2>1. ~Half(s, d)
    BY <1>3, <1>8 DEF Half
  <2>2. l > 0 => w[l].part = 2
    <3> SUFFICES ASSUME l > 0 PROVE w[l].part = 2
      OBVIOUS
    <3>1. w[l].part # 1
      BY <1>1, <1>6, <2>1 DEF Clean
    <3>2. w[l].part \in 1..2
      <4>1. l \in 1..l
        <5>1. l \in Nat /\ l > 0
          BY <1>4
        <5> HIDE DEF l
        <5> QED
          BY <5>1
      <4> QED
        BY <1>4, <4>1, LineTypes
    <3> QED
      BY <3>1, <3>2
  <2> DEFINE x == a \o (b \o <<First(f)>>)
  <2>3. x \in Seq(Unit) /\ Extended(w, x, First(f)) /\ Extended(x, a \o (b \o Units(f)), Second(f))
    BY <1>3, <1>4, WireExtended
  <2> HIDE DEF x
  <2>4. Packets(x) /\ Len(x) > 0 /\ x[Len(x)] = First(f)
    <3> DEFINE u == First(f)
    <3>1. u \in Unit /\ u.part = 1 /\ Extended(w, x, u)
      BY <1>3, <2>3
    <3> HIDE DEF u
    <3>2. Packets(x) /\ Len(x) > 0 /\ x[Len(x)] = u
      BY <1>4, <1>5, <2>2, <3>1, PacketsSent
    <3> QED
      BY <3>2 DEF u
  <2>5. CASE /\ left' = [left EXCEPT ![s] = <<Second(f)>>] /\ thread' = thread
             /\ down' = [down EXCEPT ![d] = @ \o <<First(f)>>]
    <3>1. v = x
      BY <1>1, <1>4, <2>5 DEF x, TypeOK
    <3>2. Half(s, d)'
      <4>1. Len(left'[s]) = 1
        BY <1>3, <2>5 DEF TypeOK
      <4>2. thread'[s] = "sendall" /\ target'[s] = d
        BY <1>1, <1>2, <2>5
      <4> QED
        BY <4>1, <4>2 DEF Half
    <3> QED
      BY <1>7, <2>4, <3>1, <3>2
  <2>6. CASE /\ thread' = [thread EXCEPT ![s] = "send"]
             /\ down' = [down EXCEPT ![d] = @ \o Units(f)]
    <3>1. v = a \o (b \o Units(f))
      BY <1>1, <1>4, <2>6 DEF TypeOK
    <3>2. Packets(v) /\ Len(v) > 0 /\ v[Len(v)] = Second(f)
      <4> DEFINE u == Second(f)
      <4>1. u \in Unit /\ Extended(x, v, u) /\ u = Second(x[Len(x)].of) /\ x[Len(x)].part = 1
        BY <1>3, <2>3, <2>4, <3>1
      <4> HIDE DEF u, v
      <4>2. Packets(v) /\ Len(v) > 0 /\ v[Len(v)] = u
        BY <2>3, <2>4, <4>1, PacketsSent
      <4> QED
        BY <4>2 DEF u
    <3>3. ~Half(s, d)'
      <4>1. thread'[s] = "send"
        BY <2>6 DEF TypeOK
      <4> QED
        BY <4>1 DEF Half
    <3> QED
      BY <1>7, <3>2, <3>3
  <2> QED
    BY <1>1, <1>3, <1>8, <2>5, <2>6
<1>9. CASE left[s] = <<Second(f)>>
  <2>0. /\ thread' = [thread EXCEPT ![s] = "send"]
        /\ down' = [down EXCEPT ![d] = @ \o <<Second(f)>>]
    BY <1>1, <1>3, <1>9
  <2>1. Half(s, d)
    BY <1>1, <1>3, <1>9 DEF Half
  <2>2. l > 0 /\ w[l] = First(f)
    BY <1>1, <2>1 DEF Clean
  <2>3. v = a \o (b \o <<Second(f)>>)
    BY <1>1, <1>4, <2>0 DEF TypeOK
  <2>4. Packets(v) /\ Len(v) > 0 /\ v[Len(v)] = Second(f)
    <3> DEFINE u == Second(f)
    <3>1. /\ u \in Unit /\ Extended(w, v, u) /\ u = Second(w[Len(w)].of) /\ w[Len(w)].part = 1
          /\ w \in Seq(Unit) /\ Packets(w) /\ Len(w) > 0
      BY <1>3, <1>4, <1>5, <2>2, <2>3, WireExtended
    <3> HIDE DEF u, v, w
    <3>2. Packets(v) /\ Len(v) > 0 /\ v[Len(v)] = u
      BY <3>1, PacketsSent
    <3> QED
      BY <3>2 DEF u
  <2>5. ~Half(s, d)'
    <3>1. thread'[s] = "send"
      BY <2>0 DEF TypeOK
    <3> QED
      BY <3>1 DEF Half
  <2> QED
    BY <1>7, <2>4, <2>5
<1> QED
  BY <1>1, <1>8, <1>9

\* Every step keeps the lines clean to which only one port sends.
LEMMA CleanKept ==
    ASSUME HubInv, Next, NEW d \in Port, Lone(d), Clean(d)
    PROVE  Clean(d)'
<1> USE DEF HubInv
<1>t. /\ DOMAIN thread = Port /\ DOMAIN frame = Port /\ DOMAIN peerEnd = Port
      /\ DOMAIN target = Port /\ DOMAIN left = Port
  BY Types DEF TypeOK
<1>1. CASE OwnerStep
  <2>1. UNCHANGED <<peerEnd, thread, frame, target, left, partial, down, received>>
    BY <1>1, OwnerMoves DEF threadVars, trafficVars
  <2> QED
    BY <2>1, CleanStill DEF Wire, Half
<1> SUFFICES ASSUME NEW p \in Port, PortStep(p) PROVE Clean(d)'
  BY <1>1, Steps
<1>2. CASE Receive(p) /\ p = d
  BY <1>2, CleanRead
<1>3. CASE SendSome(p) /\ target[p] = d
  <2>1. Clean(target[p])' /\ target' = target
    BY <1>3, CleanSent DEF SendSome
  <2> QED
    BY <1>3, <2>1
<1>4. CASE ~(Receive(p) /\ p = d) /\ ~(SendSome(p) /\ target[p] = d)
  <2>1. partial'[d] = partial[d] /\ down'[d] = down[d] /\ received'[d] = received[d]
    <3>1. CASE Receive(p)
      BY <1>4, <3>1, ReceiveStep
    <3>2. CASE SendSome(p)
      BY <1>4, <3>2 DEF SendSome
    <3>3. CASE ~Receive(p) /\ ~SendSome(p)
      BY <3>3, CaptureMoves
         DEF PortStep, NewPort, CloseConnection, ReceiveFrame, ReceiveEnds, Snapshot,
             NextDestination, LoopAgain, SendFails, RemoveSource, Send, Leave, trafficVars
    <3> QED
      BY <3>1, <3>2, <3>3
  <2>2. Wire(d)' = Wire(d)
    BY <2>1 DEF Wire
  \* A thread begins and ends no half of a frame to d, unless d has gone.
  <2>3. ASSUME peerEnd'[d] = "open" => peerEnd[d] = "open",
               \A s \in Port : peerEnd[d] = "open" =>
                   Half(s, d)' = Half(s, d) /\ (Half(s, d) => frame'[s] = frame[s])
        PROVE  Clean(d)'
    BY <2>1, <2>2, <2>3, CleanStill
  <2>4. CASE NewPort(p)
    <3>1. /\ hubEnd[p] = "none" /\ thread[p] = "none" /\ UNCHANGED <<frame, target, left>>
          /\ thread'[p] = "receive" /\ \A s \in Port : s # p => thread'[s] = thread[s]
          /\ \A q \in Port : q # p => peerEnd'[q] = peerEnd[q]
      BY <1>t, <2>4 DEF NewPort, Sockets
    <3>2. \A s \in Port : Half(s, d)' = Half(s, d)
      BY <3>1 DEF Half
    <3>3. CASE d # p
      BY <2>3, <3>1, <3>2, <3>3
    <3>4. CASE d = p
      <4>1. Wire(d) = <<>>
        BY <3>1, <3>4 DEF Wire, Sockets
      <4>2. \A s \in Port : ~Half(s, d)
        BY <3>1, <3>4 DEF Half, Aims, Served, Aimed
      <4>3. peerEnd[d] # "open"
        BY <3>1, <3>4 DEF Sockets
      <4> QED
        BY <2>1, <2>2, <3>2, <4>1, <4>2, <4>3, CleanStill
    <3> QED
      BY <3>3, <3>4
  <2>5. CASE CloseConnection(p)
    <3>1. UNCHANGED <<thread, frame, target, left>> /\ (peerEnd'[d] = "open" => peerEnd[d] = "open")
      BY <1>t, <2>5 DEF CloseConnection, threadVars
    <3> QED
      BY <2>3, <3>1 DEF Half
  <2>6. CASE Leave(p)
    <3>1. UNCHANGED <<thread, frame, target, left>> /\ (peerEnd'[d] = "open" => peerEnd[d] = "open")
      BY <1>t, <2>6 DEF Leave, threadVars
    <3> QED
      BY <2>3, <3>1 DEF Half
  <2>7. CASE Send(p) \/ Receive(p)
    <3>1. UNCHANGED <<thread, frame, target, left, peerEnd>>
      BY <2>7 DEF Send, Receive, socketVars, threadVars
    <3> QED
      BY <2>3, <3>1 DEF Half
  <2>8. CASE ReceiveFrame(p)
    <3>1. /\ UNCHANGED <<peerEnd, target, left>> /\ thread[p] = "receive" /\ thread'[p] = "capture"
          /\ \A s \in Port : s # p => thread'[s] = thread[s] /\ frame'[s] = frame[s]
      BY <1>t, <2>8 DEF ReceiveFrame, Step, socketVars
    <3> QED
      BY <2>3, <3>1 DEF Half
  <2>9. CASE ReceiveEnds(p)
    <3>1. /\ UNCHANGED <<peerEnd, target, left, frame>> /\ thread[p] = "receive" /\ thread'[p] = "remove"
          /\ \A s \in Port : s # p => thread'[s] = thread[s]
      BY <1>t, <2>9 DEF ReceiveEnds, Step, socketVars
    <3> QED
      BY <2>3, <3>1 DEF Half
  <2>10. CASE CaptureStep(p)
    <3>1. /\ UNCHANGED <<peerEnd, target, left, frame>> /\ thread[p] # "sendall" /\ thread'[p] # "sendall"
          /\ \A s \in Port : s # p => thread'[s] = thread[s]
      BY <2>10, CaptureMoves DEF socketVars
    <3> QED
      BY <2>3, <3>1 DEF Half
  <2>11. CASE Snapshot(p)
    <3>1. /\ UNCHANGED <<peerEnd, target, left, frame>> /\ thread[p] = "snapshot" /\ thread'[p] = "send"
          /\ \A s \in Port : s # p => thread'[s] = thread[s]
      BY <1>t, <2>11 DEF Snapshot, Step, socketVars
    <3> QED
      BY <2>3, <3>1 DEF Half
  <2>12. CASE \E e \in Port : NextDestination(p, e)
    <3>0. PICK e \in Port : NextDestination(p, e)
      BY <2>12
    <3>1. /\ UNCHANGED <<peerEnd, frame>> /\ thread[p] = "send" /\ left'[p] = Units(frame[p])
          /\ \A s \in Port : s # p => /\ thread'[s] = thread[s] /\ target'[s] = target[s]
                                      /\ left'[s] = left[s]
      BY <1>t, <3>0 DEF NextDestination, Step, socketVars
    <3>2. Len(left'[p]) = 2
      BY <3>1, UnitTypes DEF Threads, Written
    <3> QED
      BY <2>3, <3>1, <3>2 DEF Half
  <2>13. CASE LoopAgain(p)
    <3>1. /\ UNCHANGED <<peerEnd, target, left, frame>> /\ thread[p] = "send" /\ thread'[p] = "receive"
          /\ \A s \in Port : s # p => thread'[s] = thread[s]
      BY <1>t, <2>13 DEF LoopAgain, Step, socketVars
    <3> QED
      BY <2>3, <3>1 DEF Half
  <2>14. CASE SendSome(p)
    <3>1. /\ UNCHANGED <<peerEnd, target, frame>> /\ target[p] # d
          /\ \A s \in Port : s # p => thread'[s] = thread[s] /\ left'[s] = left[s]
      BY <1>4, <2>14 DEF SendSome, socketVars
    <3> QED
      BY <2>3, <3>1 DEF Half
  <2>15. CASE SendFails(p)
    <3>1. /\ UNCHANGED <<peerEnd, target, left, frame>> /\ thread[p] = "sendall" /\ thread'[p] = "send"
          /\ \A s \in Port : s # p => thread'[s] = thread[s]
      BY <1>t, <2>15 DEF SendFails, Step
    <3>2. peerEnd[target[p]] = "closed"
      BY <2>15, <3>1 DEF SendFails, Sockets, Threads
    <3>3. peerEnd[d] = "open" => target[p] # d
      BY <3>2
    <3> QED
      BY <2>3, <3>1, <3>3 DEF Half
  <2>16. CASE RemoveSource(p)
    <3>1. /\ UNCHANGED <<peerEnd, target, left, frame>> /\ thread[p] = "remove" /\ thread'[p] = "ended"
          /\ \A s \in Port : s # p => thread'[s] = thread[s]
      BY <1>t, <2>16 DEF RemoveSource, Step
    <3> QED
      BY <2>3, <3>1 DEF Half
  <2> QED
    BY <2>4, <2>5, <2>6, <2>7, <2>8, <2>9, <2>10, <2>11, <2>12, <2>13, <2>14, <2>15, <2>16 DEF PortStep
<1> QED
  BY <1>2, <1>3, <1>4

\* Every port that hears one other at most has a clean line.
CleanLines == \A d \in Port : Lone(d) => Clean(d)

\* Its line stays clean in every step.
LEMMA CleanStep == HubInv /\ CleanLines /\ [Next]_vars => CleanLines'
<1> SUFFICES ASSUME HubInv, CleanLines, [Next]_vars, NEW d \in Port, Lone(d) PROVE Clean(d)'
  BY DEF CleanLines
<1>1. Clean(d)
  BY DEF CleanLines
<1>2. CASE Next
  BY <1>1, <1>2, CleanKept
<1>3. CASE UNCHANGED vars
  BY <1>1, <1>3, CleanStill DEF Wire, Half, vars, socketVars, threadVars, trafficVars
<1> QED
  BY <1>2, <1>3

\* Where no port hears two others, no thread of the hub mixes its frames with another's,
\* however small the socket buffers: every participant reads whole frames.
THEOREM WholeFrames ==
    ASSUME \A d \in Port : Lone(d)
    PROVE  Spec => []FramesIntact
<1>1. Init => CleanLines
  <2> SUFFICES ASSUME Init, NEW d \in Port PROVE Clean(d)
    BY DEF CleanLines
  <2>1. Wire(d) = <<>> /\ Len(Wire(d)) = 0 /\ Got(d) = {} /\ \A s \in Port : ~Half(s, d)
    BY DEF Init, Wire, Got, Half
  <2> QED
    BY <2>1 DEF Clean, Packets
<1>2. CleanLines => FramesIntact
  BY DEF CleanLines, Clean, FramesIntact
<1>3. Spec => [](CleanLines)
  BY <1>1, CleanStep, HubInvariant, PTL DEF Spec
<1> QED
  BY <1>2, <1>3, PTL

\* There the order holds as well: it reads them in order, once and without a gap.
THEOREM InOrder ==
    ASSUME \A d \in Port : Lone(d)
    PROVE  Spec => []InOrderOnce
  BY WholeFrames, OrderWhileIntact, PTL

-----------------------------------------------------------------------------
(***************************************************************************)
(* HostForwards.                                                           *)
(***************************************************************************)
Listed == DOMAIN requests
Reported == [protocol : STRING \cup {"tcp", "udp"}, source : {"127.0.0.1", "0.0.0.0"}, host : Int,
             target : {"10.0.2.15", "10.0.2.99"}, guest : Int]

\* QEMU took every fixed port, and some port for every other forward.
Bound ==
    /\ bound \in [Listed -> Int]
    /\ \A i \in Listed : requests[i].host # AutoPort => bound[i] = requests[i].host

\* A faithful report has one row for each forward; a script with fixed ports asks for none.
Exact == [i \in Listed |-> Row(i)]
NotAsked == user # "uefi_test" /\ \A i \in Listed : requests[i].host # AutoPort

ForwardInv ==
    /\ FreePorts \subseteq Int
    /\ requests \in Seq(Request)
    /\ pc \in {"load", "config", "start", "parse", "query"} => rows = <<>> /\ resolved = <<>>
    /\ pc \in {"start", "parse", "query", "resolve"} => ListOK(requests)
    /\ pc \in {"parse", "query", "resolve"} => Bound
    /\ pc \in {"load", "config", "start", "parse", "query"} => faithful
    /\ pc = "resolve" => rows \in Seq(Reported) /\ (faithful => rows = Exact \/ NotAsked)
    /\ resolved \in Seq(Request) /\ Len(resolved) <= Len(requests)
    /\ ResolvedAreBound /\ FaithfulReportResolves

\* No two forwards of an accepted list are for the same port of the guest.
LEMMA OneForward ==
    ASSUME ListOK(requests), NEW i \in Listed, NEW j \in Listed,
           GuestEndpoint(requests[i]) = GuestEndpoint(requests[j])
    PROVE  i = j
<1> DEFINE e == [k \in DOMAIN requests |-> GuestEndpoint(requests[k])]
<1>1. \A a, b \in DOMAIN e : e[a] = e[b] => a = b
  BY DEF ListOK, GuestsApart, IsInjective
<1>2. i \in DOMAIN e /\ j \in DOMAIN e /\ e[i] = e[j]
  BY DEF Listed
<1> QED
  BY <1>1, <1>2

\* The rows QEMU may report.
LEMMA RowTypes ==
    ASSUME requests \in Seq(Request), Bound, NEW i \in Listed
    PROVE  /\ requests[i] \in Request /\ Row(i) \in Reported
           /\ GuestEndpoint(Row(i)) = GuestEndpoint(requests[i])
           /\ Row(i).host = bound[i] /\ bound[i] \in Int
<1>1. requests[i] \in Request /\ bound[i] \in Int
  BY DEF Listed, Bound
<1> DEFINE r == requests[i]
<1> HIDE DEF r
<1>2. r.protocol \in STRING /\ r.guest \in Int
  BY <1>1 DEF Request, r
<1>3. Row(i) = [protocol |-> r.protocol, source |-> "127.0.0.1", host |-> bound[i],
                         target |-> "10.0.2.15", guest |-> r.guest]
  BY DEF Row, r
<1>4. Row(i) \in Reported
  BY <1>1, <1>2, <1>3 DEF Reported
<1>5. Row(i).protocol = r.protocol /\ Row(i).guest = r.guest /\ Row(i).host = bound[i]
  BY <1>3
<1>6. GuestEndpoint(Row(i)) = GuestEndpoint(r)
  BY <1>5 DEF GuestEndpoint
<1> QED
  BY <1>1, <1>4, <1>5, <1>6 DEF r

\* A wrong row is a row.
LEMMA FaultTypes ==
    ASSUME requests \in Seq(Request), FreePorts \subseteq Int, NEW row \in Reported, NEW wrong \in Faults(row)
    PROVE  wrong \in Reported
<1>1. \/ wrong = [row EXCEPT !.source = "0.0.0.0"] \/ wrong = [row EXCEPT !.target = "10.0.2.99"]
      \/ wrong = [row EXCEPT !.protocol = IF @ = "tcp" THEN "udp" ELSE "tcp"]
      \/ \E port \in FreePorts : wrong = [row EXCEPT !.host = port]
      \/ \E i \in Listed, n \in 0..1 : wrong = [row EXCEPT !.guest = requests[i].guest + n]
  <2>1. CASE wrong \in {[row EXCEPT !.source = "0.0.0.0"], [row EXCEPT !.target = "10.0.2.99"],
                        [row EXCEPT !.protocol = IF @ = "tcp" THEN "udp" ELSE "tcp"]}
    BY <2>1
  <2>2. CASE wrong \in {[row EXCEPT !.host = port] : port \in FreePorts \ {row.host}}
    BY <2>2
  <2>3. CASE wrong \in {[row EXCEPT !.guest = requests[i].guest + n] : i \in DOMAIN requests, n \in 0..1}
    BY <2>3 DEF Listed
  <2> QED
    BY <2>1, <2>2, <2>3 DEF Faults
<1>2. CASE wrong = [row EXCEPT !.source = "0.0.0.0"]
  BY <1>2 DEF Reported
<1>3. CASE wrong = [row EXCEPT !.target = "10.0.2.99"]
  BY <1>3 DEF Reported
<1>4. CASE wrong = [row EXCEPT !.protocol = IF @ = "tcp" THEN "udp" ELSE "tcp"]
  <2>1. wrong = [row EXCEPT !.protocol = "udp"] \/ wrong = [row EXCEPT !.protocol = "tcp"]
    BY <1>4
  <2> QED
    BY <2>1 DEF Reported
<1>5. CASE \E port \in FreePorts : wrong = [row EXCEPT !.host = port]
  BY <1>5 DEF Reported
<1>6. CASE \E i \in Listed, n \in 0..1 : wrong = [row EXCEPT !.guest = requests[i].guest + n]
  <2>1. PICK i \in Listed, n \in 0..1 : wrong = [row EXCEPT !.guest = requests[i].guest + n]
    BY <1>6
  <2>2. requests[i] \in Request
    BY DEF Listed
  <2>3. requests[i].guest \in Int
    BY <2>2 DEF Request
  <2> DEFINE guest == requests[i].guest + n
  <2>4. guest \in Int
    BY <2>3
  <2> HIDE DEF guest
  <2>5. wrong = [row EXCEPT !.guest = guest]
    BY <2>1 DEF guest
  <2> QED
    BY <2>4, <2>5 DEF Reported
<1> QED
  BY <1>1, <1>2, <1>3, <1>4, <1>5, <1>6

\* Whatever is wrong with it, a report is a list of rows.
LEMMA RowsReported ==
    ASSUME requests \in Seq(Request), FreePorts \subseteq Int, Bound, Reports
    PROVE  rows' \in Seq(Reported) /\ (faithful' => rows' = Exact)
<1> DEFINE l == Len(requests)
<1>1. l \in Nat /\ Listed = 1..l
  BY DEF Listed
<1>2. ASSUME NEW i \in Listed PROVE Exact[i] \in Reported
  BY RowTypes DEF Exact
<1>3. Exact \in Seq(Reported) /\ Len(Exact) = l /\ DOMAIN Exact = Listed
  <2>1. Exact \in [1..l -> Reported]
    BY <1>1, <1>2 DEF Exact
  <2> QED
    BY <1>1, <2>1 DEF Exact
<1>4. CASE Answer(Exact, TRUE)
  BY <1>3, <1>4 DEF Answer
<1>5. CASE \E i \in Listed :
              \/ Answer(RemoveAt(Exact, i), FALSE)
              \/ \E row \in Faults(Exact[i]) : Answer([Exact EXCEPT ![i] = row], FALSE)
              \/ \E row \in Faults(Exact[i]) \cup {Exact[i]} : Answer(Append(Exact, row), FALSE)
  <2>1. PICK i \in Listed :
              \/ Answer(RemoveAt(Exact, i), FALSE)
              \/ \E row \in Faults(Exact[i]) : Answer([Exact EXCEPT ![i] = row], FALSE)
              \/ \E row \in Faults(Exact[i]) \cup {Exact[i]} : Answer(Append(Exact, row), FALSE)
    BY <1>5
  <2>2. ~faithful'
    BY <2>1 DEF Answer
  <2>3. CASE Answer(RemoveAt(Exact, i), FALSE)
    <3> DEFINE e == Exact
               a == SubSeq(e, 1, i - 1)
               b == SubSeq(e, i + 1, Len(e))
    <3>1. e \in Seq(Reported) /\ i \in 1..Len(e)
      BY <1>1, <1>3
    <3> HIDE DEF e
    <3>2. a \in Seq(Reported) /\ b \in Seq(Reported)
      BY <3>1
    <3> HIDE DEF a, b
    <3>3. a \o b \in Seq(Reported)
      BY <3>2
    <3> QED
      BY <2>2, <2>3, <3>3 DEF Answer, RemoveAt, a, b, e
  <2>4. CASE \E row \in Faults(Exact[i]) : Answer([Exact EXCEPT ![i] = row], FALSE)
    <3>1. PICK row \in Faults(Exact[i]) : Answer([Exact EXCEPT ![i] = row], FALSE)
      BY <2>4
    <3>2. row \in Reported
      BY <1>2, FaultTypes
    <3>3. [Exact EXCEPT ![i] = row] \in Seq(Reported)
      BY <1>3, <3>2
    <3> QED
      BY <2>2, <3>1, <3>3 DEF Answer
  <2>5. CASE \E row \in Faults(Exact[i]) \cup {Exact[i]} : Answer(Append(Exact, row), FALSE)
    <3>1. PICK row \in Faults(Exact[i]) \cup {Exact[i]} : Answer(Append(Exact, row), FALSE)
      BY <2>5
    <3>2. row \in Reported
      BY <1>2, FaultTypes
    <3>3. Append(Exact, row) \in Seq(Reported)
      BY <1>3, <3>2
    <3> QED
      BY <2>2, <3>1, <3>3 DEF Answer
  <2> QED
    BY <2>1, <2>3, <2>4, <2>5
<1> QED
  BY <1>3, <1>4, <1>5 DEF Reports, Exact, Listed

\* The next forward to resolve is a listed one.
LEMMA NextForward ==
    ASSUME ForwardInv, pc = "resolve", Len(resolved) < Len(requests)
    PROVE  /\ Len(resolved) \in Nat /\ Len(resolved) + 1 \in Listed
           /\ Current = requests[Len(resolved) + 1]
           /\ Current \in Request
<1>1. /\ requests \in Seq(Request) /\ Len(requests) \in Nat /\ Listed = 1..Len(requests)
      /\ resolved \in Seq(Request) /\ Len(resolved) \in Nat
  BY DEF ForwardInv, Listed
<1>2. Len(resolved) + 1 \in Listed
  BY <1>1
<1> QED
  BY <1>1, <1>2 DEF Current, Listed

\* The port it resolves to is the one QEMU listens on, or the one that the only row for
\* its guest port gives where QEMU was to choose.
LEMMA PortIsBound ==
    ASSUME ForwardInv, pc = "resolve", Len(resolved) < Len(requests), ~Unresolvable
    PROVE  /\ ResolvedPort = bound[Len(resolved) + 1] \/ Misreported(Len(resolved) + 1, ResolvedPort)
           /\ ResolvedPort \in Int
<1> DEFINE n == Len(resolved) + 1
           c == Current
<1>1. n \in Listed /\ c = requests[n] /\ c \in Request
  BY NextForward
<1>2. /\ ListOK(requests) /\ Bound /\ rows \in Seq(Reported)
  BY DEF ForwardInv
<1> HIDE DEF n, c
<1>3. CASE ~Looked
  <2>1. c.host # AutoPort /\ ResolvedPort = c.host
    BY <1>3 DEF Looked, ResolvedPort, c
  <2> QED
    BY <1>1, <1>2, <2>1 DEF Bound, n
<1>4. CASE Looked
  <2>1. Suitable(Candidates(c))
    BY <1>4 DEF Unresolvable, c
  <2>2. PICK i \in DOMAIN rows : /\ Candidates(c) = {i}
                                 /\ rows[i].source = "127.0.0.1" /\ rows[i].target = "10.0.2.15"
                                 /\ c.host # AutoPort => rows[i].host = c.host
    BY <2>1 DEF Suitable, c
  <2>3. (CHOOSE k \in Candidates(c) : TRUE) = i
    BY <2>2
  <2>4. ResolvedPort = rows[i].host
    BY <1>4, <2>3 DEF ResolvedPort, c
  <2>5. rows[i].protocol = c.protocol /\ rows[i].guest = c.guest
    <3>1. i \in Candidates(c)
      BY <2>2
    <3> QED
      BY <3>1 DEF Candidates
  <2>6. rows[i] \in Reported
    BY <1>2
  <2>7. rows[i].host \in Int
    BY <2>6 DEF Reported
  <2>8. CASE c.host # AutoPort
    BY <1>1, <1>2, <2>2, <2>4, <2>7, <2>8 DEF Bound, n
  <2>9. CASE c.host = AutoPort
    <3>1. rows[i] = [Row(n) EXCEPT !.host = rows[i].host]
      <4> DEFINE row == rows[i]
      <4>1. row = [protocol |-> row.protocol, source |-> row.source, host |-> row.host,
                   target |-> row.target, guest |-> row.guest]
        BY <2>6 DEF Reported
      <4> HIDE DEF row
      <4>2. row.protocol = requests[n].protocol /\ row.guest = requests[n].guest
            /\ row.source = "127.0.0.1" /\ row.target = "10.0.2.15"
        BY <1>1, <2>2, <2>5 DEF row
      <4>3. row = [Row(n) EXCEPT !.host = row.host]
        BY <4>1, <4>2 DEF Row
      <4> QED
        BY <4>3 DEF row
    <3>2. ASSUME NEW k \in DOMAIN rows \ {i} PROVE GuestEndpoint(rows[k]) # GuestEndpoint(requests[n])
      <4>1. k \notin Candidates(c)
        BY <2>2
      <4>2. ~(rows[k].protocol = c.protocol /\ rows[k].guest = c.guest)
        BY <4>1 DEF Candidates
      <4> QED
        BY <1>1, <4>2 DEF GuestEndpoint
    <3>3. Misreported(n, rows[i].host)
      BY <1>1, <2>9, <3>1, <3>2 DEF Misreported
    <3> QED
      BY <2>4, <2>7, <3>3 DEF n
  <2> QED
    BY <2>8, <2>9
<1> QED
  BY <1>3, <1>4

\* From a faithful report the next forward resolves.
LEMMA FaithfulResolves ==
    ASSUME ForwardInv, pc = "resolve", Len(resolved) < Len(requests), faithful
    PROVE  ~Unresolvable
<1> DEFINE n == Len(resolved) + 1
           c == Current
<1>1. n \in Listed /\ c = requests[n] /\ c \in Request
  BY NextForward
<1>2. /\ ListOK(requests) /\ Bound
      /\ rows = Exact \/ NotAsked
      /\ requests \in Seq(Request)
  BY DEF ForwardInv
<1> HIDE DEF n, c
<1>3. CASE NotAsked
  BY <1>1, <1>3 DEF NotAsked, Unresolvable, Looked, c
<1>4. CASE rows = Exact
  <2>1. DOMAIN rows = Listed /\ \A i \in Listed : rows[i] = Row(i)
    BY <1>4 DEF Exact
  <2>2. \A i \in Listed : rows[i].protocol = requests[i].protocol /\ rows[i].guest = requests[i].guest
    BY <2>1 DEF Row
  <2>3. /\ rows[n].source = "127.0.0.1" /\ rows[n].target = "10.0.2.15" /\ rows[n].host = bound[n]
    BY <1>1, <2>1 DEF Row
  <2>4. \A i \in Listed : i \in Candidates(c) => i = n
    <3> SUFFICES ASSUME NEW i \in Listed, i \in Candidates(c) PROVE i = n
      OBVIOUS
    <3>1. requests[i].protocol = requests[n].protocol /\ requests[i].guest = requests[n].guest
      BY <1>1, <2>2 DEF Candidates
    <3>2. GuestEndpoint(requests[i]) = GuestEndpoint(requests[n])
      BY <3>1 DEF GuestEndpoint
    <3> QED
      BY <1>1, <1>2, <3>2, OneForward
  <2>5. n \in Candidates(c)
    BY <1>1, <2>1, <2>2 DEF Candidates
  <2>6. Candidates(c) = {n}
    BY <2>1, <2>4, <2>5 DEF Candidates
  <2>7. c.host # AutoPort => rows[n].host = c.host
    BY <1>1, <1>2, <2>3 DEF Bound
  <2>8. Suitable(Candidates(c))
    BY <1>1, <2>1, <2>3, <2>6, <2>7 DEF Suitable, c
  <2> QED
    BY <2>8 DEF Unresolvable, c
<1> QED
  BY <1>2, <1>3, <1>4

\* Every step keeps the invariant.
LEMMA ForwardStep ==
    ASSUME ForwardInv, [ForwardNext]_forwardVars
    PROVE  ForwardInv'
<1> DEFINE Same == UNCHANGED <<user, requests, bound, rows, faithful, resolved>>
<1>s. ASSUME Same PROVE /\ Listed' = Listed /\ Bound' = Bound /\ NotAsked' = NotAsked /\ Exact' = Exact
                        /\ ResolvedAreBound' = ResolvedAreBound
                        /\ ListOK(requests)' = ListOK(requests)
  <2>1. Listed' = Listed
    BY <1>s DEF Listed
  <2>2. Bound' = Bound /\ NotAsked' = NotAsked /\ Exact' = Exact
    BY <1>s, <2>1 DEF Bound, NotAsked, Exact, Row
  <2>3. ASSUME NEW i, NEW port PROVE Misreported(i, port)' = Misreported(i, port)
    BY <1>s DEF Misreported, Row, GuestEndpoint
  <2>4. ResolvedAreBound' = ResolvedAreBound
    BY <1>s, <2>3 DEF ResolvedAreBound, GuestEndpoint
  <2>5. ListOK(requests)' = ListOK(requests)
    BY <1>s
  <2> QED
    BY <2>1, <2>2, <2>4, <2>5
<1>1. CASE Load
  <2>1. pc = "load" /\ pc' \in {"config", "not loaded"} /\ Same
    BY <1>1 DEF Load
  <2> QED
    BY <1>s, <2>1 DEF ForwardInv, FaithfulReportResolves
<1>2. CASE FromNamespace
  <2>1. pc = "config" /\ pc' \in {"start", "bad config"} /\ Same /\ (pc' = "start" => ListOK(requests))
    BY <1>2 DEF FromNamespace
  <2> QED
    BY <1>s, <2>1 DEF ForwardInv, FaithfulReportResolves
<1>3. CASE QemuBinds
  <2>1. /\ pc = "start" /\ pc' \in {"parse", "query", "resolve"}
        /\ UNCHANGED <<user, requests, rows, faithful, resolved>>
        /\ pc' = "resolve" => NotAsked
    BY <1>3 DEF QemuBinds, NotAsked, Listed
  <2>2. PICK ports \in [DOMAIN requests -> FreePorts \cup {requests[i].host : i \in DOMAIN requests}] :
           /\ \A i \in DOMAIN requests :
                  ports[i] \in IF requests[i].host = AutoPort THEN FreePorts ELSE {requests[i].host}
           /\ bound' = ports
    BY <1>3 DEF QemuBinds
  <2>3. requests \in Seq(Request) /\ ListOK(requests) /\ rows = <<>> /\ resolved = <<>> /\ faithful
    BY <2>1 DEF ForwardInv
  <2>4. \A i \in DOMAIN requests : requests[i].host \in Int
    <3> SUFFICES ASSUME NEW i \in DOMAIN requests PROVE requests[i].host \in Int
      OBVIOUS
    <3>1. requests[i] \in Request
      BY <2>3
    <3> QED
      BY <3>1 DEF Request
  <2>5. \A i \in DOMAIN requests : bound'[i] \in Int /\ (requests[i].host # AutoPort => bound'[i] = requests[i].host)
    BY <2>2, <2>4 DEF ForwardInv
  <2>6. Bound'
    BY <2>1, <2>2, <2>5 DEF Bound, Listed
  <2>7. ResolvedAreBound'
    BY <2>1, <2>3 DEF ResolvedAreBound
  <2>8. NotAsked' = NotAsked
    BY <2>1 DEF NotAsked, Listed
  <2>9. rows' \in Seq(Reported)
    BY <2>1, <2>3
  <2>10. requests' \in Seq(Request) /\ ListOK(requests)' /\ rows' = <<>> /\ resolved' = <<>> /\ faithful'
    BY <2>1, <2>3
  <2>11. resolved' \in Seq(Request) /\ Len(resolved') <= Len(requests')
    BY <2>1 DEF ForwardInv
  <2> QED
    BY <2>1, <2>6, <2>7, <2>8, <2>9, <2>10, <2>11 DEF ForwardInv, FaithfulReportResolves
<1>4. CASE QemuExits
  <2>1. pc = "start" /\ pc' = "no qemu" /\ Same
    BY <1>4 DEF QemuExits
  <2> QED
    BY <1>s, <2>1 DEF ForwardInv, FaithfulReportResolves
<1>5. CASE Parse
  <2>1. pc = "parse" /\ pc' \in {"query", "not parsed"} /\ Same
    BY <1>5 DEF Parse
  <2> QED
    BY <1>s, <2>1 DEF ForwardInv, FaithfulReportResolves
<1>6. CASE Reports
  <2>1. pc = "query" /\ pc' = "resolve" /\ UNCHANGED <<user, requests, bound, resolved>>
    BY <1>6 DEF Reports, Answer
  <2>2. /\ requests \in Seq(Request) /\ Bound /\ ListOK(requests) /\ FreePorts \subseteq Int
        /\ resolved = <<>>
    BY <2>1 DEF ForwardInv
  <2>3. rows' \in Seq(Reported) /\ (faithful' => rows' = Exact)
    BY <1>6, <2>2, RowsReported
  <2>4. Listed' = Listed /\ Bound' = Bound /\ Exact' = Exact
    BY <2>1 DEF Listed, Bound, Exact, Row
  <2>6. ResolvedAreBound'
    BY <2>1, <2>2 DEF ResolvedAreBound
  <2>7. resolved' \in Seq(Request) /\ Len(resolved') <= Len(requests')
    BY <2>1 DEF ForwardInv
  <2> QED
    BY <2>1, <2>2, <2>3, <2>4, <2>6, <2>7 DEF ForwardInv, FaithfulReportResolves
<1>7. CASE Resolve
  <2> DEFINE n == Len(resolved) + 1
             c == Current
             f == [name |-> c.name, protocol |-> c.protocol, guest |-> c.guest, host |-> ResolvedPort]
  <2>1. /\ pc = "resolve" /\ Len(resolved) < Len(requests) /\ ~Unresolvable
        /\ UNCHANGED <<user, requests, pc, bound, rows, faithful>>
    BY <1>7 DEF Resolve
  <2>2. resolved' = Append(resolved, f)
    BY <1>7, <2>1 DEF Resolve
  <2>3. n \in Listed /\ c = requests[n] /\ c \in Request /\ Len(resolved) \in Nat
    BY <2>1, NextForward
  <2>4. Bound /\ requests \in Seq(Request) /\ resolved \in Seq(Request)
    BY <2>1 DEF ForwardInv
  <2> HIDE DEF c
  <2>5. f \in Request
    <3>1. ResolvedPort \in Int
      BY <2>1, PortIsBound
    <3> QED
      BY <2>3, <3>1 DEF Request
  <2>6. /\ GuestEndpoint(f) = GuestEndpoint(requests[n]) /\ f.name = requests[n].name
        /\ f.host = bound[n] \/ Misreported(n, f.host)
    BY <2>1, <2>3, PortIsBound DEF GuestEndpoint
  <2> HIDE DEF f
  <2>7. /\ resolved' \in Seq(Request) /\ Len(resolved') = n
        /\ \A i \in 1..Len(resolved) : resolved'[i] = resolved[i]
        /\ resolved'[n] = f
    BY <2>2, <2>3, <2>4, <2>5
  <2>8. Len(resolved') <= Len(requests)
    BY <2>1, <2>3, <2>4, <2>7
  <2>9. ResolvedAreBound'
    <3> SUFFICES ASSUME NEW i \in DOMAIN resolved'
                 PROVE  /\ resolved'[i].name = requests[i].name
                        /\ GuestEndpoint(resolved'[i]) = GuestEndpoint(requests[i])
                        /\ resolved'[i].host = bound[i] \/ Misreported(i, resolved'[i].host)
      <4>1. ASSUME NEW i, NEW port PROVE Misreported(i, port)' = Misreported(i, port)
        BY <2>1 DEF Misreported, Row, GuestEndpoint
      <4> QED
        BY <2>1, <4>1 DEF ResolvedAreBound, GuestEndpoint
    <3>1. CASE i = n
      BY <2>6, <2>7, <3>1
    <3>2. CASE i # n
      <4>1. i \in 1..Len(resolved) /\ i \in DOMAIN resolved
        BY <2>3, <2>4, <2>7, <3>2
      <4> QED
        BY <2>7, <4>1 DEF ForwardInv, ResolvedAreBound
    <3> QED
      BY <3>1, <3>2
  <2>10. /\ Bound' = Bound /\ NotAsked' = NotAsked /\ Exact' = Exact /\ Listed' = Listed
         /\ ListOK(requests)' = ListOK(requests)
    BY <2>1 DEF Bound, NotAsked, Exact, Listed, Row
  <2> QED
    BY <2>1, <2>7, <2>8, <2>9, <2>10 DEF ForwardInv, FaithfulReportResolves
<1>8. CASE ResolveRaises
  <2>1. pc = "resolve" /\ pc' = "unresolved" /\ Same
    BY <1>8 DEF ResolveRaises
  <2>2. ~faithful
    BY <1>8, FaithfulResolves DEF ResolveRaises
  <2> QED
    BY <1>s, <2>1, <2>2 DEF ForwardInv, FaithfulReportResolves
<1>9. CASE AllResolved
  <2>1. pc = "resolve" /\ pc' = "resolved" /\ Same
    BY <1>9 DEF AllResolved
  <2> QED
    BY <1>s, <2>1 DEF ForwardInv, FaithfulReportResolves
<1>10. CASE UNCHANGED forwardVars
  <2>1. pc' = pc /\ Same
    BY <1>10 DEF forwardVars
  <2> QED
    BY <1>s, <2>1 DEF ForwardInv, FaithfulReportResolves
<1> QED
  BY <1>1, <1>2, <1>3, <1>4, <1>5, <1>6, <1>7, <1>8, <1>9, <1>10 DEF ForwardNext, Ended

\* The inductive invariant of the forwards, from the declared list to the last answer.
THEOREM ForwardInvariant == ForwardSpec => []ForwardInv
<1>1. ForwardInit => ForwardInv
  <2> SUFFICES ASSUME ForwardInit PROVE ForwardInv
    OBVIOUS
  <2>1. /\ requests \in Lists /\ pc \in {"load", "config"} /\ rows = <<>> /\ resolved = <<>> /\ faithful
        /\ requests \in Seq(Request) /\ FreePorts \subseteq Int
    BY ForwardAssumption DEF ForwardInit
  <2>2. ResolvedAreBound /\ resolved \in Seq(Request) /\ Len(resolved) <= Len(requests)
    BY <2>1 DEF ResolvedAreBound
  <2> QED
    BY <2>1, <2>2 DEF ForwardInv, FaithfulReportResolves
<1>2. ForwardInv /\ [ForwardNext]_forwardVars => ForwardInv'
  BY ForwardStep
<1> QED
  BY <1>1, <1>2, PTL DEF ForwardSpec

\* resolve_host_forwards and _resolve_host_forwards: a forward a test is told of is one
\* QEMU listens on, for that protocol and that guest port, whatever row QEMU's report
\* leaves out, adds or gets wrong.  One fault gets through: the port of the only row for
\* a forward whose port QEMU chose.
THEOREM ResolvedForwardsBound == ForwardSpec => []ResolvedAreBound
<1>1. ForwardInv => ResolvedAreBound
  BY DEF ForwardInv
<1> QED
  BY <1>1, ForwardInvariant, PTL

\* A list that _validate_hostfwd, from_namespace and parse_host_forwards let through is
\* never refused over a report that says what QEMU did.
THEOREM FaithfulReport == ForwardSpec => []FaithfulReportResolves
<1>1. ForwardInv => FaithfulReportResolves
  BY DEF ForwardInv
<1> QED
  BY <1>1, ForwardInvariant, PTL

=============================================================================
