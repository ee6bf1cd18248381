-------------------------- MODULE DemoServerProofs --------------------------
(***************************************************************************)
(* Proofs about the output forwarder and the demos.                        *)
(*                                                                         *)
(* The first part is about OutputForwarder alone, for every capacity of    *)
(* the pipe, every number of clients and every main loop that prints.  Its *)
(* invariant keeps the lines in increasing order from the readers over the *)
(* pipe and the task's hand to the channel, and says where lost lines can  *)
(* lie: never between two lines that one client has read or is still to    *)
(* read.                                                                   *)
(*                                                                         *)
(* In the second part the main loop and the output task together are one   *)
(* of the main loops OutputForwarder allows, so what is proved of that     *)
(* holds in the demos; that each printing step prints a number of lines    *)
(* rests on the heap being finite.                                         *)
(***************************************************************************)
EXTENDS DemoServer, DispatchCallsProofs, FiniteSetTheorems, TLAPS

-----------------------------------------------------------------------------
(* The output forwarder: the invariant *)

Ascending(s) == \A i, j \in DOMAIN s : i < j => s[i] < s[j]

Below(S, T) == \A m \in S, n \in T : m < n

\* Every line is below the lines of every place farther from the readers.
Ordered ==
  /\ Ascending(channel)
  /\ Ascending(wire)
  /\ \A i, j \in DOMAIN read : i < j =>
       read[i].line < read[j].line /\ read[i].session <= read[j].session
  /\ Below(LinesRead, LinesOf(wire))
  /\ Below(LinesRead, LinesOf(hand))
  /\ Below(LinesRead, LinesOf(channel))
  /\ Below(LinesOf(wire), LinesOf(hand))
  /\ Below(LinesOf(wire), LinesOf(channel))
  /\ Below(LinesOf(hand), LinesOf(channel))

Held == LinesOf(channel) \cup LinesOf(hand) \cup LinesOf(wire) \cup LinesRead

Accounted ==
  /\ Held \subseteq 1 .. emitted
  /\ lost = (1 .. emitted) \ Held

Phases ==
  /\ attached => forwarder \in {"receiving", "writing", "ended"} /\ session > 0 /\ ~doomed
  /\ ~attached => wire = <<>>
  /\ forwarder \in {"receiving", "writing"} => session > 0
  /\ \A i \in DOMAIN read : read[i].session <= session

Mine == {read[i].line : i \in {j \in DOMAIN read : read[j].session = session}}

\* What the attached client has read or may still read.
OfClient ==
  LinesOf(hand) \cup LinesOf(channel) \cup
    (IF attached THEN LinesOf(wire) \cup Mine ELSE {})

LostOutside ==
  \A n \in lost :
    \/ \A m \in OfClient : n < m
    \/ forwarder = "ended" /\ \A m \in OfClient : m < n

NoGap ==
  \A i, j \in DOMAIN read : \A n \in lost :
    read[i].line < n /\ n < read[j].line => read[i].session < read[j].session

\* What may be lost, by where the task is with its client: each earlier client
\* has cost what it can cost, and the last one, if it has gone, what was in the
\* pipe and the write in vain; the failed write is still to come.
Cost == session * (WireCap + 2)

Allowance ==
  IF forwarder \in {"receiving", "writing"}
    THEN Cost -
           (IF attached THEN WireCap + 2 ELSE IF doomed THEN 1 ELSE 2)
    ELSE Cost

Losses ==
  /\ IsFiniteSet(lost)
  /\ forwarder # "ended" => Cardinality(lost) <= Allowance

Lines == Ordered /\ Accounted /\ LostOutside /\ NoGap

OutputInv == OutputTypeOK /\ Phases /\ Lines /\ Losses

-----------------------------------------------------------------------------
(* Sequences of lines *)

LEMMA LinesOfNone == LinesOf(<<>>) = {} /\ Ascending(<<>>)
  BY DEF LinesOf, Ascending

LEMMA ElementsOf ==
  ASSUME NEW S, NEW s \in Seq(S)
  PROVE  \A i \in DOMAIN s : s[i] \in S
  OBVIOUS

LEMMA LinesAreNumbers ==
  ASSUME NEW s \in Seq(Nat)
  PROVE  LinesOf(s) \subseteq Nat
  BY DEF LinesOf

LEMMA LinesOfOne ==
  ASSUME NEW s \in Seq(Nat), Len(s) = 1
  PROVE  LinesOf(s) = {s[1]} /\ s[1] \in Nat /\ Ascending(s)
  BY DEF LinesOf, Ascending

LEMMA LinesOfBoth ==
  ASSUME NEW s \in Seq(Nat), NEW t \in Seq(Nat)
  PROVE  /\ s \o t \in Seq(Nat)
         /\ Len(s \o t) = Len(s) + Len(t)
         /\ LinesOf(s \o t) = LinesOf(s) \cup LinesOf(t)
         /\ Ascending(s) /\ Ascending(t) /\ Below(LinesOf(s), LinesOf(t))
              => Ascending(s \o t)
<1>1. s \o t \in Seq(Nat) /\ Len(s \o t) = Len(s) + Len(t)
  OBVIOUS
<1>2. \A i \in 1 .. Len(s) : (s \o t)[i] = s[i]
  OBVIOUS
<1>3. \A i \in 1 .. Len(t) : (s \o t)[Len(s) + i] = t[i]
  OBVIOUS
<1>4. \A i \in 1 .. Len(s) + Len(t) : i > Len(s) =>
        /\ i - Len(s) \in 1 .. Len(t)
        /\ (s \o t)[i] = t[i - Len(s)]
  OBVIOUS
<1>5. LinesOf(s \o t) \subseteq LinesOf(s) \cup LinesOf(t)
  BY <1>1, <1>2, <1>4 DEF LinesOf
<1>6. LinesOf(s) \subseteq LinesOf(s \o t)
  BY <1>1, <1>2 DEF LinesOf
<1>7. LinesOf(t) \subseteq LinesOf(s \o t)
  <2>1. SUFFICES ASSUME NEW i \in 1 .. Len(t) PROVE t[i] \in LinesOf(s \o t)
    BY DEF LinesOf
  <2>2. Len(s) + i \in DOMAIN (s \o t)
    BY <1>1
  <2>3. QED BY <2>2, <1>3 DEF LinesOf
<1>8. ASSUME Ascending(s), Ascending(t), Below(LinesOf(s), LinesOf(t))
      PROVE  Ascending(s \o t)
  <2>1. SUFFICES ASSUME NEW i \in 1 .. Len(s) + Len(t), NEW j \in 1 .. Len(s) + Len(t), i < j
                 PROVE  (s \o t)[i] < (s \o t)[j]
    BY <1>1 DEF Ascending
  <2>2. CASE j <= Len(s)
    BY <2>1, <2>2, <1>2, <1>8 DEF Ascending
  <2>3. CASE i > Len(s)
    <3>1. i - Len(s) \in DOMAIN t /\ j - Len(s) \in DOMAIN t /\ i - Len(s) < j - Len(s)
      BY <2>1, <2>3
    <3>2. t[i - Len(s)] < t[j - Len(s)]
      BY <3>1, <1>8 DEF Ascending
    <3>3. QED BY <3>2, <2>1, <2>3, <1>4
  <2>4. CASE i <= Len(s) /\ j > Len(s)
    <3>1. s[i] \in LinesOf(s) /\ t[j - Len(s)] \in LinesOf(t)
      BY <2>1, <2>4, <1>4 DEF LinesOf
    <3>2. s[i] < t[j - Len(s)]
      BY <3>1, <1>8 DEF Below
    <3>3. QED BY <3>2, <2>1, <2>4, <1>2, <1>4
  <2>5. QED BY <2>2, <2>3, <2>4
<1>9. QED BY <1>1, <1>5, <1>6, <1>7, <1>8

LEMMA LinesOfHead ==
  ASSUME NEW s \in Seq(Nat), s # <<>>
  PROVE  /\ Head(s) \in Nat
         /\ Tail(s) \in Seq(Nat)
         /\ Len(Tail(s)) = Len(s) - 1
         /\ LinesOf(s) = {Head(s)} \cup LinesOf(Tail(s))
         /\ Ascending(s) => Ascending(Tail(s)) /\ Below({Head(s)}, LinesOf(Tail(s)))
<1>1. Len(s) > 0 /\ Head(s) = s[1] /\ Head(s) \in Nat
  OBVIOUS
<1>2. Tail(s) \in Seq(Nat) /\ Len(Tail(s)) = Len(s) - 1
  OBVIOUS
<1>3. \A i \in 1 .. Len(s) - 1 : Tail(s)[i] = s[i + 1]
  OBVIOUS
<1>4. LinesOf(s) \subseteq {Head(s)} \cup LinesOf(Tail(s))
  <2>1. SUFFICES ASSUME NEW i \in 1 .. Len(s), i # 1 PROVE s[i] \in LinesOf(Tail(s))
    BY <1>1 DEF LinesOf
  <2>2. i - 1 \in 1 .. Len(s) - 1 /\ Tail(s)[i - 1] = s[i]
    BY <2>1, <1>3
  <2>3. i - 1 \in DOMAIN Tail(s)
    BY <2>2, <1>2
  <2>4. QED BY <2>2, <2>3 DEF LinesOf
<1>5. {Head(s)} \cup LinesOf(Tail(s)) \subseteq LinesOf(s)
  BY <1>1, <1>2, <1>3 DEF LinesOf
<1>6. ASSUME Ascending(s)
      PROVE  Ascending(Tail(s)) /\ Below({Head(s)}, LinesOf(Tail(s)))
  BY <1>1, <1>2, <1>3, <1>6 DEF Ascending, Below, LinesOf
<1>7. QED BY <1>1, <1>2, <1>4, <1>5, <1>6

LEMMA LinesOfNew ==
  ASSUME NEW e \in Nat, NEW n \in Nat
  PROVE  LET s == [i \in 1 .. n |-> e + i]
         IN  s \in Seq(Nat) /\ Ascending(s) /\ LinesOf(s) = e + 1 .. e + n
<1> DEFINE s == [i \in 1 .. n |-> e + i]
<1>1. s \in Seq(Nat) /\ DOMAIN s = 1 .. n /\ Ascending(s)
  BY DEF Ascending
<1>2. LinesOf(s) \subseteq e + 1 .. e + n
  BY DEF LinesOf
<1>3. ASSUME NEW m \in e + 1 .. e + n PROVE m \in LinesOf(s)
  <2>1. m - e \in 1 .. n /\ s[m - e] = m
    OBVIOUS
  <2>2. QED BY <2>1 DEF LinesOf
<1>4. QED BY <1>1, <1>2, <1>3
-----------------------------------------------------------------------------
(* Type correctness *)

LEMMA OutputTypeInit == OutputInit => OutputTypeOK
<1> SUFFICES ASSUME OutputInit PROVE OutputTypeOK
  OBVIOUS
<1>1. /\ channel \in Seq(Nat) /\ hand \in Seq(Nat) /\ Len(hand) = 0
      /\ wire \in Seq(Nat) /\ Len(wire) = 0
      /\ read \in Seq([line : Nat, session : Nat])
  BY DEF OutputInit
<1>2. forwarder \in {"creating", "ended"}
  BY DEF OutputInit
<1>3. sender \in BOOLEAN /\ attached \in BOOLEAN /\ doomed \in BOOLEAN
  BY DEF OutputInit
<1>4. emitted = 0 /\ session = 0 /\ lost = {}
  BY DEF OutputInit
<1>5. QED BY <1>1, <1>2, <1>3, <1>4, OutputAssumption DEF OutputTypeOK

LEMMA OutputTypeStep ==
  ASSUME OutputTypeOK, [OutputNext]_output
  PROVE  OutputTypeOK'
<1> USE OutputAssumption DEF OutputTypeOK
<1>0. LinesOf(channel) \subseteq Nat /\ LinesOf(hand) \subseteq Nat /\ LinesOf(wire) \subseteq Nat
  BY LinesAreNumbers
<1>a. ASSUME Ends, UNCHANGED <<emitted, session, attached, wire, read>>, sender' \in BOOLEAN
      PROVE  OutputTypeOK'
  <2>1. lost' \subseteq Nat
    BY <1>a, <1>0 DEF Ends
  <2>2. channel' \in Seq(Nat) /\ hand' \in Seq(Nat) /\ Len(hand') = 0
    BY <1>a DEF Ends
  <2>3. forwarder' = "ended" /\ doomed' = doomed
    BY <1>a DEF Ends
  <2>4. QED BY <1>a, <2>1, <2>2, <2>3
<1>1. CASE Creates
  BY <1>1 DEF Creates, pipe
<1>2. CASE ForwarderFails
  BY <1>2, <1>a DEF ForwarderFails, pipe
<1>3. CASE TakesLine
  <2>1. /\ Tail(channel) \in Seq(Nat)
        /\ <<Head(channel)>> \in Seq(Nat)
        /\ Len(<<Head(channel)>>) = 1
    BY <1>3, LinesOfHead DEF TakesLine
  <2>2. QED BY <1>3, <2>1 DEF TakesLine, pipe
<1>4. CASE ReceivesNone
  BY <1>4, <1>a DEF ReceivesNone, pipe
<1>5. CASE Writes
  <2>1. wire \o hand \in Seq(Nat) /\ Len(wire \o hand) = Len(wire) + 1
    BY <1>5, LinesOfBoth DEF Writes
  <2>2. QED BY <1>5, <2>1 DEF Writes
<1>6. CASE WritesInVain
  <2>1. lost' \subseteq Nat
    BY <1>6, <1>0 DEF WritesInVain
  <2>2. hand' \in Seq(Nat) /\ Len(hand') = 0
    BY <1>6 DEF WritesInVain
  <2>3. QED BY <1>6, <2>1, <2>2 DEF WritesInVain, pipe
<1>7. CASE WriteFails
  <2>1. CASE ~sender
    BY <1>7, <2>1, <1>a DEF WriteFails, pipe
  <2>2. CASE sender
    <3>1. lost' \subseteq Nat
      BY <1>7, <1>0, <2>2 DEF WriteFails
    <3>2. hand' \in Seq(Nat) /\ Len(hand') = 0
      BY <1>7, <2>2 DEF WriteFails
    <3>3. QED BY <1>7, <2>2, <3>1, <3>2 DEF WriteFails, pipe
  <2>3. QED BY <2>1, <2>2
<1>8. CASE OutputConnects
  <2>1. attached' \in BOOLEAN /\ doomed' \in BOOLEAN
    BY <1>8 DEF OutputConnects
  <2>2. session' = session + 1 /\ session < MaxSessions /\ forwarder' = "receiving"
    BY <1>8 DEF OutputConnects
  <2>3. UNCHANGED <<emitted, sender, channel, hand, wire, read, lost>> /\ forwarder # "writing"
    BY <1>8 DEF OutputConnects
  <2>4. QED BY <2>1, <2>2, <2>3
<1>9. CASE OutputReads
  <2>1. Head(wire) \in Nat /\ Tail(wire) \in Seq(Nat) /\ Len(Tail(wire)) = Len(wire) - 1
    BY <1>9, LinesOfHead DEF OutputReads
  <2>2. [line |-> Head(wire), session |-> session] \in [line : Nat, session : Nat]
    BY <2>1
  <2>3. read' \in Seq([line : Nat, session : Nat])
    BY <1>9, <2>2 DEF OutputReads
  <2>4. wire' \in Seq(Nat) /\ Len(wire') <= WireCap
    BY <1>9, <2>1 DEF OutputReads
  <2>5. QED BY <1>9, <2>3, <2>4 DEF OutputReads, task
<1>10. CASE OutputLeaves
  <2>1. lost' \subseteq Nat
    BY <1>10, <1>0 DEF OutputLeaves
  <2>2. wire' \in Seq(Nat) /\ Len(wire') = 0
    BY <1>10 DEF OutputLeaves
  <2>3. attached' \in BOOLEAN
    BY <1>10 DEF OutputLeaves
  <2>4. UNCHANGED <<emitted, sender, channel, task, session, read>>
    BY <1>10 DEF OutputLeaves
  <2>5. QED BY <2>1, <2>2, <2>3, <2>4 DEF task
<1>11. ASSUME NEW n \in Nat, Emits(n) PROVE OutputTypeOK'
  <2>1. channel \o [i \in 1 .. n |-> emitted + i] \in Seq(Nat)
    BY LinesOfNew, LinesOfBoth
  <2>2. channel' \in Seq(Nat)
    BY <1>11, <2>1 DEF Emits
  <2>3. lost' \subseteq Nat /\ emitted' \in Nat
    <3>1. emitted + 1 .. emitted + n \subseteq Nat /\ emitted + n \in Nat
      OBVIOUS
    <3>2. emitted' = emitted + n /\ lost' \subseteq lost \cup (emitted + 1 .. emitted + n)
      BY <1>11 DEF Emits
    <3>3. QED BY <3>1, <3>2
  <2>4. QED BY <1>11, <2>2, <2>3 DEF Emits, task, pipe
<1>12. CASE Drops
  BY <1>12 DEF Drops, task, pipe
<1>13. CASE Stops
  BY <1>13, <1>a DEF Stops, pipe
<1>14. CASE UNCHANGED output
  BY <1>14 DEF output, task, pipe
<1>15. QED
  BY <1>1, <1>2, <1>3, <1>4, <1>5, <1>6, <1>7, <1>8, <1>9, <1>10, <1>11, <1>12, <1>13, <1>14
     DEF OutputNext, OutputSteps

\* Type correctness of the output pipe (forward_output_to_pipe), with any main
\* loop.
THEOREM OutputTypeCorrect == OutputSpec => []OutputTypeOK
  BY OutputTypeInit, OutputTypeStep, PTL DEF OutputSpec

-----------------------------------------------------------------------------
(* The phases of the task *)

LEMMA PhasesStep ==
  ASSUME OutputTypeOK, Phases, [OutputNext]_output
  PROVE  Phases'
<1> USE OutputAssumption DEF OutputTypeOK, Phases
<1>0. \A i \in DOMAIN read : read[i] \in [line : Nat, session : Nat]
  BY ElementsOf
<1>1. CASE Creates
  BY <1>1 DEF Creates, pipe
<1>2. CASE ForwarderFails
  BY <1>2 DEF ForwarderFails, Ends, pipe
<1>3. CASE TakesLine
  BY <1>3 DEF TakesLine, pipe
<1>4. CASE ReceivesNone
  BY <1>4 DEF ReceivesNone, Ends, pipe
<1>5. CASE Writes
  BY <1>5 DEF Writes
<1>6. CASE WritesInVain
  BY <1>6 DEF WritesInVain, pipe
<1>7. CASE WriteFails
  BY <1>7 DEF WriteFails, Ends, pipe
<1>8. CASE OutputConnects
  <2>1. attached' /\ ~doomed' /\ session' = session + 1 /\ forwarder' = "receiving"
    BY <1>8 DEF OutputConnects
  <2>2. UNCHANGED <<wire, read>>
    BY <1>8 DEF OutputConnects
  <2>3. \A i \in DOMAIN read : read[i].session <= session + 1
    BY <1>0
  <2>4. QED BY <2>1, <2>2, <2>3
<1>9. CASE OutputReads
  <2>1. /\ Len(read') = Len(read) + 1
        /\ DOMAIN read' = 1 .. Len(read) + 1
        /\ DOMAIN read = 1 .. Len(read)
        /\ \A i \in 1 .. Len(read) : read'[i] = read[i]
        /\ read'[Len(read) + 1].session = session
    BY <1>9 DEF OutputReads
  <2>2. \A i \in DOMAIN read' : read'[i].session <= session
    <3>1. SUFFICES ASSUME NEW i \in 1 .. Len(read) + 1 PROVE read'[i].session <= session
      BY <2>1
    <3>2. CASE i = Len(read) + 1
      BY <3>2, <2>1
    <3>3. CASE i \in 1 .. Len(read)
      BY <3>3, <2>1
    <3>4. i = Len(read) + 1 \/ i \in 1 .. Len(read)
      <4>1. Len(read) \in Nat
        OBVIOUS
      <4>2. QED BY <4>1
    <3>5. QED BY <3>2, <3>3, <3>4
  <2>3. QED BY <1>9, <2>2 DEF OutputReads, task
<1>10. CASE OutputLeaves
  BY <1>10 DEF OutputLeaves, task
<1>11. ASSUME NEW n \in Nat, Emits(n) PROVE Phases'
  BY <1>11 DEF Emits, task, pipe
<1>12. CASE Drops
  BY <1>12 DEF Drops, task, pipe
<1>13. CASE Stops
  BY <1>13 DEF Stops, Ends, pipe
<1>14. CASE UNCHANGED output
  BY <1>14 DEF output, task, pipe
<1>15. QED
  BY <1>1, <1>2, <1>3, <1>4, <1>5, <1>6, <1>7, <1>8, <1>9, <1>10, <1>11, <1>12, <1>13, <1>14
     DEF OutputNext, OutputSteps

-----------------------------------------------------------------------------
(* What the steps do to the places a line can be in *)

LEMMA ReadTypes ==
  ASSUME OutputTypeOK
  PROVE  /\ DOMAIN read = 1 .. Len(read) /\ Len(read) \in Nat
         /\ \A i \in DOMAIN read : read[i].line \in Nat /\ read[i].session \in Nat
         /\ \A i \in DOMAIN read : read[i].line \in LinesRead
         /\ LinesRead \subseteq Nat /\ Mine \subseteq LinesRead
         /\ LinesOf(channel) \subseteq Nat
         /\ LinesOf(hand) \subseteq Nat
         /\ LinesOf(wire) \subseteq Nat
<1>1. read \in Seq([line : Nat, session : Nat])
  BY DEF OutputTypeOK
<1>2. DOMAIN read = 1 .. Len(read) /\ Len(read) \in Nat
  BY <1>1
<1>3. \A i \in DOMAIN read : read[i] \in [line : Nat, session : Nat]
  BY <1>1, ElementsOf
<1>4. \A i \in DOMAIN read : read[i].line \in Nat /\ read[i].session \in Nat
  BY <1>3
<1>5. LinesRead \subseteq Nat /\ Mine \subseteq LinesRead
  BY <1>4 DEF LinesRead, Mine
<1>6. QED BY <1>2, <1>4, <1>5, LinesAreNumbers DEF LinesRead, OutputTypeOK

\* Lines that get lost above all that has been read leave no gap.
LEMMA NoGapKept ==
  ASSUME OutputTypeOK, NoGap, UNCHANGED read, lost' \subseteq Nat,
         \A n \in lost' : n \in lost \/ \A m \in LinesRead : m < n
  PROVE  NoGap'
<1>1. SUFFICES ASSUME NEW i \in DOMAIN read, NEW j \in DOMAIN read, NEW n \in lost',
                      read[i].line < n, n < read[j].line
               PROVE  read[i].session < read[j].session
  BY DEF NoGap
<1>2. read[j].line \in LinesRead /\ read[j].line \in Nat /\ n \in Nat
  BY ReadTypes
<1>3. ~(read[j].line < n)
  BY <1>1, <1>2
<1>4. n \in lost
  BY <1>2, <1>3
<1>5. QED BY <1>1, <1>4 DEF NoGap

LEMMA StayingLines ==
  ASSUME Lines, UNCHANGED <<emitted, channel, hand, session, attached, wire, read, lost>>,
         forwarder = "ended" => forwarder' = "ended"
  PROVE  Lines'
<1>1. /\ LinesOf(channel)' = LinesOf(channel)
      /\ LinesOf(hand)' = LinesOf(hand)
      /\ LinesOf(wire)' = LinesOf(wire)
      /\ LinesRead' = LinesRead /\ Mine' = Mine
  BY DEF LinesOf, LinesRead, Mine
<1>2. Held' = Held /\ OfClient' = OfClient
  BY <1>1 DEF Held, OfClient
<1>3. Ordered'
  BY <1>1 DEF Lines, Ordered, Ascending
<1>4. Accounted' /\ LostOutside'
  BY <1>2 DEF Lines, Accounted, LostOutside
<1>5. NoGap'
  BY DEF Lines, NoGap
<1>6. QED BY <1>3, <1>4, <1>5 DEF Lines

\* The end of the task loses what it and the channel hold.
LEMMA EndsLines ==
  ASSUME OutputTypeOK, OutputTypeOK', Phases, Lines,
         Ends, UNCHANGED <<emitted, session, attached, wire, read>>
  PROVE  Lines'
<1> USE DEF Lines
<1>1. /\ LinesOf(channel)' = {} /\ Ascending(channel')
      /\ LinesOf(hand)' = {}
      /\ LinesOf(wire)' = LinesOf(wire)
      /\ LinesRead' = LinesRead /\ Mine' = Mine
      /\ lost' = lost \cup LinesOf(channel) \cup LinesOf(hand)
      /\ forwarder' = "ended"
  BY LinesOfNone DEF Ends, LinesOf, LinesRead, Mine
<1>2. Ordered'
  BY <1>1 DEF Ordered, Below, Ascending
<1>3. Accounted'
  BY <1>1 DEF Ordered, Below, Accounted, Held
<1>4. LostOutside'
  <2>1. SUFFICES ASSUME NEW n \in lost'
                 PROVE  (\A m \in OfClient' : n < m) \/ (\A m \in OfClient' : m < n)
    BY <1>1 DEF LostOutside
  <2>2. OfClient' \subseteq OfClient /\ OfClient' \subseteq LinesOf(wire) \cup LinesRead
    BY <1>1, ReadTypes DEF OfClient
  <2>3. CASE n \in lost
    BY <2>2, <2>3 DEF LostOutside
  <2>4. CASE n \in LinesOf(channel) \cup LinesOf(hand)
    BY <2>2, <2>4 DEF Ordered, Below
  <2>5. QED BY <1>1, <2>3, <2>4
<1>5. NoGap'
  <2>1. \A n \in lost' : n \in lost \/ \A m \in LinesRead : m < n
    BY <1>1 DEF Ordered, Below
  <2>2. lost' \subseteq Nat
    BY DEF OutputTypeOK
  <2>3. QED BY <2>1, <2>2, NoGapKept
<1>6. QED BY <1>2, <1>3, <1>4, <1>5

LEMMA TakesLineLines ==
  ASSUME OutputTypeOK, OutputTypeOK', Phases, Lines, TakesLine
  PROVE  Lines'
<1> USE DEF Lines
<1>1. channel \in Seq(Nat) /\ channel # <<>> /\ hand \in Seq(Nat) /\ Len(hand) = 0
  BY DEF OutputTypeOK, TakesLine
<1>2. /\ LinesOf(channel) = {Head(channel)} \cup LinesOf(channel')
      /\ Ascending(channel')
      /\ Below({Head(channel)}, LinesOf(channel'))
  BY <1>1, LinesOfHead DEF TakesLine, Ordered
<1>3. LinesOf(hand) = {} /\ LinesOf(hand') = {Head(channel)}
  BY <1>1 DEF LinesOf, TakesLine
<1>4. /\ LinesOf(wire)' = LinesOf(wire)
      /\ LinesRead' = LinesRead /\ Mine' = Mine
      /\ UNCHANGED <<emitted, attached, wire, read, lost>>
      /\ forwarder = "receiving"
  BY DEF TakesLine, pipe, LinesOf, LinesRead, Mine
<1>5. Held' = Held /\ OfClient' = OfClient
  BY <1>2, <1>3, <1>4 DEF Held, OfClient
<1>6. Ordered'
  BY <1>2, <1>3, <1>4 DEF Ordered, Below, Ascending
<1>7. Accounted' /\ LostOutside'
  BY <1>4, <1>5 DEF Accounted, LostOutside
<1>8. NoGap'
  BY <1>4 DEF NoGap
<1>9. QED BY <1>6, <1>7, <1>8

LEMMA WritesLines ==
  ASSUME OutputTypeOK, OutputTypeOK', Phases, Lines, Writes
  PROVE  Lines'
<1> USE DEF Lines
<1>1. wire \in Seq(Nat) /\ hand \in Seq(Nat) /\ Len(hand) = 1
  BY DEF OutputTypeOK, Writes
<1>2. /\ LinesOf(wire') = LinesOf(wire) \cup LinesOf(hand)
      /\ Ascending(wire')
  BY <1>1, LinesOfBoth, LinesOfOne DEF Writes, Ordered
<1>3. LinesOf(hand') = {}
  BY LinesOfNone DEF Writes
<1>4. /\ LinesOf(channel)' = LinesOf(channel)
      /\ LinesRead' = LinesRead /\ Mine' = Mine
      /\ UNCHANGED <<emitted, attached, channel, read, lost>>
      /\ forwarder = "writing" /\ attached
  BY DEF Writes, LinesOf, LinesRead, Mine
<1>5. Held' = Held /\ OfClient' = OfClient
  BY <1>2, <1>3, <1>4 DEF Held, OfClient
<1>6. Ordered'
  BY <1>2, <1>3, <1>4 DEF Ordered, Below, Ascending
<1>7. Accounted' /\ LostOutside'
  BY <1>4, <1>5 DEF Accounted, LostOutside
<1>8. NoGap'
  BY <1>4 DEF NoGap
<1>9. QED BY <1>6, <1>7, <1>8

\* A write that fails, or that the runtime takes in vain, loses its line.
LEMMA LosesHandLines ==
  ASSUME OutputTypeOK, OutputTypeOK', Phases, Lines,
         forwarder = "writing", ~attached, hand' = <<>>,
         lost' = lost \cup LinesOf(hand),
         UNCHANGED <<emitted, channel, session, attached, wire, read>>
  PROVE  Lines'
<1> USE DEF Lines
<1>1. /\ LinesOf(hand)' = {}
      /\ LinesOf(channel)' = LinesOf(channel)
      /\ LinesOf(wire)' = LinesOf(wire)
      /\ LinesRead' = LinesRead
  BY LinesOfNone DEF LinesOf, LinesRead
<1>2. Ordered'
  BY <1>1 DEF Ordered, Below, Ascending
<1>3. Accounted'
  BY <1>1 DEF Ordered, Below, Accounted, Held
<1>4. LostOutside'
  <2>1. OfClient' = LinesOf(channel) /\ LinesOf(channel) \subseteq OfClient
    BY <1>1 DEF OfClient
  <2>2. QED BY <2>1 DEF LostOutside, Ordered, Below
<1>5. NoGap'
  <2>1. \A n \in lost' : n \in lost \/ \A m \in LinesRead : m < n
    BY <1>1 DEF Ordered, Below
  <2>2. lost' \subseteq Nat
    BY DEF OutputTypeOK
  <2>3. QED BY <2>1, <2>2, NoGapKept
<1>6. QED BY <1>2, <1>3, <1>4, <1>5

LEMMA OutputConnectsLines ==
  ASSUME OutputTypeOK, OutputTypeOK', Phases, Lines, OutputConnects
  PROVE  Lines'
<1> USE DEF Lines
<1>1. ~attached /\ forwarder = "listening" /\ LinesOf(wire) = {}
  BY LinesOfNone DEF Phases, OutputConnects
<1>2. /\ LinesOf(hand)' = LinesOf(hand)
      /\ LinesOf(channel)' = LinesOf(channel)
      /\ LinesOf(wire)' = LinesOf(wire)
      /\ LinesRead' = LinesRead
      /\ UNCHANGED <<emitted, channel, wire, read, lost>>
      /\ session' = session + 1
  BY DEF OutputConnects, LinesOf, LinesRead
<1>3. Mine' = {}
  <2>1. \A i \in DOMAIN read : read[i].session <= session /\ read[i].session \in Nat
    BY ReadTypes DEF Phases
  <2>2. session \in Nat
    BY OutputAssumption DEF OutputTypeOK
  <2>3. \A i \in DOMAIN read : read[i].session # session + 1
    BY <2>1, <2>2
  <2>4. QED BY <1>2, <2>3 DEF Mine
<1>4. OfClient' = OfClient
  BY <1>1, <1>2, <1>3 DEF OfClient
<1>5. Ordered'
  BY <1>2 DEF Ordered, Below, Ascending
<1>6. Accounted' /\ LostOutside' /\ NoGap'
  BY <1>1, <1>2, <1>4 DEF Accounted, Held, LostOutside, NoGap
<1>7. QED BY <1>5, <1>6

LEMMA OutputLeavesLines ==
  ASSUME OutputTypeOK, OutputTypeOK', Phases, Lines, OutputLeaves
  PROVE  Lines'
<1> USE DEF Lines
<1>1. /\ LinesOf(wire)' = {} /\ Ascending(wire')
      /\ LinesOf(hand)' = LinesOf(hand)
      /\ LinesOf(channel)' = LinesOf(channel)
      /\ LinesRead' = LinesRead
      /\ lost' = lost \cup LinesOf(wire)
      /\ UNCHANGED <<emitted, channel, read, forwarder>>
      /\ ~attached'
  BY LinesOfNone DEF OutputLeaves, task, LinesOf, LinesRead
<1>2. Ordered'
  BY <1>1 DEF Ordered, Below, Ascending
<1>3. Accounted'
  BY <1>1 DEF Ordered, Below, Accounted, Held
<1>4. LostOutside'
  <2>1. OfClient' = LinesOf(hand) \cup LinesOf(channel) /\ OfClient' \subseteq OfClient
    BY <1>1 DEF OfClient
  <2>2. QED BY <1>1, <2>1 DEF LostOutside, Ordered, Below
<1>5. NoGap'
  <2>1. \A n \in lost' : n \in lost \/ \A m \in LinesRead : m < n
    BY <1>1 DEF Ordered, Below
  <2>2. lost' \subseteq Nat
    BY DEF OutputTypeOK
  <2>3. QED BY <1>1, <2>1, <2>2, NoGapKept
<1>6. QED BY <1>2, <1>3, <1>4, <1>5

LEMMA OutputReadsLines ==
  ASSUME OutputTypeOK, OutputTypeOK', Phases, Lines, OutputReads
  PROVE  Lines'
<1> USE DEF Lines
<1> DEFINE last == Len(read) + 1
           h == Head(wire)
<1>1. wire \in Seq(Nat) /\ wire # <<>> /\ attached
  BY DEF OutputTypeOK, OutputReads
<1>2. /\ LinesOf(wire) = {h} \cup LinesOf(wire') /\ h \in Nat
      /\ Ascending(wire')
      /\ Below({h}, LinesOf(wire'))
  BY <1>1, LinesOfHead DEF OutputReads, Ordered
<1>3. /\ DOMAIN read = 1 .. Len(read) /\ Len(read) \in Nat
      /\ DOMAIN read' = 1 .. last
      /\ \A i \in 1 .. Len(read) : read'[i] = read[i]
      /\ read'[last].line = h /\ read'[last].session = session
  BY DEF OutputReads, OutputTypeOK
<1>4. /\ LinesOf(hand)' = LinesOf(hand)
      /\ LinesOf(channel)' = LinesOf(channel)
      /\ UNCHANGED <<emitted, channel, session, attached, lost, forwarder>>
  BY DEF OutputReads, task, LinesOf
<1> HIDE DEF last, h
<1>5. \A i \in DOMAIN read' : i \in DOMAIN read \/ i = last
  BY <1>3 DEF last
<1>6. last \in DOMAIN read' /\ \A i \in DOMAIN read : i \in DOMAIN read' /\ i < last
  BY <1>3 DEF last
<1>7. LinesRead' = LinesRead \cup {h}
  BY <1>3, <1>5, <1>6 DEF LinesRead
<1>8. Mine' = Mine \cup {h}
  BY <1>3, <1>4, <1>5, <1>6 DEF Mine
<1>9. Held' = Held /\ OfClient' = OfClient
  BY <1>1, <1>2, <1>4, <1>7, <1>8 DEF Held, OfClient
<1>10. Accounted' /\ LostOutside'
  BY <1>4, <1>9 DEF Accounted, LostOutside
<1>11. ASSUME NEW i \in DOMAIN read', NEW j \in DOMAIN read', i < j
       PROVE  read'[i].line < read'[j].line /\ read'[i].session <= read'[j].session
  <2>1. i \in DOMAIN read
    BY <1>3, <1>5, <1>11 DEF last
  <2>2. CASE j \in DOMAIN read
    BY <2>1, <2>2, <1>3, <1>11 DEF Ordered
  <2>3. CASE j = last
    <3>1. read[i].line < h
      BY <2>1, <1>2, ReadTypes DEF Ordered, Below
    <3>2. read[i].session <= session
      BY <2>1 DEF Phases
    <3>3. QED BY <3>1, <3>2, <2>1, <2>3, <1>3
  <2>4. QED BY <1>5, <2>2, <2>3
<1>12. Ordered'
  <2>1. Below(LinesRead', LinesOf(wire')) /\ Below(LinesRead', LinesOf(hand))
          /\ Below(LinesRead', LinesOf(channel))
    BY <1>2, <1>7 DEF Ordered, Below
  <2>2. Below(LinesOf(wire'), LinesOf(hand)) /\ Below(LinesOf(wire'), LinesOf(channel))
    BY <1>2 DEF Ordered, Below
  <2>3. QED BY <1>2, <1>4, <1>11, <2>1, <2>2 DEF Ordered, Ascending
<1>13. NoGap'
  <2>1. SUFFICES ASSUME NEW i \in DOMAIN read', NEW j \in DOMAIN read', NEW n \in lost,
                        read'[i].line < n, n < read'[j].line
                 PROVE  read'[i].session < read'[j].session
    BY <1>4 DEF NoGap
  <2>2. n \in Nat /\ \A m \in LinesRead : m < h /\ m \in Nat
    BY <1>2, ReadTypes DEF Ordered, Below, OutputTypeOK
  <2>3. i # last
    <3>1. ASSUME i = last PROVE FALSE
      <4>1. h < n /\ (j \in DOMAIN read => read[j].line < h)
        BY <3>1, <2>1, <2>2, <1>3, ReadTypes
      <4>2. CASE j = last
        BY <4>1, <4>2, <2>1, <2>2, <1>2, <1>3
      <4>3. CASE j \in DOMAIN read
        BY <4>1, <4>3, <2>1, <2>2, <1>2, <1>3, ReadTypes
      <4>4. QED BY <4>2, <4>3, <1>5
    <3>2. QED BY <3>1
  <2>4. i \in DOMAIN read /\ read'[i] = read[i]
    BY <2>3, <1>3, <1>5
  <2>5. CASE j \in DOMAIN read
    BY <2>1, <2>4, <2>5, <1>3 DEF NoGap
  <2>6. CASE j = last
    <3>1. /\ read[i].session <= session /\ read[i].session \in Nat
          /\ session \in Nat
      <4>1. session \in Nat
        BY OutputAssumption DEF OutputTypeOK
      <4>2. QED BY <2>4, <4>1, ReadTypes DEF Phases
    <3>2. CASE read[i].session < session
      BY <3>2, <2>4, <2>6, <1>3
    <3>3. CASE read[i].session = session
      <4>1. read[i].line \in OfClient /\ h \in OfClient
        BY <3>3, <2>4, <1>1, <1>2 DEF OfClient, Mine
      <4>2. read[i].line < n /\ n < h /\ read[i].line \in Nat
        BY <2>1, <2>4, <2>6, <1>3, ReadTypes
      <4>3. QED BY <4>1, <4>2, <2>2, <1>2 DEF LostOutside
    <3>4. QED BY <3>1, <3>2, <3>3
  <2>7. QED BY <1>5, <2>5, <2>6
<1>14. QED BY <1>10, <1>12, <1>13

LEMMA EmitsLines ==
  ASSUME OutputTypeOK, OutputTypeOK', Phases, Lines, NEW n \in Nat, Emits(n)
  PROVE  Lines'
<1> USE DEF Lines
<1> DEFINE new == [i \in 1 .. n |-> emitted + i]
           News == emitted + 1 .. emitted + n
<1>1. /\ LinesOf(hand)' = LinesOf(hand)
      /\ LinesOf(wire)' = LinesOf(wire)
      /\ LinesRead' = LinesRead /\ Mine' = Mine
      /\ emitted' = emitted + n /\ emitted \in Nat
      /\ UNCHANGED <<hand, wire, read, attached, forwarder>>
  BY DEF Emits, task, pipe, LinesOf, LinesRead, Mine, OutputTypeOK
<1>2. new \in Seq(Nat) /\ Ascending(new) /\ LinesOf(new) = News
  BY <1>1, LinesOfNew
<1>3. /\ \A k \in News : k \in Nat /\ \A m \in Held : m < k
      /\ News \cap (1 .. emitted) = {}
      /\ (1 .. emitted) \cup News = 1 .. emitted + n
  BY <1>1 DEF Accounted
<1> HIDE DEF new, News
<1>4. CASE forwarder = "ended"
  <2>1. lost' = lost \cup News /\ UNCHANGED channel /\ LinesOf(channel)' = LinesOf(channel)
    BY <1>4 DEF Emits, News, LinesOf
  <2>2. Held' = Held /\ OfClient' = OfClient /\ OfClient \subseteq Held
    BY <1>1, <2>1, ReadTypes DEF Held, OfClient
  <2>3. Ordered'
    BY <1>1, <2>1 DEF Ordered, Below, Ascending
  <2>4. Accounted'
    BY <1>1, <1>3, <2>1, <2>2 DEF Accounted
  <2>5. LostOutside'
    BY <1>1, <1>3, <1>4, <2>1, <2>2 DEF LostOutside
  <2>6. NoGap'
    <3>1. \A k \in lost' : k \in lost \/ \A m \in LinesRead : m < k
      BY <1>3, <2>1 DEF Held
    <3>2. lost' \subseteq Nat
      BY DEF OutputTypeOK
    <3>3. QED BY <1>1, <3>1, <3>2, NoGapKept
  <2>7. QED BY <2>3, <2>4, <2>5, <2>6
<1>5. CASE forwarder # "ended"
  <2>1. channel' = channel \o new /\ UNCHANGED lost /\ channel \in Seq(Nat)
    BY <1>5 DEF Emits, new, OutputTypeOK
  <2>2. Below(LinesOf(channel), News)
    BY <1>3 DEF Held, Below
  <2>3. LinesOf(channel') = LinesOf(channel) \cup News /\ Ascending(channel')
    BY <1>2, <2>1, <2>2, LinesOfBoth DEF Ordered
  <2>4. /\ Held' = Held \cup News
        /\ OfClient' = OfClient \cup News
    BY <1>1, <2>3 DEF Held, OfClient
  <2>5. Below(LinesRead, News) /\ Below(LinesOf(wire), News) /\ Below(LinesOf(hand), News)
    BY <1>3 DEF Held, Below
  <2>6. Ordered'
    BY <1>1, <2>1, <2>3, <2>5 DEF Ordered, Below, Ascending
  <2>7. Accounted'
    BY <1>1, <1>3, <2>1, <2>4 DEF Accounted
  <2>8. LostOutside'
    <3>1. lost \subseteq 1 .. emitted
      BY DEF Accounted
    <3>2. \A k \in lost : \A m \in News : k < m
      BY <1>1, <3>1 DEF News
    <3>3. QED BY <1>1, <1>5, <2>1, <2>4, <3>2 DEF LostOutside
  <2>9. NoGap'
    BY <1>1, <2>1 DEF NoGap
  <2>10. QED BY <2>6, <2>7, <2>8, <2>9
<1>6. QED BY <1>4, <1>5

LEMMA LinesStep ==
  ASSUME OutputTypeOK, OutputTypeOK', Phases, Lines, [OutputNext]_output
  PROVE  Lines'
<1>1. CASE Creates \/ Drops \/ UNCHANGED output
  BY <1>1, StayingLines DEF Creates, Drops, output, task, pipe
<1>2. CASE ForwarderFails \/ ReceivesNone \/ Stops
  BY <1>2, EndsLines DEF ForwarderFails, ReceivesNone, Stops, pipe
<1>3. CASE TakesLine
  BY <1>3, TakesLineLines
<1>4. CASE Writes
  BY <1>4, WritesLines
<1>5. CASE WritesInVain
  BY <1>5, LosesHandLines DEF WritesInVain, pipe
<1>6. CASE WriteFails
  <2>1. CASE sender
    BY <1>6, <2>1, LosesHandLines DEF WriteFails, pipe
  <2>2. CASE ~sender
    BY <1>6, <2>2, EndsLines DEF WriteFails, pipe
  <2>3. QED BY <2>1, <2>2
<1>7. CASE OutputConnects
  BY <1>7, OutputConnectsLines
<1>8. CASE OutputReads
  BY <1>8, OutputReadsLines
<1>9. CASE OutputLeaves
  BY <1>9, OutputLeavesLines
<1>10. ASSUME NEW n \in Nat, Emits(n) PROVE Lines'
  BY <1>10, EmitsLines
<1>11. QED
  BY <1>1, <1>2, <1>3, <1>4, <1>5, <1>6, <1>7, <1>8, <1>9, <1>10 DEF OutputNext, OutputSteps

-----------------------------------------------------------------------------
(* The number of lost lines *)

LEMMA LinesAreFinite ==
  ASSUME NEW s \in Seq(Nat)
  PROVE  /\ IsFiniteSet(LinesOf(s))
         /\ Cardinality(LinesOf(s)) \in Nat
         /\ Cardinality(LinesOf(s)) <= Len(s)
<1>1. Len(s) \in Nat /\ DOMAIN s = 1 .. Len(s)
  OBVIOUS
<1>2. IsFiniteSet(1 .. Len(s)) /\ Cardinality(1 .. Len(s)) = Len(s)
  BY <1>1, FS_Interval
<1>3. s \in Surjection(1 .. Len(s), LinesOf(s))
  BY <1>1 DEF Surjection, LinesOf
<1>4. QED BY <1>1, <1>2, <1>3, FS_Surjection, FS_CardinalityType

LEMMA LosesLines ==
  ASSUME IsFiniteSet(lost), NEW s \in Seq(Nat), NEW k \in Nat, Len(s) <= k,
         lost' = lost \cup LinesOf(s)
  PROVE  IsFiniteSet(lost') /\ Cardinality(lost') <= Cardinality(lost) + k
<1>1. IsFiniteSet(LinesOf(s)) /\ Cardinality(LinesOf(s)) \in Nat /\ Cardinality(LinesOf(s)) <= k
  BY LinesAreFinite
<1>2. /\ Cardinality(lost) \in Nat
      /\ IsFiniteSet(lost \cap LinesOf(s))
      /\ Cardinality(lost \cap LinesOf(s)) \in Nat
  BY FS_CardinalityType, FS_Subset
<1>3. /\ IsFiniteSet(lost \cup LinesOf(s))
      /\ Cardinality(lost \cup LinesOf(s)) =
           Cardinality(lost) + Cardinality(LinesOf(s)) - Cardinality(lost \cap LinesOf(s))
  BY <1>1, FS_Union
<1>4. QED BY <1>1, <1>2, <1>3

LEMMA LossesStep ==
  ASSUME OutputTypeOK, OutputTypeOK', Phases, Losses, [OutputNext]_output
  PROVE  Losses'
<1>0. /\ WireCap \in Nat /\ Cost \in Nat /\ Cost' \in Nat
      /\ session' = session + 1 => Cost' = Cost + (WireCap + 2)
      /\ session' = session => Cost' = Cost
  <2>1. WireCap \in Nat /\ session \in Nat /\ session' \in Nat
    BY OutputAssumption DEF OutputTypeOK
  <2>2. \A a, k \in Nat : a * k \in Nat /\ (a + 1) * k = a * k + k
    OBVIOUS
  <2>3. WireCap + 2 \in Nat
    BY <2>1
  <2>4. session * (WireCap + 2) \in Nat /\ session' * (WireCap + 2) \in Nat
    BY <2>1, <2>2, <2>3
  <2>5. (session + 1) * (WireCap + 2) = session * (WireCap + 2) + (WireCap + 2)
    BY <2>1, <2>2, <2>3
  <2>6. QED BY <2>1, <2>4, <2>5 DEF Cost
<1>a. IsFiniteSet(lost) /\ Cardinality(lost) \in Nat
  BY FS_CardinalityType DEF Losses
<1>b. hand \in Seq(Nat) /\ wire \in Seq(Nat) /\ channel \in Seq(Nat)
  BY DEF OutputTypeOK
<1>c. ASSUME UNCHANGED <<lost, session>>, forwarder' # "ended" => Allowance <= Allowance' /\ forwarder # "ended"
      PROVE  Losses'
  <2>1. Allowance \in Int /\ Allowance' \in Int
    BY <1>0 DEF Allowance
  <2>2. IsFiniteSet(lost')
    BY <1>a, <1>c
  <2>3. forwarder' # "ended" => Cardinality(lost') <= Allowance'
    BY <1>a, <1>c, <2>1 DEF Losses
  <2>4. QED BY <2>2, <2>3 DEF Losses
<1>d. ASSUME Ends PROVE Losses'
  <2>1. IsFiniteSet(LinesOf(channel)) /\ IsFiniteSet(LinesOf(hand))
    BY <1>b, LinesAreFinite
  <2>2. IsFiniteSet(lost \cup LinesOf(channel) \cup LinesOf(hand))
    BY <1>a, <2>1, FS_Union
  <2>3. QED BY <1>d, <2>2 DEF Ends, Losses
<1>1. CASE Creates \/ Drops \/ UNCHANGED output
  <2>1. /\ UNCHANGED <<lost, session, attached, doomed>>
        /\ forwarder' = forwarder \/ (forwarder = "creating" /\ forwarder' = "listening")
    BY <1>1 DEF Creates, Drops, output, task, pipe
  <2>2. forwarder' # "ended" => forwarder # "ended"
    BY <2>1
  <2>3. Allowance' = Allowance /\ Allowance \in Int
    BY <2>1, <1>0 DEF Allowance
  <2>4. QED BY <2>1, <2>2, <2>3, <1>c
<1>2. CASE ForwarderFails \/ ReceivesNone \/ Stops
  BY <1>2, <1>d DEF ForwarderFails, ReceivesNone, Stops
<1>3. CASE TakesLine \/ Writes
  <2>1. /\ UNCHANGED <<lost, session, attached, doomed>>
        /\ forwarder \in {"receiving", "writing"} /\ forwarder' \in {"receiving", "writing"}
    BY <1>3 DEF TakesLine, Writes, pipe
  <2>2. Allowance' = Allowance /\ Allowance \in Int
    BY <2>1, <1>0 DEF Allowance
  <2>3. QED BY <2>1, <2>2, <1>c
<1>4. CASE WritesInVain
  <2>1. /\ lost' = lost \cup LinesOf(hand) /\ Len(hand) <= 1
        /\ forwarder = "writing" /\ forwarder' = "receiving"
        /\ ~attached /\ ~attached' /\ ~doomed /\ doomed' /\ session' = session
    BY <1>4 DEF WritesInVain, pipe, OutputTypeOK
  <2>2. IsFiniteSet(lost') /\ Cardinality(lost') <= Cardinality(lost) + 1
    BY <2>1, <1>a, <1>b, LosesLines
  <2>3. Cardinality(lost') \in Nat
    BY <2>2, FS_CardinalityType
  <2>4. Allowance = Cost - 2 /\ Allowance' = Cost - 1
    BY <2>1, <1>0 DEF Allowance
  <2>5. Cardinality(lost) <= Allowance
    BY <2>1 DEF Losses
  <2>6. Cardinality(lost') <= Allowance'
    BY <2>2, <2>3, <2>4, <2>5, <1>0, <1>a
  <2>7. QED BY <2>2, <2>6 DEF Losses
<1>5. CASE WriteFails
  <2>1. CASE ~sender
    BY <1>5, <2>1, <1>d DEF WriteFails
  <2>2. CASE sender
    <3>1. /\ lost' = lost \cup LinesOf(hand) /\ Len(hand) <= 1
          /\ forwarder = "writing" /\ forwarder' = "creating"
          /\ ~attached /\ session' = session
      BY <1>5, <2>2 DEF WriteFails, pipe, OutputTypeOK
    <3>2. IsFiniteSet(lost') /\ Cardinality(lost') <= Cardinality(lost) + 1
      BY <3>1, <1>a, <1>b, LosesLines
    <3>3. Cardinality(lost') \in Nat
      BY <3>2, FS_CardinalityType
    <3>4. /\ Allowance = Cost - (IF doomed THEN 1 ELSE 2)
          /\ Allowance' = Cost
      BY <3>1, <1>0 DEF Allowance
    <3>5. Cardinality(lost) <= Allowance
      BY <3>1 DEF Losses
    <3>6. Cardinality(lost') <= Allowance'
      BY <3>2, <3>3, <3>4, <3>5, <1>0, <1>a
    <3>7. QED BY <3>2, <3>6 DEF Losses
  <2>3. QED BY <2>1, <2>2
<1>6. CASE OutputConnects
  <2>1. /\ forwarder = "listening" /\ forwarder' = "receiving" /\ attached'
        /\ session' = session + 1 /\ UNCHANGED lost
    BY <1>6 DEF OutputConnects
  <2>2. Allowance = Cost /\ Allowance' = Cost' - (WireCap + 2)
    BY <2>1 DEF Allowance
  <2>3. Allowance' = Allowance
    BY <2>1, <2>2, <1>0
  <2>4. QED BY <2>1, <2>3 DEF Losses
<1>7. CASE OutputReads
  BY <1>7, <1>0, <1>c DEF OutputReads, task, Allowance
<1>8. CASE OutputLeaves
  <2>1. /\ lost' = lost \cup LinesOf(wire) /\ Len(wire) <= WireCap
        /\ attached /\ ~attached' /\ ~doomed
        /\ forwarder \in {"receiving", "writing", "ended"}
        /\ UNCHANGED <<session, forwarder, doomed>>
    BY <1>8 DEF OutputLeaves, task, OutputTypeOK, Phases
  <2>2. IsFiniteSet(lost') /\ Cardinality(lost') <= Cardinality(lost) + WireCap
    BY <2>1, <1>0, <1>a, <1>b, LosesLines
  <2>3. Cardinality(lost') \in Nat
    BY <2>2, FS_CardinalityType
  <2>4. ASSUME forwarder # "ended" PROVE Cardinality(lost') <= Allowance'
    <3>1. /\ Allowance = Cost - (WireCap + 2)
          /\ Allowance' = Cost - 2
      BY <2>1, <2>4, <1>0 DEF Allowance
    <3>2. Cardinality(lost) <= Allowance
      BY <2>4 DEF Losses
    <3>3. QED BY <2>2, <2>3, <3>1, <3>2, <1>0, <1>a
  <2>5. QED BY <2>1, <2>2, <2>4 DEF Losses
<1>9. ASSUME NEW n \in Nat, Emits(n) PROVE Losses'
  <2>1. CASE forwarder = "ended"
    <3>1. IsFiniteSet(emitted + 1 .. emitted + n)
      BY FS_Interval DEF OutputTypeOK
    <3>2. IsFiniteSet(lost \cup (emitted + 1 .. emitted + n))
      BY <1>a, <3>1, FS_Union
    <3>3. lost' = lost \cup (emitted + 1 .. emitted + n) /\ forwarder' = "ended"
      BY <1>9, <2>1 DEF Emits, task
    <3>4. QED BY <3>2, <3>3 DEF Losses
  <2>2. CASE forwarder # "ended"
    BY <1>9, <2>2, <1>0, <1>c DEF Emits, task, pipe, Allowance
  <2>3. QED BY <2>1, <2>2
<1>10. QED
  BY <1>1, <1>2, <1>3, <1>4, <1>5, <1>6, <1>7, <1>8, <1>9 DEF OutputNext, OutputSteps

-----------------------------------------------------------------------------
(* The invariant and what follows from it *)

LEMMA OutputInvInit == OutputInit => OutputInv
<1> SUFFICES ASSUME OutputInit PROVE OutputInv
  OBVIOUS
<1>1. /\ emitted = 0 /\ channel = <<>> /\ hand = <<>> /\ wire = <<>> /\ read = <<>>
      /\ lost = {} /\ ~attached /\ session = 0 /\ forwarder \in {"creating", "ended"}
  BY DEF OutputInit
<1>2. LinesOf(channel) = {} /\ LinesOf(hand) = {} /\ LinesOf(wire) = {} /\ LinesRead = {}
  BY <1>1 DEF LinesOf, LinesRead
<1>3. Phases
  BY <1>1 DEF Phases
<1>4. Ordered
  BY <1>1, <1>2 DEF Ordered, Ascending, Below
<1>5. Accounted /\ LostOutside /\ NoGap
  BY <1>1, <1>2 DEF Accounted, Held, LostOutside, NoGap
<1>6. Losses
  <2>1. IsFiniteSet(lost) /\ Cardinality(lost) = 0
    BY <1>1, FS_EmptySet
  <2>2. Allowance = 0
    BY <1>1, OutputAssumption DEF Allowance, Cost
  <2>3. QED BY <2>1, <2>2 DEF Losses
<1>7. QED BY <1>3, <1>4, <1>5, <1>6, OutputTypeInit DEF OutputInv, Lines

LEMMA OutputInvStep ==
  ASSUME OutputInv, [OutputNext]_output
  PROVE  OutputInv'
  BY OutputTypeStep, PhasesStep, LinesStep, LossesStep DEF OutputInv

THEOREM OutputInvHolds == OutputSpec => []OutputInv
  BY OutputInvInit, OutputInvStep, PTL DEF OutputSpec

LEMMA InvGivesNoneVanishes == OutputInv => NoneVanishes
<1> SUFFICES ASSUME OutputInv PROVE NoneVanishes
  OBVIOUS
<1> USE DEF OutputInv, Lines
<1> DEFINE places == <<LinesOf(channel), LinesOf(hand), LinesOf(wire), LinesRead, lost>>
<1>1. UNION {places[i] : i \in DOMAIN places} = Held \cup lost
  <2>1. DOMAIN places = {1, 2, 3, 4, 5}
    OBVIOUS
  <2>2. {places[i] : i \in DOMAIN places}
          = {LinesOf(channel), LinesOf(hand), LinesOf(wire), LinesRead, lost}
    BY <2>1
  <2>3. QED BY <2>2 DEF Held
<1>2. Held \cup lost = 1 .. emitted
  BY DEF Accounted
<1>3. \A n \in Held : n \notin lost
  BY DEF Accounted
<1>4. /\ LinesOf(channel) \cap LinesOf(hand) = {}
      /\ LinesOf(channel) \cap LinesOf(wire) = {}
      /\ LinesOf(channel) \cap LinesRead = {}
      /\ LinesOf(hand) \cap LinesOf(wire) = {}
      /\ LinesOf(hand) \cap LinesRead = {}
      /\ LinesOf(wire) \cap LinesRead = {}
  BY ReadTypes DEF Ordered, Below
<1>5. /\ LinesOf(channel) \cap lost = {} /\ LinesOf(hand) \cap lost = {}
      /\ LinesOf(wire) \cap lost = {} /\ LinesRead \cap lost = {}
  BY <1>3 DEF Held
<1>6. \A i, j \in DOMAIN places : i # j => places[i] \cap places[j] = {}
  <2>1. SUFFICES ASSUME NEW i \in 1 .. 5, NEW j \in 1 .. 5, i < j
                 PROVE  places[i] \cap places[j] = {}
    OBVIOUS
  <2>2. QED BY <2>1, <1>4, <1>5
<1>7. \A i, j \in DOMAIN read : read[i].line = read[j].line => i = j
  <2>1. SUFFICES ASSUME NEW i \in DOMAIN read, NEW j \in DOMAIN read, read[i].line = read[j].line
                 PROVE  i = j
    OBVIOUS
  <2>2. i \in Int /\ j \in Int /\ read[i].line \in Nat /\ read[j].line \in Nat
    BY ReadTypes
  <2>3. ~(i < j) /\ ~(j < i)
    BY <2>1, <2>2 DEF Ordered
  <2>4. QED BY <2>2, <2>3
<1>8. QED BY <1>1, <1>2, <1>6, <1>7 DEF NoneVanishes

LEMMA InvGivesReadInOrder == OutputInv => ReadInOrder
<1> SUFFICES ASSUME OutputInv PROVE ReadInOrder
  OBVIOUS
<1> USE DEF OutputInv, Lines
<1>1. SUFFICES ASSUME NEW i \in DOMAIN read, NEW j \in DOMAIN read, i < j,
                      NEW n \in read[i].line + 1 .. read[j].line - 1
               PROVE  \/ \E k \in i + 1 .. j - 1 : read[k].line = n
                      \/ n \in lost /\ read[i].session < read[j].session
  BY DEF ReadInOrder, Ordered
<1>2. /\ i \in Nat /\ j \in Nat /\ read[i].line \in Nat /\ read[j].line \in Nat
      /\ read[i].line \in LinesRead /\ read[j].line \in LinesRead
  BY ReadTypes
<1>3. n \in Nat /\ read[i].line < n /\ n < read[j].line
  BY <1>2
<1>4. n \in 1 .. emitted
  <2>1. read[j].line \in 1 .. emitted /\ emitted \in Nat
    BY <1>2 DEF Accounted, Held, OutputTypeOK
  <2>2. QED BY <1>2, <1>3, <2>1
<1>5. n \notin LinesOf(channel) /\ n \notin LinesOf(hand) /\ n \notin LinesOf(wire)
  BY <1>2, <1>3 DEF Ordered, Below
<1>6. CASE n \in LinesRead
  <2>1. PICK k \in DOMAIN read : read[k].line = n
    BY <1>6 DEF LinesRead
  <2>2. k \in Nat /\ i # k /\ j # k
    BY <2>1, <1>2, <1>3, ReadTypes
  <2>3. ~(k < i) /\ ~(j < k)
    BY <2>1, <1>2, <1>3 DEF Ordered
  <2>4. k \in i + 1 .. j - 1
    BY <2>2, <2>3, <1>2
  <2>5. QED BY <2>1, <2>4
<1>7. CASE n \in lost
  BY <1>7, <1>3 DEF NoGap
<1>8. QED BY <1>4, <1>5, <1>6, <1>7 DEF Accounted, Held

LEMMA InvGivesLossIsBounded == OutputInv => LossIsBounded
<1> SUFFICES ASSUME OutputInv, forwarder # "ended"
             PROVE  Cardinality(lost) <= session * (WireCap + 2)
  BY DEF LossIsBounded
<1>1. WireCap \in Nat /\ session \in Nat
  BY OutputAssumption DEF OutputInv, OutputTypeOK
<1>2. \A a, k \in Nat : a * k \in Nat
  OBVIOUS
<1>3. Cost \in Nat
  BY <1>1, <1>2 DEF Cost
<1>4. Allowance \in Int /\ Allowance <= Cost
  BY <1>1, <1>3 DEF Allowance
<1>5. Cardinality(lost) \in Nat /\ Cardinality(lost) <= Allowance
  BY FS_CardinalityType DEF OutputInv, Losses
<1>6. QED BY <1>3, <1>4, <1>5 DEF Cost

\* Every line is in one place or lost: none is read twice and none disappears
\* (forward_output_to_pipe), whatever the program prints and whenever it ends.
THEOREM OutputNoneVanishes == OutputSpec => []NoneVanishes
  BY OutputInvHolds, InvGivesNoneVanishes, PTL

\* Lines are read in their order, and a client misses none between two that it
\* reads.
THEOREM OutputReadInOrder == OutputSpec => []ReadInOrder
  BY OutputInvHolds, InvGivesReadInOrder, PTL

\* While the task lives, a client costs at most what the pipe holds and two
\* lines.
THEOREM OutputLossIsBounded == OutputSpec => []LossIsBounded
  BY OutputInvHolds, InvGivesLossIsBounded, PTL

-----------------------------------------------------------------------------
(* The demos *)

FiniteQueue == IsFiniteSet(queue)

-----------------------------------------------------------------------------
(* The demo implements the output pipe *)

LEMMA FiniteCall ==
  ASSUME NEW Q, IsFiniteSet(Q), NEW times, IsFiniteSet(times)
  PROVE  /\ IsFiniteSet(QueueAfter(Q, times))
         /\ IsFiniteSet(Executions(Q, times))
<1> DEFINE done == Q \ QueueAfter(Q, times)
           execution(c) == [cmd |-> c, at |-> Min({t \in times : t >= c.timestamp})]
           f == [c \in done |-> execution(c)]
<1>1. IsFiniteSet(QueueAfter(Q, times)) /\ IsFiniteSet(done)
  BY FS_Subset DEF QueueAfter
<1>2. Executions(Q, times) = {execution(c) : c \in done}
  BY DEF Executions
<1>3. f \in Surjection(done, Executions(Q, times))
  <2>1. f \in [done -> Executions(Q, times)]
    BY <1>2
  <2>2. \A e \in Executions(Q, times) : \E c \in done : f[c] = e
    BY <1>2
  <2>3. QED BY <2>1, <2>2 DEF Surjection
<1>4. QED BY <1>1, <1>3, FS_Surjection

LEMMA FiniteTime == IsFiniteSet(Time)
  BY FS_Interval, MaxTimeAssumption DEF Time

LEMMA FiniteTimes ==
  \A now, delta, n : IsFiniteSet(StepTimes(now, delta, n))
  BY FiniteTime, FS_Subset DEF StepTimes

LEMMA PrintsIsOutput ==
  ASSUME NEW n \in Nat, Prints(n)
  PROVE  [OutputNext]_output
  BY DEF Prints, OutputNext

LEMMA CallIsOutput ==
  ASSUME NEW heap, IsFiniteSet(heap), NEW times, IsFiniteSet(times),
         NEW overflows, Calls(heap, times, overflows)
  PROVE  FiniteQueue' /\ [OutputNext]_output
<1>1. IsFiniteSet(Executions(heap, times))
  BY FiniteCall
<1>2. CASE Dispatches(heap, times, overflows)
  <2>1. queue' = QueueAfter(heap, times)
    BY <1>2 DEF Dispatches
  <2>2. Cardinality(times) + Cardinality(Executions(heap, times)) \in Nat
    BY <1>1, FS_CardinalityType
  <2>3. Prints(Cardinality(times) + Cardinality(Executions(heap, times)))
    BY <1>2 DEF Dispatches
  <2>4. QED BY <2>1, <2>2, <2>3, FiniteCall, PrintsIsOutput DEF FiniteQueue
<1>3. CASE SinkPanics(heap, times)
  <2> DEFINE made(x) == {y \in Executions(heap, times) : Earlier(y, x)}
             passed(x) == {t \in times : t <= x.at}
  <2>1. PICK x \in Executions(heap, times) :
          /\ queue' = QueueAfter(heap, passed(x))
          /\ Prints(Cardinality(passed(x)) + Cardinality(made(x)))
    BY <1>3 DEF SinkPanics
  <2>2. IsFiniteSet(made(x)) /\ IsFiniteSet(passed(x))
    BY <1>1, FS_Subset
  <2>3. Cardinality(passed(x)) + Cardinality(made(x)) \in Nat
    BY <2>2, FS_CardinalityType
  <2>4. QED BY <2>1, <2>2, <2>3, FiniteCall, PrintsIsOutput DEF FiniteQueue
<1>4. QED BY <1>2, <1>3 DEF Calls

LEMMA StepsIsOutput ==
  ASSUME NEW heap, IsFiniteSet(heap), NEW delta, NEW n, Steps(heap, delta, n)
  PROVE  FiniteQueue' /\ [OutputNext]_output
  BY FiniteTimes, CallIsOutput DEF Steps

LEMMA EnqueuesIsOutput ==
  ASSUME FiniteQueue, NEW t, Enqueues(t)
  PROVE  FiniteQueue' /\ [OutputNext]_output
<1>1. PICK p \in Payload :
        IF ticking
          THEN Steps(queue \cup {Scheduled(t, p)}, tickRate, 1)
          ELSE queue' = queue \cup {Scheduled(t, p)} /\ UNCHANGED output
  BY DEF Enqueues
<1>2. IsFiniteSet(queue \cup {Scheduled(t, p)})
  BY FS_AddElement DEF FiniteQueue
<1>3. QED BY <1>1, <1>2, StepsIsOutput DEF FiniteQueue

LEMMA ObeysIsOutput ==
  ASSUME FiniteQueue, NEW event, Obeys(event)
  PROVE  FiniteQueue' /\ [OutputNext]_output
<1>1. CASE UNCHANGED <<queue, output>>
  BY <1>1 DEF FiniteQueue
<1>2. CASE \E delta, n : Steps(queue, delta, n)
  BY <1>2, StepsIsOutput DEF FiniteQueue
<1>3. CASE Calls(queue, {Forward(current, event.n)}, FALSE)
  <2>1. IsFiniteSet({Forward(current, event.n)})
    BY FS_Singleton
  <2>2. QED BY <1>3, <2>1, CallIsOutput DEF FiniteQueue
<1>4. CASE Enqueues(event.n)
  BY <1>4, EnqueuesIsOutput
<1>5. QED BY <1>1, <1>2, <1>3, <1>4 DEF Obeys, SetsTicking, clock

LEMMA DemoStep ==
  ASSUME FiniteQueue, [Next]_vars
  PROVE  FiniteQueue' /\ [OutputNext]_output
<1>1. CASE MainCreates \/ MainFails \/ SeesEnd
  BY <1>1 DEF MainCreates, MainFails, SeesEnd, clock, FiniteQueue
<1>2. ASSUME NEW lines \in Scripts, MainConnects(lines) PROVE FiniteQueue' /\ [OutputNext]_output
  BY <1>2 DEF MainConnects, clock, FiniteQueue
<1>3. CASE MainReturns \/ MainExits
  BY <1>3 DEF MainReturns, MainExits, clock, FiniteQueue, OutputNext
<1>4. CASE HandlesLine
  <2>1. CASE HandlesMessage(Head(inbox))
    BY <2>1, ObeysIsOutput DEF HandlesMessage
  <2>2. CASE SwitchesPipe(Head(inbox))
    BY <2>2 DEF SwitchesPipe, clock, FiniteQueue
  <2>3. CASE Starts(Head(inbox))
    BY <2>3, StepsIsOutput DEF Starts, clock, FiniteQueue
  <2>4. CASE WaitSchedules(Head(inbox))
    BY <2>4, EnqueuesIsOutput DEF WaitSchedules, clock, FiniteQueue
  <2>5. QED BY <1>4, <2>1, <2>2, <2>3, <2>4 DEF HandlesLine
<1>5. CASE TaskCreates \/ OutputTask
  BY <1>5 DEF TaskCreates, OutputTask, clock, FiniteQueue, OutputNext
<1>6. CASE Ended \/ UNCHANGED vars
  BY <1>6 DEF Ended, vars, clock, FiniteQueue
<1>7. QED BY <1>1, <1>2, <1>3, <1>4, <1>5, <1>6 DEF Next

LEMMA DemoInit == Init => FiniteQueue /\ OutputInit
  BY FS_EmptySet DEF Init, FiniteQueue

\* The demo with its main loop implements the output pipe with any main loop
\* (demo/src/main.rs): all that OutputForwarder promises it keeps.
THEOREM DemoImplementsOutput == Spec => OutputSpec
<1>1. Spec => []FiniteQueue
  BY DemoInit, DemoStep, PTL DEF Spec
<1>2. QED BY <1>1, DemoInit, DemoStep, PTL DEF Spec, OutputSpec

\* No line the demo prints disappears or is delivered twice.
THEOREM DemoNoneVanishes == Spec => []NoneVanishes
  BY DemoImplementsOutput, OutputNoneVanishes, PTL

\* The demo's lines are read in order, with no gap within a client.
THEOREM DemoReadInOrder == Spec => []ReadInOrder
  BY DemoImplementsOutput, OutputReadInOrder, PTL

\* A client of the demo's output pipe costs a bounded number of lines.
THEOREM DemoLossIsBounded == Spec => []LossIsBounded
  BY DemoImplementsOutput, OutputLossIsBounded, PTL

-----------------------------------------------------------------------------
(* Types *)

\* TypeOK without the part that is the output pipe's own.
ServerTypeOK ==
  /\ demo \in {"demo", "wait"}
  /\ main \in {"creating", "listening", "serving", "leaving", "returned", "exited"}
  /\ pipeName \in Names
  /\ inbox \in Seq(Line)
  /\ main \in {"creating", "listening"} => inbox = <<>>
  /\ written \in 0 .. MaxInputs
  /\ ticking \in BOOLEAN
  /\ current \in Time
  /\ tickRate \in Rate
  /\ queue \subseteq ScheduledCommand
  /\ \A x \in executed : x.cmd \in ScheduledCommand
  /\ IsFiniteSet(executed)
  /\ ~(MainHoldsOutputName /\ TaskHoldsOutputName)
  /\ main \in {"returned", "exited"} <=> ~sender

DemoInv == FiniteQueue /\ OutputTypeOK /\ ServerTypeOK

EventOK(event) ==
  /\ event.kind \in {"advance", "scheduled"} => event.n \in Time
  /\ event.kind = "rate" => event.n \in Rate

LEMMA EventTypes ==
  ASSUME NEW m \in Control!Message
  PROVE  EventOK(Control!Handle(m, "line").event)
<1> USE DEF Control!Event, Control!EventWith, Control!Is, Control!Fails, Control!NoEvent
<1>1. \A kind \in {"start", "stop", "pause", "tick", "now", "note", "none"} :
        EventOK(Control!Event(kind)) /\ EventOK(Control!NoEvent)
  BY DEF EventOK
<1>2. ASSUME NEW kind \in Control!NumberVerbs, NEW n \in Control!Number,
             n # Control!Bad, ~(kind = "rate" /\ n = 0)
      PROVE  EventOK(Control!EventWith(kind, n))
  BY <1>2, MaxTimeAssumption DEF EventOK, Control!Number, Control!Bad, Time, Rate
<1>3. ASSUME NEW n \in Control!Number, n # Control!Bad
      PROVE  EventOK(Control!EventWith("scheduled", n))
  BY <1>3 DEF EventOK, Control!Number, Control!Bad, Time
<1> HIDE DEF Control!EventWith, Control!NoEvent, Control!Event
<1>4. ASSUME NEW verb \in Control!Verbs \cup {"other"}, NEW n \in Control!Number
      PROVE  /\ EventOK(Control!ParseWords(verb, n).event)
             /\ EventOK(Control!ParseTyped(verb, n).event)
  <2>1. CASE verb \in Control!PlainVerbs
    BY <2>1, <1>1 DEF Control!ParseWords, Control!ParseTyped, Control!PlainVerbs
  <2>2. CASE verb = "other"
    BY <2>2, <1>1 DEF Control!ParseWords, Control!ParseTyped, Control!PlainVerbs
  <2>3. CASE verb \in Control!NumberVerbs
    <3>1. verb \notin Control!PlainVerbs /\ verb # "other"
      BY <2>3 DEF Control!PlainVerbs, Control!NumberVerbs
    <3>2. QED BY <2>3, <3>1, <1>1, <1>2 DEF Control!ParseWords, Control!ParseTyped
  <2>4. QED BY <2>1, <2>2, <2>3 DEF Control!Verbs
<1>5. CASE m \in [syntax : {"words", "typed"}, verb : Control!Verbs \cup {"other"},
                  number : Control!Number]
  BY <1>4, <1>5 DEF Control!Handle
<1>6. CASE m \in [syntax : {"rpc"}, version : {"2.0", "other"}, wellFormed : BOOLEAN,
                  method : Control!Methods, params : Control!Params, id : Control!Ids]
  <2>1. m.syntax = "rpc" /\ m.method \in Control!Methods /\ m.params \in Control!Params
    BY <1>6
  <2>2. Control!NumberIn(m.params) \in Control!Number
    BY <2>1 DEF Control!NumberIn, Control!Params, Control!Number, Control!Bad
  <2>3. EventOK(Control!ParseMethod(m).event)
    <3>1. CASE m.method \in Control!PlainVerbs
      <4>1. /\ m.method \in {"start", "stop", "pause", "tick", "now"}
            /\ m.method \notin Control!NumberVerbs
        BY <3>1 DEF Control!PlainVerbs, Control!NumberVerbs
      <4>2. Control!ParseMethod(m).event = Control!Event(m.method)
        BY <3>1, <4>1 DEF Control!ParseMethod
      <4>3. QED BY <4>1, <4>2, <1>1
    <3>2. CASE m.method \in Control!NumberVerbs
      <4>1. m.method \notin Control!PlainVerbs
        BY <3>2 DEF Control!PlainVerbs, Control!NumberVerbs
      <4>2. QED BY <3>2, <4>1, <2>2, <1>1, <1>2 DEF Control!ParseMethod, Control!NumberVerbs
    <3>3. CASE m.method = "note"
      <4>1. m.method \notin Control!PlainVerbs /\ m.method \notin Control!NumberVerbs
        BY <3>3 DEF Control!PlainVerbs, Control!NumberVerbs
      <4>2. Control!ParseMethod(m).event \in {Control!Event("note"), Control!NoEvent}
        BY <3>3, <4>1 DEF Control!ParseMethod
      <4>3. QED BY <4>2, <1>1
    <3>4. CASE m.method = "other"
      <4>1. m.method \notin Control!PlainVerbs /\ m.method \notin Control!NumberVerbs
        BY <3>4 DEF Control!PlainVerbs, Control!NumberVerbs
      <4>2. Control!ParseMethod(m).event = Control!NoEvent
        BY <3>4, <4>1 DEF Control!ParseMethod
      <4>3. QED BY <4>2, <1>1
    <3>5. QED BY <2>1, <3>1, <3>2, <3>3, <3>4 DEF Control!Methods, Control!Verbs
  <2>4. EventOK(Control!ParseRpc(m).event)
    BY <2>3, <1>1 DEF Control!ParseRpc
  <2>5. QED BY <2>1, <2>4, <1>1 DEF Control!Handle, Control!HandleRpc
<1>7. CASE m \in [syntax : {"pipe"}, timestamp : Control!Number]
  BY <1>1, <1>3, <1>7 DEF Control!Handle, Control!Nothing
<1>8. CASE m \in [syntax : {"json", "text"}]
  BY <1>1, <1>8 DEF Control!Handle, Control!Nothing
<1>9. QED BY <1>5, <1>6, <1>7, <1>8 DEF Control!Message

LEMMA CallTypesKept ==
  ASSUME FiniteQueue, ServerTypeOK, NEW heap \in SUBSET ScheduledCommand, IsFiniteSet(heap),
         NEW times \in SUBSET Time, NEW overflows, Calls(heap, times, overflows)
  PROVE  /\ current' \in Time /\ tickRate' = tickRate
         /\ queue' \subseteq ScheduledCommand
         /\ \A x \in executed' : x.cmd \in ScheduledCommand
         /\ IsFiniteSet(executed')
         /\ main' \in {"serving", "leaving"}
         /\ UNCHANGED <<sender, forwarder>>
<1> USE DEF ServerTypeOK
<1>1. IsFiniteSet(times)
  BY FiniteTime, FS_Subset
<1>2. IsFiniteSet(Executions(heap, times))
  BY <1>1, FiniteCall
<1>3. \A e \in Executions(heap, times) : e.cmd \in ScheduledCommand /\ e.at \in Time
  <2>1. \A e \in Executions(heap, times) :
          e.cmd \in heap \ QueueAfter(heap, times) /\ e.at \in times
    BY ExecutionsAreDue
  <2>2. QED BY <2>1
<1>4. \A n : Prints(n) => UNCHANGED <<sender, forwarder>>
  BY DEF Prints, Emits, output, task
<1>5. \A ts : QueueAfter(heap, ts) \subseteq ScheduledCommand
  BY DEF QueueAfter
<1>6. CASE Dispatches(heap, times, overflows)
  <2>1. current' \in Time
    BY <1>6, ClockAfterType DEF Dispatches
  <2>2. IsFiniteSet(executed') /\ \A x \in executed' : x.cmd \in ScheduledCommand
    BY <1>2, <1>3, <1>6, FS_Union DEF Dispatches
  <2>3. QED BY <1>4, <1>5, <1>6, <2>1, <2>2 DEF Dispatches, Calls
<1>7. CASE SinkPanics(heap, times)
  <2> DEFINE made(x) == {y \in Executions(heap, times) : Earlier(y, x)}
             passed(x) == {t \in times : t <= x.at}
  <2>1. PICK x \in Executions(heap, times) :
          /\ current' = x.at
          /\ queue' = QueueAfter(heap, passed(x))
          /\ executed' = executed \cup made(x)
          /\ main' = "leaving"
          /\ Prints(Cardinality(passed(x)) + Cardinality(made(x)))
    BY <1>7 DEF SinkPanics
  <2>2. IsFiniteSet(made(x))
    BY <1>2, FS_Subset
  <2>3. IsFiniteSet(executed')
    BY <2>1, <2>2, FS_Union
  <2>4. \A y \in executed' : y.cmd \in ScheduledCommand
    BY <2>1, <1>3
  <2>5. UNCHANGED <<sender, forwarder>>
    BY <2>1, <1>4
  <2>6. QED BY <2>1, <2>3, <2>4, <2>5, <1>3, <1>5 DEF Calls
<1>8. QED BY <1>6, <1>7 DEF Calls

\* A step of the main loop that keeps inbox, pipe name and sender typed.
LEMMA LoopTypes ==
  ASSUME ServerTypeOK, main = "serving", main' \in {"serving", "leaving"},
         TakesInput, inbox # <<>>, UNCHANGED <<sender, forwarder>>,
         ticking' \in BOOLEAN, current' \in Time, tickRate' \in Rate,
         queue' \subseteq ScheduledCommand,
         \A x \in executed' : x.cmd \in ScheduledCommand,
         IsFiniteSet(executed')
  PROVE  ServerTypeOK'
<1>1. UNCHANGED <<demo, pipeName, written, sender, forwarder>> /\ inbox' \in Seq(Line)
  BY DEF TakesInput, ServerTypeOK
<1>2. ~(MainHoldsOutputName /\ TaskHoldsOutputName)'
  BY <1>1 DEF ServerTypeOK, MainHoldsOutputName, TaskHoldsOutputName
<1>3. QED BY <1>1, <1>2 DEF ServerTypeOK

LEMMA ScheduledType ==
  ASSUME FiniteQueue, ServerTypeOK, NEW t \in Time, NEW p \in Payload
  PROVE  Scheduled(t, p) \in ScheduledCommand
<1>1. Cardinality(queue) + Cardinality(executed) + 1 \in Nat \ {0}
  <2>1. Cardinality(queue) \in Nat /\ Cardinality(executed) \in Nat
    BY FS_CardinalityType DEF FiniteQueue, ServerTypeOK
  <2>2. QED BY <2>1
<1>2. current \in Time
  BY DEF ServerTypeOK
<1>3. QED BY <1>1, <1>2 DEF Scheduled, ScheduledCommand

LEMMA StepsTypes ==
  ASSUME FiniteQueue, ServerTypeOK, main = "serving", TakesInput, inbox # <<>>,
         ticking' \in BOOLEAN,
         NEW heap \in SUBSET ScheduledCommand, IsFiniteSet(heap), NEW delta, NEW n,
         Steps(heap, delta, n)
  PROVE  ServerTypeOK'
<1>1. StepTimes(current, delta, n) \in SUBSET Time
  BY CallTimes
<1>2. QED BY <1>1, CallTypesKept, LoopTypes DEF Steps, ServerTypeOK

LEMMA EnqueuesTypes ==
  ASSUME FiniteQueue, ServerTypeOK, main = "serving", TakesInput, inbox # <<>>,
         ticking' \in BOOLEAN, NEW t \in Time, Enqueues(t)
  PROVE  ServerTypeOK'
<1>1. PICK p \in Payload :
        IF ticking
          THEN Steps(queue \cup {Scheduled(t, p)}, tickRate, 1)
          ELSE /\ queue' = queue \cup {Scheduled(t, p)}
               /\ UNCHANGED <<main, current, tickRate, executed, output>>
  BY DEF Enqueues
<1>2. /\ IsFiniteSet(queue \cup {Scheduled(t, p)})
      /\ queue \cup {Scheduled(t, p)} \in SUBSET ScheduledCommand
  BY ScheduledType, FS_AddElement DEF FiniteQueue, ServerTypeOK
<1>3. CASE ticking
  BY <1>1, <1>2, <1>3, StepsTypes
<1>4. CASE ~ticking
  BY <1>1, <1>2, <1>4, LoopTypes DEF ServerTypeOK, output, task
<1>5. QED BY <1>3, <1>4

LEMMA ObeysTypes ==
  ASSUME FiniteQueue, ServerTypeOK, main = "serving", TakesInput, inbox # <<>>,
         NEW event, EventOK(event), Obeys(event)
  PROVE  ServerTypeOK'
<1>0. /\ ticking \in BOOLEAN /\ current \in Time /\ tickRate \in Rate
      /\ queue \in SUBSET ScheduledCommand /\ IsFiniteSet(queue)
      /\ IsFiniteSet(executed)
      /\ \A x \in executed : x.cmd \in ScheduledCommand
  BY DEF ServerTypeOK, FiniteQueue
<1>1. CASE SetsTicking(TRUE) \/ SetsTicking(FALSE)
  <2>1. ticking' \in BOOLEAN
    BY <1>1 DEF SetsTicking
  <2>2. UNCHANGED <<main, current, tickRate, queue, executed, sender, forwarder>>
    BY <1>1 DEF SetsTicking, clock, output, task
  <2>3. QED BY <2>1, <2>2, <1>0, LoopTypes
<1>2. ASSUME UNCHANGED ticking, NEW delta, NEW n, Steps(queue, delta, n) PROVE ServerTypeOK'
  BY <1>0, <1>2, StepsTypes
<1>3. CASE UNCHANGED ticking /\ event.kind = "advance" /\ Calls(queue, {Forward(current, event.n)}, FALSE)
  <2>1. {Forward(current, event.n)} \in SUBSET Time
    BY <1>0, <1>3, CallTimes DEF EventOK
  <2>2. QED BY <1>0, <1>3, <2>1, CallTypesKept, LoopTypes
<1>4. CASE /\ UNCHANGED ticking /\ event.kind = "rate" /\ tickRate' = event.n
           /\ UNCHANGED <<main, current, queue, executed, output>>
  <2>1. tickRate' \in Rate
    BY <1>4 DEF EventOK
  <2>2. UNCHANGED <<sender, forwarder>>
    BY <1>4 DEF output, task
  <2>3. QED BY <2>1, <2>2, <1>0, <1>4, LoopTypes
<1>5. CASE UNCHANGED ticking /\ event.kind = "scheduled" /\ Enqueues(event.n)
  BY <1>0, <1>5, EnqueuesTypes DEF EventOK
<1>6. CASE UNCHANGED ticking /\ UNCHANGED <<main, clock, output>>
  <2>1. UNCHANGED <<main, current, tickRate, queue, executed, sender, forwarder>>
    BY <1>6 DEF clock, output, task
  <2>2. QED BY <2>1, <1>0, <1>6, LoopTypes
<1>7. QED BY <1>1, <1>2, <1>3, <1>4, <1>5, <1>6 DEF Obeys

LEMMA CommandTime ==
  ASSUME ServerTypeOK, inbox # <<>>, IsCommand(Head(inbox))
  PROVE  Head(inbox).message.timestamp \in Time
<1>1. Head(inbox) \in Line
  BY DEF ServerTypeOK
<1>2. /\ Head(inbox).message \in Control!Message
      /\ Head(inbox).message.syntax = "pipe"
      /\ Head(inbox).message.timestamp # Control!Bad
  BY <1>1 DEF IsCommand, Line
<1>3. Head(inbox).message.timestamp \in Control!Number
  BY <1>2 DEF Control!Message
<1>4. QED BY <1>2, <1>3 DEF Control!Number, Control!Bad, Time

LEMMA HandlesLineTypes ==
  ASSUME FiniteQueue, ServerTypeOK, HandlesLine
  PROVE  ServerTypeOK'
<1>0. main = "serving" /\ inbox # <<>> /\ inbox \in Seq(Line) /\ Head(inbox) \in Line
  BY DEF HandlesLine, ServerTypeOK
<1>1. Head(inbox).kind = "message" => Head(inbox).message \in Control!Message
  BY <1>0 DEF Line
<1>2. Head(inbox).kind = "pipe" => Head(inbox).name \in Names \cup {""}
  BY <1>0 DEF Line
<1>3. CASE HandlesMessage(Head(inbox))
  <2>1. EventOK(Control!Handle(Head(inbox).message, "line").event)
    BY <1>1, <1>3, EventTypes DEF HandlesMessage
  <2>2. QED BY <1>0, <1>3, <2>1, ObeysTypes DEF HandlesMessage
<1>4. CASE SwitchesPipe(Head(inbox))
  <2>0. UNCHANGED <<ticking, current, tickRate, queue, executed, sender, forwarder>>
    BY <1>4 DEF SwitchesPipe, clock, output, task
  <2>1. CASE Head(inbox).name = ""
    BY <1>0, <1>4, <2>0, <2>1, LoopTypes DEF SwitchesPipe, ServerTypeOK
  <2>2. CASE Head(inbox).name # ""
    <3>1. /\ pipeName' \in Names /\ inbox' = <<>> /\ main' = "creating"
          /\ UNCHANGED <<demo, written>>
      BY <1>2, <1>4, <2>2 DEF SwitchesPipe
    <3>2. ~MainHoldsOutputName'
      BY <3>1 DEF MainHoldsOutputName
    <3>3. QED BY <1>0, <2>0, <3>1, <3>2 DEF ServerTypeOK
  <2>3. QED BY <2>1, <2>2
<1>5. CASE Starts(Head(inbox))
  <2>1. TakesInput /\ ticking' \in BOOLEAN
    BY <1>5 DEF Starts
  <2>2. CASE ticking
    <3>1. UNCHANGED <<main, current, tickRate, queue, executed, sender, forwarder>>
      BY <1>5, <2>2 DEF Starts, clock, output, task
    <3>2. QED BY <1>0, <2>1, <3>1, LoopTypes DEF ServerTypeOK
  <2>3. CASE ~ticking
    BY <1>0, <1>5, <2>1, <2>3, StepsTypes DEF Starts, ServerTypeOK, FiniteQueue
  <2>4. QED BY <2>2, <2>3
<1>6. CASE WaitSchedules(Head(inbox))
  <2>1. TakesInput /\ ticking' \in BOOLEAN
    BY <1>6 DEF WaitSchedules, ServerTypeOK
  <2>2. CASE IsCommand(Head(inbox))
    <3>1. Head(inbox).message.timestamp \in Time
      BY <1>0, <2>2, CommandTime
    <3>2. QED BY <1>0, <1>6, <2>1, <2>2, <3>1, EnqueuesTypes DEF WaitSchedules
  <2>3. CASE ~IsCommand(Head(inbox))
    <3>1. UNCHANGED <<main, current, tickRate, queue, executed, sender, forwarder>>
      BY <1>6, <2>3 DEF WaitSchedules, clock, output, task
    <3>2. QED BY <1>0, <2>1, <3>1, LoopTypes DEF ServerTypeOK
  <2>4. QED BY <2>2, <2>3
<1>7. QED BY <1>3, <1>4, <1>5, <1>6 DEF HandlesLine

LEMMA OtherStepsTypes ==
  ASSUME FiniteQueue, ServerTypeOK, [Next]_vars, ~HandlesLine
  PROVE  ServerTypeOK'
<1> USE DEF ServerTypeOK
<1>1. CASE MainCreates
  <2>1. ~(MainHoldsOutputName /\ TaskHoldsOutputName)'
    BY <1>1 DEF MainCreates, MainHoldsOutputName, TaskHoldsOutputName, output, task
  <2>2. QED BY <1>1, <2>1 DEF MainCreates, clock, output
<1>2. CASE MainFails \/ SeesEnd
  <2>1. ~MainHoldsOutputName'
    BY <1>2 DEF MainFails, SeesEnd, MainHoldsOutputName
  <2>2. QED BY <1>2, <2>1 DEF MainFails, SeesEnd, clock, output
<1>3. ASSUME NEW lines \in Scripts, MainConnects(lines) PROVE ServerTypeOK'
  <2>1. ~(MainHoldsOutputName /\ TaskHoldsOutputName)'
    BY <1>3 DEF MainConnects, MainHoldsOutputName, TaskHoldsOutputName, output, task
  <2>2. lines \in Seq(Line) /\ Len(lines) \in Nat
    BY DemoServerAssumption
  <2>3. written' \in 0 .. MaxInputs
    BY <1>3, <2>2, DemoServerAssumption DEF MainConnects
  <2>4. QED BY <1>3, <2>1, <2>2, <2>3 DEF MainConnects, clock, output
<1>4. CASE MainReturns
  <2>1. ~MainHoldsOutputName' /\ ~sender'
    BY <1>4 DEF MainReturns, MainHoldsOutputName, Drops
  <2>2. QED BY <1>4, <2>1 DEF MainReturns, clock
<1>5. CASE MainExits
  <2>1. ~MainHoldsOutputName' /\ ~sender'
    BY <1>5 DEF MainExits, MainHoldsOutputName, Stops
  <2>2. QED BY <1>5, <2>1 DEF MainExits, clock
<1>6. CASE TaskCreates
  <2>1. ~MainHoldsOutputName' /\ sender' = sender
    BY <1>6 DEF TaskCreates, Creates, server, MainHoldsOutputName
  <2>2. QED BY <1>6, <2>1 DEF TaskCreates, server, clock
<1>7. CASE OutputTask
  <2>1. /\ sender' = sender
        /\ TaskHoldsOutputName' => TaskHoldsOutputName
    BY <1>7 DEF OutputTask, OutputSteps, ForwarderFails, Ends, TakesLine, ReceivesNone, Writes,
         WritesInVain, WriteFails, OutputConnects, OutputReads, OutputLeaves, task, pipe,
         TaskHoldsOutputName
  <2>2. ~(MainHoldsOutputName /\ TaskHoldsOutputName)'
    BY <1>7, <2>1 DEF OutputTask, server, MainHoldsOutputName
  <2>3. QED BY <1>7, <2>1, <2>2 DEF OutputTask, server, clock
<1>8. CASE Ended \/ UNCHANGED vars
  <2>1. ~(MainHoldsOutputName /\ TaskHoldsOutputName)'
    BY <1>8 DEF Ended, vars, server, output, task, MainHoldsOutputName, TaskHoldsOutputName
  <2>2. QED BY <1>8, <2>1 DEF Ended, vars, server, clock, output
<1>9. QED BY <1>1, <1>2, <1>3, <1>4, <1>5, <1>6, <1>7, <1>8 DEF Next

LEMMA DemoInvInit == Init => DemoInv
<1> SUFFICES ASSUME Init PROVE DemoInv
  OBVIOUS
<1>1. FiniteQueue /\ OutputTypeOK
  BY DemoInit, OutputTypeInit
<1>2. /\ demo \in {"demo", "wait"} /\ main = "creating" /\ pipeName \in Names
      /\ inbox = <<>> /\ written = 0 /\ current = 0 /\ queue = {} /\ executed = {}
  BY DEF Init, Names
<1>3. ticking \in BOOLEAN
  BY DEF Init
<1>4. tickRate \in Rate /\ current \in Time /\ written \in 0 .. MaxInputs
  BY <1>2, DemoServerAssumption, MaxTimeAssumption DEF Init, InitialRate, Rate, Time
<1>5. IsFiniteSet(executed) /\ inbox \in Seq(Line)
  BY <1>2, FS_EmptySet
<1>6. ~MainHoldsOutputName
  BY <1>2 DEF MainHoldsOutputName
<1>7. sender
  BY DEF Init, OutputInit
<1>8. QED BY <1>1, <1>2, <1>3, <1>4, <1>5, <1>6, <1>7 DEF DemoInv, ServerTypeOK

LEMMA DemoInvStep ==
  ASSUME DemoInv, [Next]_vars
  PROVE  DemoInv'
  BY DemoStep, OutputTypeStep, HandlesLineTypes, OtherStepsTypes DEF DemoInv

THEOREM DemoInvHolds == Spec => []DemoInv
  BY DemoInvInit, DemoInvStep, PTL DEF Spec

\* Type correctness of both demos; the main loop and the output task never
\* both have a pipe of the output pipe's name.
THEOREM DemoTypeCorrect == Spec => []TypeOK
<1>1. DemoInv => TypeOK
  BY DEF DemoInv, ServerTypeOK, TypeOK
<1>2. QED BY <1>1, DemoInvHolds, PTL

-----------------------------------------------------------------------------
(* The wait-for-start demo *)

\* Before start the clock stands and nothing is executed; from then on the
\* client's line is handled to the end before a due command could wait, and no
\* other client comes.
WaitInv ==
  demo = "wait" =>
    /\ tickRate = 1
    /\ \A c \in queue : c.accepted <= current
    /\ IF ticking
         THEN /\ main \notin {"creating", "listening"}
              /\ main = "serving" => \A c \in queue : c.timestamp > current
         ELSE executed = {} /\ current = 0
    /\ \A x \in executed : x.at = Max({x.cmd.timestamp, x.cmd.accepted + 1})

LEMMA MaxOfTwo ==
  ASSUME NEW a \in Time, NEW b \in Time, NEW t, t = a \/ t = b, a <= t, b <= t
  PROVE  Max({a, b}) = t
<1>1. /\ Max({a, b}) \in {a, b} /\ \A s \in {a, b} : Max({a, b}) >= s
  BY ExtremeTimes
<1>2. a \in Int /\ b \in Int
  BY MaxTimeAssumption DEF Time
<1>3. QED BY <1>1, <1>2

\* A tick with the demo's rate of one.
LEMMA OneStep ==
  ASSUME NEW now \in Time
  PROVE  IF now + 1 > MaxTime
           THEN StepTimes(now, 1, 1) = {} /\ StepsOverflow(now, 1, 1)
           ELSE StepTimes(now, 1, 1) = {now + 1} /\ now + 1 \in Time
<1>1. now \in Nat /\ MaxTime \in Nat
  BY MaxTimeAssumption DEF Time
<1>2. {now + k * 1 : k \in 1 .. 1} = {now + 1}
  BY <1>1
<1>3. QED BY <1>1, <1>2 DEF StepTimes, StepsOverflow, Time

\* A tick executes on time what was to come and what has just been accepted.
LEMMA WaitTick ==
  ASSUME WaitInv, ServerTypeOK, demo = "wait", UNCHANGED demo, ticking',
         NEW heap \in SUBSET ScheduledCommand,
         \A c \in heap : c.accepted <= current /\ (c.timestamp > current \/ c.accepted = current),
         Steps(heap, tickRate, 1)
  PROVE  WaitInv'
<1> DEFINE times == StepTimes(current, 1, 1)
<1>0. current \in Time /\ current \in Nat /\ MaxTime \in Nat
  BY MaxTimeAssumption DEF ServerTypeOK, Time
<1>1. /\ Dispatches(heap, times, StepsOverflow(current, 1, 1)) /\ UNCHANGED tickRate
  BY DEF Steps, Calls, SinkPanics, WaitInv
<1>2. /\ current' = ClockAfter(current, times)
      /\ queue' = QueueAfter(heap, times)
      /\ executed' = executed \cup Executions(heap, times)
      /\ main' = IF StepsOverflow(current, 1, 1) THEN "leaving" ELSE "serving"
      /\ tickRate' = 1
  BY <1>1 DEF Dispatches, WaitInv
<1>3. \A c \in heap : c.timestamp \in Time /\ c.accepted \in Time
  BY DEF ScheduledCommand
<1>4. times \in SUBSET Time
  BY DEF StepTimes
<1> HIDE DEF times
<1>5. \A e \in Executions(heap, times) :
        /\ e.cmd \in heap /\ e.at \in times /\ e.cmd.timestamp <= e.at
  BY <1>4, ExecutionsAreDue
<1>6. CASE current + 1 > MaxTime
  <2>1. times = {} /\ main' = "leaving"
    BY <1>0, <1>2, <1>6, OneStep DEF times
  <2>2. current' = current /\ queue' \subseteq heap /\ executed' = executed
    BY <1>2, <1>5, <2>1 DEF ClockAfter, QueueAfter
  <2>3. QED BY <1>2, <2>1, <2>2 DEF WaitInv
<1>7. CASE ~(current + 1 > MaxTime)
  <2>1. times = {current + 1} /\ current + 1 \in Time
    BY <1>0, <1>7, OneStep DEF times
  <2>2. current' = current + 1
    <3>1. Max(times) \in times /\ times # {}
      BY <1>4, <2>1, ExtremeTimes
    <3>2. QED BY <1>2, <2>1, <3>1 DEF ClockAfter
  <2>3. \A c \in queue' : c \in heap /\ c.timestamp > current'
    BY <1>2, <2>1, <2>2 DEF QueueAfter
  <2>4. \A c \in queue' : c.accepted <= current'
    BY <1>0, <1>3, <2>2, <2>3, MaxTimeAssumption DEF Time
  <2>5. ASSUME NEW e \in Executions(heap, times)
        PROVE  e.at = Max({e.cmd.timestamp, e.cmd.accepted + 1})
    <3>1. /\ e.cmd \in heap /\ e.at = current + 1 /\ e.cmd.timestamp <= current + 1
          /\ e.cmd.timestamp \in Time /\ e.cmd.accepted \in Time
      BY <1>3, <1>5, <2>1
    <3>2. /\ e.cmd.accepted <= current
          /\ e.cmd.timestamp > current \/ e.cmd.accepted = current
      BY <3>1
    <3>3. /\ e.cmd.timestamp \in Nat /\ e.cmd.accepted \in Nat
          /\ e.cmd.accepted + 1 \in Time /\ e.cmd.accepted + 1 <= e.at
          /\ e.at = e.cmd.timestamp \/ e.at = e.cmd.accepted + 1
      BY <1>0, <1>7, <3>1, <3>2 DEF Time
    <3>4. QED BY <3>1, <3>3, MaxOfTwo
  <2>6. \A x \in executed' : x.at = Max({x.cmd.timestamp, x.cmd.accepted + 1})
    BY <1>2, <2>5 DEF WaitInv
  <2>7. main' \in {"serving", "leaving"}
    BY <1>2
  <2>8. QED BY <1>2, <2>3, <2>4, <2>6, <2>7 DEF WaitInv
<1>8. QED BY <1>6, <1>7

LEMMA WaitStep ==
  ASSUME WaitInv, DemoInv, [Next]_vars
  PROVE  WaitInv'
<1> SUFFICES ASSUME demo' = "wait" PROVE WaitInv'
  BY DEF WaitInv
<1>0. demo = "wait" /\ demo' = demo
  BY DEF Next, MainCreates, MainFails, MainConnects, SeesEnd, MainReturns, MainExits, HandlesLine,
     HandlesMessage, SwitchesPipe, Starts, WaitSchedules, TakesInput, TaskCreates, OutputTask,
     Ended, vars, server
<1>1. ServerTypeOK /\ current \in Nat
  BY MaxTimeAssumption DEF DemoInv, ServerTypeOK, Time
<1>2. CASE UNCHANGED <<ticking, current, tickRate, queue, executed>>
           /\ (ticking => main' = main \/ main' \in {"leaving", "returned", "exited"})
  BY <1>0, <1>2 DEF WaitInv
<1>3. CASE MainCreates \/ MainFails \/ SeesEnd \/ MainReturns \/ MainExits
  BY <1>0, <1>2, <1>3
     DEF MainCreates, MainFails, SeesEnd, MainReturns, MainExits, clock, WaitInv
<1>4. ASSUME NEW lines \in Scripts, MainConnects(lines) PROVE WaitInv'
  BY <1>0, <1>2, <1>4 DEF MainConnects, clock, WaitInv
<1>5. CASE TaskCreates \/ OutputTask \/ Ended \/ UNCHANGED vars
  BY <1>2, <1>5 DEF TaskCreates, OutputTask, Ended, vars, server, clock
<1>6. CASE HandlesLine
  <2>0. main = "serving"
    BY <1>6 DEF HandlesLine
  <2>1. CASE Starts(Head(inbox))
    <3>1. CASE ticking
      BY <1>2, <2>1, <3>1 DEF Starts, clock, WaitInv, DemoInv, ServerTypeOK
    <3>2. CASE ~ticking
      <4>1. current = 0 /\ \A c \in queue : c.accepted <= current
        BY <1>0, <3>2 DEF WaitInv
      <4>2. \A c \in queue : c.accepted \in Nat
        BY <1>1, MaxTimeAssumption DEF ServerTypeOK, ScheduledCommand, Time
      <4>3. \A c \in queue : c.accepted <= current /\ c.accepted = current
        BY <4>1, <4>2
      <4>4. queue \in SUBSET ScheduledCommand /\ Steps(queue, tickRate, 1) /\ ticking'
        BY <1>1, <2>1, <3>2 DEF Starts, ServerTypeOK
      <4>5. QED BY <1>0, <1>1, <4>3, <4>4, WaitTick
    <3>3. QED BY <3>1, <3>2
  <2>2. CASE WaitSchedules(Head(inbox))
    <3>0. UNCHANGED ticking
      BY <2>2 DEF WaitSchedules
    <3>1. CASE ~IsCommand(Head(inbox))
      BY <1>2, <2>2, <3>1 DEF WaitSchedules, clock
    <3>2. CASE IsCommand(Head(inbox))
      <4> DEFINE t == Head(inbox).message.timestamp
      <4>1. t \in Time
        BY <1>1, <1>6, <2>2, <3>2, CommandTime DEF HandlesLine
      <4>2. PICK p \in Payload :
              IF ticking
                THEN Steps(queue \cup {Scheduled(t, p)}, tickRate, 1)
                ELSE /\ queue' = queue \cup {Scheduled(t, p)}
                     /\ UNCHANGED <<main, current, tickRate, executed, output>>
        BY <2>2, <3>2 DEF WaitSchedules, Enqueues
      <4>3. Scheduled(t, p) \in ScheduledCommand /\ Scheduled(t, p).accepted = current
        BY <1>1, <4>1, ScheduledType DEF Scheduled, DemoInv
      <4> HIDE DEF t
      <4>4. CASE ticking
        <5>1. \A c \in queue : c.accepted <= current /\ c.timestamp > current
          BY <1>0, <2>0, <4>4 DEF WaitInv
        <5>2. queue \cup {Scheduled(t, p)} \in SUBSET ScheduledCommand
          BY <1>1, <4>3 DEF ServerTypeOK
        <5>3. current <= current
          BY <1>1
        <5>4. QED BY <1>0, <1>1, <3>0, <4>2, <4>3, <4>4, <5>1, <5>2, <5>3, WaitTick
      <4>5. CASE ~ticking
        <5>1. \A c \in queue' : c.accepted <= current
          BY <1>0, <1>1, <4>2, <4>3, <4>5 DEF WaitInv
        <5>2. QED BY <1>0, <3>0, <4>2, <4>5, <5>1 DEF WaitInv
      <4>6. QED BY <4>4, <4>5
    <3>3. QED BY <3>1, <3>2
  <2>3. QED BY <1>0, <1>6, <2>1, <2>2 DEF HandlesLine, HandlesMessage, SwitchesPipe
<1>7. QED BY <1>3, <1>4, <1>5, <1>6 DEF Next

LEMMA WaitInit == Init => WaitInv
  BY DEF Init, WaitInv, InitialRate

\* Nothing happens before start; then every command is executed on time, or by
\* the tick of its own line if it comes late (wait_for_start.rs).
THEOREM WaitsThenOnTime == Spec => []WaitOnTime
<1>1. Spec => []WaitInv
  BY DemoInvHolds, WaitInit, WaitStep, PTL DEF Spec
<1>2. WaitInv => WaitOnTime
  BY DEF WaitInv, WaitOnTime
<1>3. QED BY <1>1, <1>2, PTL
=============================================================================
