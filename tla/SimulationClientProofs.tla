----------------------- MODULE SimulationClientProofs -----------------------
(***************************************************************************)
(* Proofs about SimulationClient, for every source, every sequence of      *)
(* calls and any number of reads that fail, between lines or inside one.   *)
(* The invariant ties three things together: the lines still to be read to *)
(* those of the input, the lines read to the commands accepted, and the    *)
(* commands accepted to those that wait or have been executed.             *)
(***************************************************************************)
EXTENDS SimulationClient, DispatchCallsProofs

\* A line still to be read is as it was in the input, unless it was cut.
Aligned ==
  /\ Len(source) <= Len(input)
  /\ \A k \in DOMAIN source :
       LinesRead + k \notin cut => source[k] = input[LinesRead + k]

\* Accepted commands come from lines read, and none is forgotten.
Origins ==
  /\ \A i \in DOMAIN origin : origin[i] <= LinesRead
  /\ \A c \in queue \cup Done : c.id \in DOMAIN origin
  /\ \A i \in DOMAIN origin : \E c \in queue \cup Done : c.id = i

ErrorHasCause ==
  outcome = "parse error" =>
    cut # {} \/ \E i \in DOMAIN input : input[i].kind = "garbage"

\* Time stands since a due command was accepted.
DueIsNew ==
  transport = "memory" => \A c \in queue : c.timestamp <= current => c.accepted = current

ClientInv ==
  /\ TypeOK
  /\ Aligned
  /\ Origins
  /\ LinesAppliedOnce
  /\ DueMeansHeld
  /\ ErrorHasCause
  /\ DueIsNew
  /\ OvertakenByLater

-----------------------------------------------------------------------------
(* Lines and calls *)

LEMMA OneMore ==
  \A r \in Nat :
    /\ \A k \in Nat : k <= r => k <= r + 1 /\ k # r + 1
    /\ \A n \in 1 .. r + 1 : n \in 1 .. r \/ n = r + 1
  OBVIOUS

LEMMA SourceFacts ==
  ASSUME TypeOK, Aligned
  PROVE  /\ Len(source) \in Nat /\ Len(input) \in Nat /\ LinesRead \in Nat
         /\ DOMAIN source = 1 .. Len(source) /\ DOMAIN input = 1 .. Len(input)
         /\ DOMAIN origin = 1 .. Len(origin) /\ Len(origin) \in Nat
         /\ \A i \in DOMAIN origin : origin[i] \in Nat
         /\ LinesRead + Len(source) = Len(input)
<1>1. source \in Seq(Line) /\ input \in Seq(Line) /\ origin \in Seq(Nat)
  BY DEF TypeOK
<1>2. /\ Len(source) \in Nat /\ Len(input) \in Nat /\ Len(origin) \in Nat
      /\ DOMAIN source = 1 .. Len(source) /\ DOMAIN input = 1 .. Len(input)
      /\ DOMAIN origin = 1 .. Len(origin)
  BY <1>1
<1>3. \A i \in DOMAIN origin : origin[i] \in Nat
  BY <1>1
<1>4. LinesRead \in Nat /\ LinesRead + Len(source) = Len(input)
  BY <1>2 DEF Aligned, LinesRead
<1>5. QED BY <1>2, <1>3, <1>4

LEMMA TakenLine ==
  ASSUME TypeOK, Aligned, source # <<>>, TakesLine
  PROVE  /\ source' \in Seq(Line) /\ Head(source) \in Line
         /\ LinesRead' = LinesRead + 1
         /\ LinesRead + 1 \in DOMAIN input
         /\ LinesRead + 1 \notin cut => Head(source) = input[LinesRead + 1]
         /\ Aligned'
<1>0. /\ source \in Seq(Line) /\ source' = Tail(source) /\ input' = input /\ cut' = cut
  BY DEF TypeOK, TakesLine
<1>1. /\ Len(source) \in Nat \ {0} /\ Head(source) = source[1] /\ Head(source) \in Line
      /\ source' \in Seq(Line) /\ Len(source') = Len(source) - 1
      /\ DOMAIN source' = 1 .. Len(source) - 1
  BY <1>0
<1>2. \A k \in 1 .. Len(source) - 1 : source'[k] = source[k + 1]
  BY <1>0
<1>3. LinesRead' = LinesRead + 1
  BY <1>0, <1>1, SourceFacts DEF LinesRead
<1>4. LinesRead + 1 \in DOMAIN input
  BY <1>1, SourceFacts
<1>5. LinesRead + 1 \notin cut => Head(source) = input[LinesRead + 1]
  BY <1>1 DEF Aligned
<1>6. ASSUME NEW k \in 1 .. Len(source) - 1, LinesRead' + k \notin cut
      PROVE  source'[k] = input[LinesRead' + k]
  <2>1. k \in Nat /\ k + 1 \in 1 .. Len(source)
    BY <1>1
  <2>2. k + 1 \in DOMAIN source
    BY <2>1, SourceFacts
  <2>3. LinesRead' + k = LinesRead + (k + 1)
    <3>1. \A a, b \in Nat : (a + 1) + b = a + (b + 1)
      OBVIOUS
    <3>2. QED BY <1>3, <2>1, <3>1, SourceFacts
  <2>4. QED BY <1>2, <1>6, <2>2, <2>3 DEF Aligned
<1>7. Aligned'
  BY <1>0, <1>1, <1>6, SourceFacts DEF Aligned
<1>8. QED BY <1>1, <1>3, <1>4, <1>5, <1>7

LEMMA OneForAnother ==
  ASSUME NEW S, NEW s \in Seq(S), s # <<>>, NEW x \in S
  PROVE  LET t == <<x>> \o Tail(s)
         IN  /\ t \in Seq(S) /\ Len(t) = Len(s)
             /\ \A k \in 2 .. Len(s) : t[k] = s[k]
<1> DEFINE t == <<x>> \o Tail(s)
<1>1. /\ Tail(s) \in Seq(S) /\ Len(Tail(s)) = Len(s) - 1 /\ Len(s) \in Nat
      /\ <<x>> \in Seq(S) /\ Len(<<x>>) = 1
  OBVIOUS
<1>2. \A k \in 1 .. Len(s) - 1 : Tail(s)[k] = s[k + 1]
  OBVIOUS
<1>3. t \in Seq(S) /\ Len(t) = Len(s)
  BY <1>1
<1>4. ASSUME NEW k \in 2 .. Len(s) PROVE t[k] = s[k]
  <2>1. k - 1 \in 1 .. Len(s) - 1 /\ (k - 1) + 1 = k
    BY <1>1
  <2>2. t[k] = Tail(s)[k - 1]
    BY <1>1, <2>1
  <2>3. QED BY <1>2, <2>1, <2>2
<1>5. QED BY <1>3, <1>4

LEMMA DispatchedHeap ==
  ASSUME TypeOK, NEW heap \in SUBSET ScheduledCommand, NEW times \in SUBSET Time,
         DispatchAt(heap, times)
  PROVE  /\ current' \in Time /\ tickRate' = tickRate
         /\ queue' \subseteq heap
         /\ queue' \cup Done' = heap \cup Done
         /\ executed \subseteq executed'
         /\ times = {} => current' = current /\ executed' = executed
         /\ times # {} => current' \in times /\ \A c \in queue' : c.timestamp > current'
         /\ \A x \in executed' \ executed :
              x.cmd \in heap /\ x.at \in times /\ x.cmd.timestamp <= x.at
         /\ \A c \in heap \ queue' : \E x \in executed' : x.cmd = c /\ x.at \in times
<1>1. /\ current' = ClockAfter(current, times)
      /\ queue' = QueueAfter(heap, times)
      /\ executed' = executed \cup Executions(heap, times)
      /\ tickRate' = tickRate /\ current \in Time
  BY DEF DispatchAt, TypeOK
<1>2. current' \in Time
  BY <1>1, ClockAfterType
<1>3. /\ queue' \subseteq heap
      /\ \A e \in Executions(heap, times) :
           e.cmd \in heap \ queue' /\ e.at \in times /\ e.cmd.timestamp <= e.at
      /\ \A c \in heap \ queue' : \E e \in Executions(heap, times) : e.cmd = c
  BY <1>1, ExecutionsAreDue
<1>4. Done' = Done \cup {e.cmd : e \in Executions(heap, times)}
  BY <1>1 DEF Done
<1>5. queue' \cup Done' = heap \cup Done
  BY <1>3, <1>4
<1>6. times = {} => current' = current /\ executed' = executed
  BY <1>1, <1>3 DEF ClockAfter
<1>7. ASSUME times # {} PROVE current' \in times /\ \A c \in queue' : c.timestamp > current'
  <2>1. current' \in times
    BY <1>1, <1>7, ExtremeTimes DEF ClockAfter
  <2>2. QED BY <1>1, <2>1 DEF QueueAfter
<1>8. QED BY <1>1, <1>2, <1>3, <1>5, <1>6, <1>7

LEMMA CommandType ==
  ASSUME TypeOK, NEW t \in Time, NEW p \in Payload
  PROVE  /\ Command(t, p) \in ScheduledCommand
         /\ Command(t, p).id = Len(origin) + 1
         /\ Command(t, p).timestamp = t
         /\ Command(t, p).accepted = current
<1>1. Len(origin) + 1 \in Nat \ {0}
  <2>1. origin \in Seq(Nat)
    BY DEF TypeOK
  <2>2. Len(origin) \in Nat
    BY <2>1
  <2>3. QED BY <2>2
<1>2. current \in Time
  BY DEF TypeOK
<1>3. QED BY <1>1, <1>2 DEF Command, ScheduledCommand

-----------------------------------------------------------------------------
(* Steps that accept nothing *)

\* Nothing but flags, the tick rate and the result of the call.
LEMMA QuietStep ==
  ASSUME ClientInv,
         UNCHANGED <<transport, current, queue, executed, source, input, cut, origin, held>>,
         running' \in BOOLEAN, reading' \in BOOLEAN,
         reading' => transport = "pipe" /\ running',
         tickRate' \in Rate, outcome' \in {"ok", "panic", "read error"} \/ outcome' = outcome
  PROVE  ClientInv'
<1>1. LinesRead' = LinesRead /\ Done' = Done
  BY DEF LinesRead, Done
<1>2. TypeOK'
  BY <1>1 DEF ClientInv, TypeOK
<1>3. Aligned' /\ Origins'
  BY <1>1 DEF ClientInv, Aligned, Origins
<1>4. LinesAppliedOnce'
  BY <1>1 DEF ClientInv, LinesAppliedOnce
<1>5. DueMeansHeld' /\ ErrorHasCause' /\ DueIsNew' /\ OvertakenByLater'
  BY DEF ClientInv, DueMeansHeld, ErrorHasCause, DueIsNew, OvertakenByLater
<1>6. QED BY <1>2, <1>3, <1>4, <1>5 DEF ClientInv

\* A line that is no command is taken.
LEMMA SkipStep ==
  ASSUME ClientInv, reading, source # <<>>, Head(source).kind # "command", TakesLine,
         UNCHANGED <<transport, running, clock, origin, held>>,
         reading' \in BOOLEAN, reading' => reading,
         \/ outcome' = outcome
         \/ outcome' = "read error"
         \/ outcome' = "parse error" /\ Head(source).kind = "garbage"
  PROVE  ClientInv'
<1> USE DEF ClientInv
<1>1. /\ UNCHANGED <<transport, current, tickRate, queue, executed, input, cut, origin, held>>
      /\ Done' = Done
  BY DEF clock, TakesLine, Done
<1>2. /\ source' \in Seq(Line)
      /\ LinesRead' = LinesRead + 1 /\ LinesRead \in Nat
      /\ LinesRead + 1 \in DOMAIN input
      /\ LinesRead + 1 \notin cut => Head(source) = input[LinesRead + 1]
      /\ Aligned'
  BY TakenLine, SourceFacts
<1>3. TypeOK'
  BY <1>1, <1>2 DEF TypeOK
<1>4. \A i \in DOMAIN origin : origin[i] \in Nat /\ origin[i] <= LinesRead
  BY SourceFacts DEF Origins
<1>5. Origins'
  <2>1. \A i \in DOMAIN origin : origin[i] <= LinesRead + 1
    BY <1>2, <1>4, OneMore
  <2>2. QED BY <1>1, <1>2, <2>1 DEF Origins
<1>6. LinesAppliedOnce'
  <2>1. ASSUME NEW n \in 1 .. LinesRead + 1, n \notin cut
        PROVE  input[n].kind = "command" <=> \E i \in DOMAIN origin : origin[i] = n
    <3>1. CASE n \in 1 .. LinesRead
      BY <2>1, <3>1 DEF LinesAppliedOnce
    <3>2. CASE n = LinesRead + 1
      <4>1. input[n].kind # "command"
        BY <1>2, <2>1, <3>2
      <4>2. \A i \in DOMAIN origin : origin[i] # n
        BY <1>2, <1>4, <3>2, OneMore
      <4>3. QED BY <4>1, <4>2
    <3>3. n \in 1 .. LinesRead \/ n = LinesRead + 1
      BY <1>2, <2>1, OneMore
    <3>4. QED BY <3>1, <3>2, <3>3
  <2>2. \A n \in 1 .. LinesRead' : n \notin cut' =>
          (input'[n].kind = "command" <=> \E i \in DOMAIN origin' : origin'[i] = n)
    <3>1. LinesRead' = LinesRead + 1 /\ UNCHANGED <<cut, input, origin>>
      BY <1>1, <1>2
    <3>2. QED BY <2>1, <3>1
  <2>3. /\ \A i, j \in DOMAIN origin' :
             i < j /\ origin'[j] # 0 => origin'[i] < origin'[j]
        /\ \A c \in queue' \cup Done' : origin'[c.id] \notin cut' \cup {0} =>
             c.timestamp = input'[origin'[c.id]].timestamp
    BY <1>1 DEF LinesAppliedOnce
  <2>4. QED BY <2>2, <2>3 DEF LinesAppliedOnce
<1>7. ErrorHasCause'
  <2>1. CASE outcome' = "parse error" /\ Head(source).kind = "garbage"
    BY <1>1, <1>2, <2>1 DEF ErrorHasCause
  <2>2. CASE outcome' = outcome
    BY <1>1, <2>2 DEF ErrorHasCause
  <2>3. CASE outcome' = "read error"
    BY <2>3 DEF ErrorHasCause
  <2>4. QED BY <2>1, <2>2, <2>3
<1>8. DueMeansHeld' /\ DueIsNew' /\ OvertakenByLater'
  BY <1>1 DEF DueMeansHeld, DueIsNew, OvertakenByLater
<1>9. QED BY <1>2, <1>3, <1>5, <1>6, <1>7, <1>8

LEMMA CutStep ==
  ASSUME ClientInv, NEW rest \in Line, ReadFailsInside(rest)
  PROVE  ClientInv'
<1> USE DEF ClientInv
<1>1. /\ source \in Seq(Line) /\ source # <<>>
      /\ source' = <<rest>> \o Tail(source)
      /\ cut' = cut \cup {LinesRead + 1}
      /\ UNCHANGED <<transport, running, current, tickRate, queue, executed, input, origin, held>>
      /\ reading' = FALSE /\ outcome' = "read error"
  BY DEF ReadFailsInside, Returns, clock, TypeOK
<1>2. /\ source' \in Seq(Line) /\ Len(source') = Len(source)
      /\ \A k \in 2 .. Len(source) : source'[k] = source[k]
  BY <1>1, OneForAnother
<1>3. LinesRead' = LinesRead /\ Done' = Done
  BY <1>1, <1>2 DEF LinesRead, Done
<1>4. TypeOK'
  BY <1>1, <1>2, <1>3 DEF TypeOK
<1>5. Aligned'
  <2>1. SUFFICES ASSUME NEW k \in 1 .. Len(source), LinesRead + k \notin cut'
                 PROVE  source'[k] = input[LinesRead + k]
    <3>1. DOMAIN source' = 1 .. Len(source)
      BY <1>2
    <3>2. QED BY <1>1, <1>2, <1>3, <3>1 DEF Aligned
  <2>2. k # 1
    BY <1>1, <2>1
  <2>3. k \in 2 .. Len(source) /\ k \in DOMAIN source
    BY <2>2, SourceFacts
  <2>4. QED BY <1>1, <1>2, <2>1, <2>3 DEF Aligned
<1>6. Origins'
  BY <1>1, <1>3 DEF Origins
<1>7. LinesAppliedOnce'
  BY <1>1, <1>3 DEF LinesAppliedOnce
<1>8. DueMeansHeld' /\ ErrorHasCause' /\ DueIsNew' /\ OvertakenByLater'
  BY <1>1 DEF DueMeansHeld, ErrorHasCause, DueIsNew, OvertakenByLater
<1>9. QED BY <1>4, <1>5, <1>6, <1>7, <1>8

-----------------------------------------------------------------------------
(* Steps that accept a command *)

\* The command is in the heap or has been executed afterwards, and so is
\* whatever was there before.
LEMMA AcceptedOrigins ==
  ASSUME ClientInv, NEW t \in Time, NEW p \in Payload, NEW n \in Nat,
         origin' = Append(origin, n), n <= LinesRead', LinesRead <= LinesRead', LinesRead' \in Nat,
         queue' \cup Done' = queue \cup {Command(t, p)} \cup Done
  PROVE  /\ Origins'
         /\ origin' \in Seq(Nat)
         /\ DOMAIN origin' = DOMAIN origin \cup {Len(origin) + 1}
         /\ \A i \in DOMAIN origin : origin'[i] = origin[i] /\ i < Len(origin) + 1
         /\ origin'[Len(origin) + 1] = n
<1> USE DEF ClientInv
<1>1. /\ origin \in Seq(Nat) /\ Len(origin) \in Nat /\ DOMAIN origin = 1 .. Len(origin)
      /\ \A i \in DOMAIN origin : origin[i] \in Nat
      /\ LinesRead \in Nat
  BY SourceFacts DEF TypeOK
<1>2. /\ origin' \in Seq(Nat)
      /\ DOMAIN origin' = 1 .. Len(origin) + 1
      /\ \A i \in 1 .. Len(origin) : origin'[i] = origin[i]
      /\ origin'[Len(origin) + 1] = n
  BY <1>1
<1>3. /\ 1 .. Len(origin) + 1 = 1 .. Len(origin) \cup {Len(origin) + 1}
      /\ \A i \in 1 .. Len(origin) : i < Len(origin) + 1
  BY <1>1
<1>4. \A i \in DOMAIN origin' : origin'[i] <= LinesRead'
  <2>1. \A a, b, c \in Nat : a <= b /\ b <= c => a <= c
    OBVIOUS
  <2>2. \A i \in DOMAIN origin : origin[i] <= LinesRead'
    BY <1>1, <2>1 DEF Origins
  <2>3. QED BY <1>1, <1>2, <1>3, <2>2
<1>5. Command(t, p).id = Len(origin) + 1
  BY DEF Command
<1>6. \A c \in queue' \cup Done' : c.id \in DOMAIN origin'
  BY <1>1, <1>2, <1>3, <1>5 DEF Origins
<1>7. \A i \in DOMAIN origin' : \E c \in queue' \cup Done' : c.id = i
  BY <1>1, <1>2, <1>3, <1>5 DEF Origins
<1>8. Origins'
  BY <1>4, <1>6, <1>7 DEF Origins
<1>9. QED BY <1>1, <1>2, <1>3, <1>8

\* A call of enqueue_command does not touch what is known about lines.
LEMMA EnqueueLines ==
  ASSUME ClientInv, NEW t \in Time, NEW p \in Payload,
         origin' = Append(origin, 0), UNCHANGED <<source, input, cut>>,
         queue' \cup Done' = queue \cup {Command(t, p)} \cup Done
  PROVE  Aligned' /\ Origins' /\ LinesAppliedOnce' /\ origin' \in Seq(Nat)
<1> USE DEF ClientInv
<1>1. LinesRead' = LinesRead /\ LinesRead \in Nat /\ 0 <= LinesRead
  BY SourceFacts DEF LinesRead
<1>2. /\ Origins' /\ origin' \in Seq(Nat)
      /\ DOMAIN origin' = DOMAIN origin \cup {Len(origin) + 1}
      /\ \A i \in DOMAIN origin : origin'[i] = origin[i] /\ i < Len(origin) + 1
      /\ origin'[Len(origin) + 1] = 0
  BY <1>1, AcceptedOrigins
<1>3. Aligned'
  BY <1>1 DEF Aligned
<1>4. \A i, j \in DOMAIN origin' : i < j /\ origin'[j] # 0 => origin'[i] < origin'[j]
  <2>1. SUFFICES ASSUME NEW i \in DOMAIN origin', NEW j \in DOMAIN origin', i < j, origin'[j] # 0
                 PROVE  origin'[i] < origin'[j]
    OBVIOUS
  <2>2. j \in DOMAIN origin
    BY <1>2, <2>1
  <2>3. i \in DOMAIN origin
    <3>1. j < Len(origin) + 1 /\ Len(origin) \in Nat /\ DOMAIN origin = 1 .. Len(origin)
      BY <1>2, <2>2, SourceFacts
    <3>2. i # Len(origin) + 1
      BY <2>1, <2>2, <3>1
    <3>3. QED BY <1>2, <3>2
  <2>4. QED BY <1>2, <2>1, <2>2, <2>3 DEF LinesAppliedOnce
<1>5. \A n \in 1 .. LinesRead : n \notin cut =>
        (input[n].kind = "command" <=> \E i \in DOMAIN origin' : origin'[i] = n)
  <2>1. SUFFICES ASSUME NEW n \in 1 .. LinesRead, n \notin cut
                 PROVE  (\E i \in DOMAIN origin' : origin'[i] = n)
                          <=> (\E i \in DOMAIN origin : origin[i] = n)
    BY DEF LinesAppliedOnce
  <2>2. n # 0
    BY <2>1
  <2>3. QED BY <1>2, <2>2
<1>6. \A c \in queue' \cup Done' : origin'[c.id] \notin cut \cup {0} =>
        c.timestamp = input[origin'[c.id]].timestamp
  <2>1. Command(t, p).id = Len(origin) + 1
    BY DEF Command
  <2>2. QED BY <1>2, <2>1 DEF Origins, LinesAppliedOnce
<1>7. QED BY <1>1, <1>2, <1>3, <1>4, <1>5, <1>6 DEF LinesAppliedOnce

\* A line that is a command adds itself.
LEMMA ReadLines ==
  ASSUME ClientInv, NEW p \in Payload, source # <<>>, TakesLine,
         Head(source).kind = "command", Head(source).timestamp \in Time,
         origin' = Append(origin, LinesRead + 1),
         queue' \cup Done' = queue \cup {Command(Head(source).timestamp, p)} \cup Done
  PROVE  Origins' /\ LinesAppliedOnce' /\ origin' \in Seq(Nat)
<1> USE DEF ClientInv
<1> DEFINE n == LinesRead + 1
           last == Len(origin) + 1
<1>1. /\ LinesRead' = n
      /\ n \notin cut => Head(source) = input[n]
      /\ UNCHANGED <<cut, input>>
  BY TakenLine DEF TakesLine
<1>2. LinesRead \in Nat /\ n \in Nat /\ n # 0 /\ LinesRead <= n
  BY SourceFacts
<1>3. /\ Origins' /\ origin' \in Seq(Nat)
      /\ DOMAIN origin' = DOMAIN origin \cup {last}
      /\ \A i \in DOMAIN origin : origin'[i] = origin[i] /\ i < last
      /\ origin'[last] = n
  BY <1>1, <1>2, AcceptedOrigins
<1>4. \A i \in DOMAIN origin : origin[i] \in Nat /\ origin[i] < n /\ origin[i] # n
  <2>1. \A a, b \in Nat : a <= b => a < b + 1 /\ a # b + 1
    OBVIOUS
  <2>2. QED BY <1>2, <2>1, SourceFacts DEF Origins
<1>5. DOMAIN origin = 1 .. Len(origin) /\ Len(origin) \in Nat
  BY SourceFacts
<1>6. \A i, j \in DOMAIN origin' : i < j /\ origin'[j] # 0 => origin'[i] < origin'[j]
  <2>1. SUFFICES ASSUME NEW i \in DOMAIN origin', NEW j \in DOMAIN origin', i < j, origin'[j] # 0
                 PROVE  origin'[i] < origin'[j]
    OBVIOUS
  <2>2. i \in DOMAIN origin
    <3>1. i # last
      BY <1>3, <1>5, <2>1
    <3>2. QED BY <1>3, <3>1
  <2>3. CASE j \in DOMAIN origin
    BY <1>3, <2>1, <2>2, <2>3 DEF LinesAppliedOnce
  <2>4. CASE j = last
    BY <1>3, <1>4, <2>2, <2>4
  <2>5. QED BY <1>3, <2>3, <2>4
<1>7. ASSUME NEW k \in 1 .. LinesRead + 1, k \notin cut
      PROVE  input[k].kind = "command" <=> \E i \in DOMAIN origin' : origin'[i] = k
  <2>1. CASE k = n
    BY <1>1, <1>3, <1>7, <2>1
  <2>2. CASE k \in 1 .. LinesRead
    <3>1. k # n
      BY <1>2, <2>2
    <3>2. (\E i \in DOMAIN origin' : origin'[i] = k) <=> (\E i \in DOMAIN origin : origin[i] = k)
      BY <1>3, <3>1
    <3>3. QED BY <1>7, <2>2, <3>2 DEF LinesAppliedOnce
  <2>3. QED BY <1>2, <1>7, <2>1, <2>2, OneMore
<1>8. \A c \in queue' \cup Done' : origin'[c.id] \notin cut \cup {0} =>
        c.timestamp = input[origin'[c.id]].timestamp
  <2>1. SUFFICES ASSUME NEW c \in queue' \cup Done', origin'[c.id] \notin cut \cup {0}
                 PROVE  c.timestamp = input[origin'[c.id]].timestamp
    OBVIOUS
  <2>2. CASE c \in queue \cup Done
    BY <1>3, <2>1, <2>2 DEF Origins, LinesAppliedOnce
  <2>3. CASE c = Command(Head(source).timestamp, p)
    <3>1. c.id = last /\ c.timestamp = Head(source).timestamp
      BY <2>3 DEF Command
    <3>2. QED BY <1>1, <1>3, <2>1, <3>1
  <2>4. QED BY <2>2, <2>3
<1>9. LinesAppliedOnce'
  BY <1>1, <1>6, <1>7, <1>8 DEF LinesAppliedOnce
<1>10. QED BY <1>3, <1>9

LEMMA TickTimes ==
  ASSUME NEW now \in Time, NEW r \in Rate
  PROVE  /\ StepTimes(now, r, 1) \in SUBSET Time
         /\ StepsOverflow(now, r, 1) => StepTimes(now, r, 1) = {}
         /\ ~StepsOverflow(now, r, 1) => StepTimes(now, r, 1) # {}
<1>1. now \in Nat /\ r \in Nat /\ MaxTime \in Nat
  BY MaxTimeAssumption DEF Time, Rate
<1>2. {now + k * r : k \in 1 .. 1} = {now + r}
  BY <1>1
<1>3. 1 * r = r /\ now + r \in Nat
  BY <1>1
<1>4. QED BY <1>1, <1>2, <1>3 DEF StepTimes, StepsOverflow, Time

LEMMA EnqueueStep ==
  ASSUME ClientInv, NEW t \in Time, NEW p \in Payload, EnqueueCommand(t, p)
  PROVE  ClientInv'
<1> USE DEF ClientInv
<1> DEFINE new == Command(t, p)
           heap == queue \cup {new}
           target == Forward(current, t)
<1>1. /\ origin' = Append(origin, 0)
      /\ UNCHANGED <<transport, running, reading, source, input, cut>>
      /\ outcome' = "ok"
  BY DEF EnqueueCommand, reader
<1>2. /\ new \in ScheduledCommand /\ new.id = Len(origin) + 1
      /\ new.timestamp = t /\ new.accepted = current
  BY CommandType
<1>3. heap \in SUBSET ScheduledCommand /\ queue \in SUBSET ScheduledCommand
  BY <1>2 DEF TypeOK
<1>4. DOMAIN origin = 1 .. Len(origin) /\ Len(origin) \in Nat
  BY SourceFacts
<1>5. current \in Time /\ current \in Int /\ t \in Int
  <2>1. current \in Time
    BY DEF TypeOK
  <2>2. \A n \in Time : n \in Int
    BY MaxTimeAssumption DEF Time
  <2>3. QED BY <2>1, <2>2
<1> HIDE DEF new
<1>6. ErrorHasCause'
  BY <1>1 DEF ErrorHasCause
<1>7. CASE running
  <2>1. {target} \in SUBSET Time /\ {target} # {}
    BY <1>5, CallTimes
  <2>2. DispatchAt(heap, {target}) /\ held' = {}
    BY <1>7 DEF EnqueueCommand, new
  <2> HIDE DEF heap, target
  <2>3. /\ current' \in Time /\ current' = target /\ tickRate' = tickRate
        /\ queue' \subseteq heap
        /\ queue' \cup Done' = heap \cup Done
        /\ executed \subseteq executed'
        /\ \A c \in queue' : c.timestamp > current'
        /\ \A x \in executed' \ executed :
             x.cmd \in heap /\ x.at = target /\ x.cmd.timestamp <= target
        /\ \A c \in heap \ queue' : \E x \in executed' : x.cmd = c
    <3>1. /\ current' \in Time /\ tickRate' = tickRate
          /\ queue' \subseteq heap
          /\ queue' \cup Done' = heap \cup Done
      BY <1>3, <2>1, <2>2, DispatchedHeap
    <3>6. current' \in {target}
      <4>1. \A times : /\ times \in SUBSET Time /\ times # {}
                       /\ DispatchAt(heap, times)
                       => current' \in times
        BY <1>3, DispatchedHeap
      <4>2. QED BY <2>1, <2>2, <4>1
    <3>7. executed \subseteq executed'
      BY <1>3, <2>1, <2>2, DispatchedHeap
    <3>2. \A c \in queue' : c.timestamp > current'
      BY <1>3, <2>1, <2>2, DispatchedHeap
    <3>3. \A x \in executed' \ executed :
            x.cmd \in heap /\ x.at \in {target} /\ x.cmd.timestamp <= x.at
      BY <1>3, <2>1, <2>2, DispatchedHeap
    <3>4. \A c \in heap \ queue' : \E x \in executed' : x.cmd = c
      BY <1>3, <2>1, <2>2, DispatchedHeap
    <3>5. QED BY <3>1, <3>2, <3>3, <3>4, <3>6, <3>7
  <2>4. Aligned' /\ Origins' /\ LinesAppliedOnce' /\ origin' \in Seq(Nat)
    BY <1>1, <2>3, EnqueueLines DEF heap, new
  <2>5. TypeOK'
    <3>1. queue' \cup Done' \subseteq ScheduledCommand
      BY <1>3, <2>3 DEF TypeOK
    <3>2. QED BY <1>1, <2>2, <2>3, <2>4, <3>1 DEF TypeOK
  <2>6. \A c \in queue' : ~(c.timestamp <= current')
    <3>1. current' \in Int
      BY <2>3, MaxTimeAssumption DEF Time
    <3>2. QED BY <1>3, <2>3, <3>1, CommandNumbers
  <2>7. DueMeansHeld' /\ DueIsNew'
    BY <2>6 DEF DueMeansHeld, DueIsNew
  <2>8. ASSUME transport = "memory", NEW x \in executed' \ executed
        PROVE  \/ x.at \in {x.cmd.timestamp, x.cmd.accepted}
               \/ \E y \in executed' : y.cmd.id > x.cmd.id /\ y.cmd.timestamp = x.at
    <3>1. x.cmd \in heap /\ x.at = target /\ x.cmd.timestamp <= target
      BY <2>3, <2>8
    <3>2. CASE t > current
      <4>1. target = t
        BY <3>2 DEF target, Forward
      <4>2. CASE x.cmd = new
        BY <1>2, <3>1, <4>1, <4>2
      <4>3. CASE x.cmd \in queue
        <5>1. PICK y \in executed' : y.cmd = new
          <6>1. new \in heap \ queue'
            BY <1>2, <1>5, <2>3, <4>1 DEF heap
          <6>2. QED BY <2>3, <6>1
        <5>2. x.cmd.id \in 1 .. Len(origin)
          BY <1>4, <4>3 DEF Origins
        <5>3. y.cmd.id > x.cmd.id
          BY <1>2, <1>4, <5>1, <5>2
        <5>4. QED BY <1>2, <3>1, <4>1, <5>1, <5>3
      <4>4. QED BY <3>1, <4>2, <4>3 DEF heap
    <3>3. CASE ~(t > current)
      <4>1. target = current
        BY <3>3 DEF target, Forward
      <4>2. x.cmd.accepted = current
        BY <1>2, <2>8, <3>1, <4>1 DEF heap, DueIsNew
      <4>3. QED BY <3>1, <4>1, <4>2
    <3>4. QED BY <3>2, <3>3
  <2>9. OvertakenByLater'
    BY <1>1, <2>3, <2>8 DEF OvertakenByLater
  <2>10. QED BY <1>6, <2>4, <2>5, <2>7, <2>9
<1>8. CASE ~running
  <2>1. /\ queue' = heap /\ held' = held \cup {Len(origin) + 1}
        /\ UNCHANGED <<current, tickRate, executed>> /\ Done' = Done
    BY <1>8 DEF EnqueueCommand, new, Done
  <2>2. queue' \cup Done' = queue \cup {Command(t, p)} \cup Done
    BY <2>1 DEF new
  <2>3. /\ Aligned' /\ Origins' /\ LinesAppliedOnce' /\ origin' \in Seq(Nat)
        /\ DOMAIN origin' = DOMAIN origin \cup {Len(origin) + 1}
    <3>1. origin \in Seq(Nat)
      BY DEF TypeOK
    <3>2. DOMAIN origin' = DOMAIN origin \cup {Len(origin) + 1}
      BY <1>1, <1>4, <3>1
    <3>3. QED BY <1>1, <2>2, <3>2, EnqueueLines
  <2>4. TypeOK'
    BY <1>1, <1>3, <2>1, <2>3 DEF TypeOK
  <2>5. DueMeansHeld' /\ DueIsNew'
    BY <1>1, <1>2, <2>1 DEF DueMeansHeld, DueIsNew
  <2>6. OvertakenByLater'
    BY <1>1, <2>1 DEF OvertakenByLater
  <2>7. QED BY <1>6, <2>3, <2>4, <2>5, <2>6
<1>9. QED BY <1>7, <1>8

LEMMA ReadsStep ==
  ASSUME ClientInv, NEW p \in Payload, ReadsCommand(p)
  PROVE  ClientInv'
<1> USE DEF ClientInv
<1> DEFINE new == Command(Head(source).timestamp, p)
           heap == queue \cup {new}
           times == StepTimes(current, tickRate, 1)
           over == StepsOverflow(current, tickRate, 1)
<1>1. /\ reading /\ source # <<>> /\ Head(source).kind = "command" /\ TakesLine
      /\ origin' = Append(origin, LinesRead + 1)
      /\ DispatchAt(heap, times)
      /\ UNCHANGED <<transport, running, input, cut>>
  BY DEF ReadsCommand, NextIs, TakesLine, Returns
<1>2. /\ over => reading' = FALSE /\ outcome' = "panic" /\ held' = held \cup {Len(origin) + 1}
      /\ ~over => reading' = reading /\ outcome' = outcome /\ held' = {}
  BY DEF ReadsCommand, Returns
<1>3. /\ Head(source) \in Line /\ source' \in Seq(Line) /\ Aligned'
  BY <1>1, TakenLine
<1>4. Head(source).timestamp \in Time
  BY <1>1, <1>3 DEF Line
<1>5. /\ new \in ScheduledCommand /\ new.id = Len(origin) + 1
  BY <1>4, CommandType
<1>6. heap \in SUBSET ScheduledCommand
  BY <1>5 DEF TypeOK
<1>7. current \in Time /\ tickRate \in Rate /\ transport = "pipe"
  BY <1>1 DEF TypeOK
<1>8. /\ times \in SUBSET Time
      /\ over => times = {}
      /\ ~over => times # {}
  BY <1>7, TickTimes
<1> HIDE DEF times, over, heap
<1>9. /\ current' \in Time /\ tickRate' = tickRate
      /\ queue' \subseteq heap
      /\ queue' \cup Done' = heap \cup Done
      /\ over => current' = current
      /\ ~over => \A c \in queue' : c.timestamp > current'
  BY <1>1, <1>6, <1>8, DispatchedHeap
<1>10. Origins' /\ LinesAppliedOnce' /\ origin' \in Seq(Nat)
  BY <1>1, <1>4, <1>9, ReadLines DEF heap, new
<1>11. DOMAIN origin' = DOMAIN origin \cup {Len(origin) + 1}
  <2>1. /\ origin \in Seq(Nat) /\ DOMAIN origin = 1 .. Len(origin) /\ Len(origin) \in Nat
        /\ LinesRead \in Nat
    BY SourceFacts DEF TypeOK
  <2>2. \A n \in Nat : n + 1 \in Nat
    OBVIOUS
  <2>3. DOMAIN Append(origin, LinesRead + 1) = 1 .. Len(origin) + 1
    BY <2>1, <2>2
  <2>4. QED BY <1>1, <2>1, <2>3
<1>12. TypeOK'
  <2>1. queue' \cup Done' \subseteq ScheduledCommand
    BY <1>6, <1>9 DEF TypeOK
  <2>2. held' \subseteq DOMAIN origin'
    BY <1>2, <1>11 DEF TypeOK
  <2>3. /\ reading' \in BOOLEAN /\ (reading' => reading)
        /\ outcome' \in {"ok", "panic", "parse error", "read error"}
    <3>1. reading \in BOOLEAN
      BY DEF TypeOK
    <3>2. outcome \in {"ok", "panic", "parse error", "read error"}
      BY DEF TypeOK
    <3>3. CASE over
      BY <1>2, <3>3
    <3>4. CASE ~over
      <4>1. reading' = reading /\ outcome' = outcome
        BY <1>2, <3>4
      <4>2. QED BY <3>1, <3>2, <4>1
    <3>5. QED BY <3>3, <3>4
  <2>4. QED BY <1>1, <1>3, <1>9, <1>10, <2>1, <2>2, <2>3 DEF TypeOK
<1>13. ErrorHasCause'
  BY <1>1, <1>2 DEF ErrorHasCause
<1>14. DueMeansHeld'
  <2>1. CASE over
    BY <1>2, <1>5, <1>9, <2>1 DEF heap, DueMeansHeld
  <2>2. CASE ~over
    <3>1. current' \in Int
      BY <1>9, MaxTimeAssumption DEF Time
    <3>2. \A c \in queue' : ~(c.timestamp <= current')
      BY <1>6, <1>9, <2>2, <3>1, CommandNumbers
    <3>3. QED BY <3>2 DEF DueMeansHeld
  <2>3. QED BY <2>1, <2>2
<1>15. DueIsNew' /\ OvertakenByLater'
  BY <1>1, <1>7 DEF DueIsNew, OvertakenByLater
<1>16. QED BY <1>3, <1>10, <1>12, <1>13, <1>14, <1>15

-----------------------------------------------------------------------------
(* The invariant and what follows from it *)

LEMMA ClientInit == Init => ClientInv
<1> SUFFICES ASSUME Init PROVE ClientInv
  OBVIOUS
<1>1. /\ transport \in {"memory", "pipe"} /\ current = 0 /\ tickRate = 1
      /\ queue = {} /\ executed = {} /\ input = source
      /\ outcome = "ok" /\ cut = {} /\ origin = <<>> /\ held = {}
      /\ Done = {}
  BY DEF Init, Done
<1>2. source \in Seq(Line)
  <2>1. source \in Sources \/ source = <<>>
    BY DEF Init
  <2>2. <<>> \in Seq(Line)
    OBVIOUS
  <2>3. QED BY <2>1, <2>2, SimulationClientAssumption
<1>3. running \in BOOLEAN /\ reading \in BOOLEAN /\ ~reading
  BY DEF Init
<1>4. LinesRead = 0 /\ Len(source) \in Nat
  BY <1>1, <1>2 DEF LinesRead
<1>5. TypeOK
  <2>1. current \in Time /\ tickRate \in Rate
    BY <1>1, MaxTimeAssumption DEF Time, Rate
  <2>2. origin \in Seq(Nat)
    BY <1>1
  <2>3. QED BY <1>1, <1>2, <1>3, <2>1, <2>2 DEF TypeOK
<1>6. Aligned
  BY <1>1, <1>2, <1>4 DEF Aligned
<1>7. Origins /\ LinesAppliedOnce
  BY <1>1, <1>4 DEF Origins, LinesAppliedOnce
<1>8. DueMeansHeld /\ ErrorHasCause /\ DueIsNew /\ OvertakenByLater
  BY <1>1 DEF DueMeansHeld, ErrorHasCause, DueIsNew, OvertakenByLater
<1>9. QED BY <1>5, <1>6, <1>7, <1>8 DEF ClientInv

LEMMA ClientStep ==
  ASSUME ClientInv, [Next]_vars
  PROVE  ClientInv'
<1>0. TypeOK
  BY DEF ClientInv
<1>1. ASSUME NEW r \in Rate, SetTickRate(r) PROVE ClientInv'
  <2>1. /\ UNCHANGED <<transport, running, reading, current, queue, executed,
                       source, input, cut, origin, held>>
        /\ tickRate' = r /\ outcome' = "ok"
    BY <1>1 DEF SetTickRate, reader
  <2>2. QED BY <1>0, <2>1, QuietStep DEF TypeOK
<1>2. ASSUME NEW t \in Time, NEW p \in Payload, EnqueueCommand(t, p) PROVE ClientInv'
  BY <1>2, EnqueueStep
<1>3. CASE Start
  <2>1. /\ UNCHANGED <<transport, current, tickRate, queue, executed,
                       source, input, cut, origin, held>>
        /\ running' = TRUE /\ reading' = (transport = "pipe") /\ outcome' = "ok"
    BY <1>3 DEF Start, reader, clock
  <2>2. reading' \in BOOLEAN /\ running' \in BOOLEAN
    BY <2>1
  <2>3. QED BY <1>0, <2>1, <2>2, QuietStep DEF TypeOK
<1>4. CASE Stop
  <2>1. /\ UNCHANGED <<transport, reading, current, tickRate, queue, executed,
                       source, input, cut, origin, held>>
        /\ ~reading /\ running' = FALSE /\ outcome' = "ok"
    BY <1>4 DEF Stop, Idle, reader, clock
  <2>2. QED BY <1>0, <2>1, QuietStep DEF TypeOK
<1>5. CASE ReadsBlank \/ ReadsGarbage \/ ReadsUndecodable
  <2>1. /\ reading /\ source # <<>> /\ Head(source).kind # "command" /\ TakesLine
        /\ UNCHANGED <<transport, running, clock, origin, held>>
        /\ reading' = reading \/ reading' = FALSE
        /\ \/ outcome' = outcome
           \/ outcome' = "read error"
           \/ outcome' = "parse error" /\ Head(source).kind = "garbage"
    BY <1>5 DEF ReadsBlank, ReadsGarbage, ReadsUndecodable, NextIs, Returns
  <2>2. reading' \in BOOLEAN /\ (reading' => reading)
    BY <1>0, <2>1 DEF TypeOK
  <2>3. QED BY <2>1, <2>2, SkipStep
<1>6. ASSUME NEW p \in Payload, ReadsCommand(p) PROVE ClientInv'
  BY <1>6, ReadsStep
<1>7. CASE ReadFails \/ SourceEnds
  <2>1. /\ UNCHANGED <<transport, running, current, tickRate, queue, executed,
                       source, input, cut, origin, held>>
        /\ reading' = FALSE /\ outcome' \in {"ok", "read error"}
    BY <1>7 DEF ReadFails, SourceEnds, Returns, reader, clock
  <2>2. QED BY <1>0, <2>1, QuietStep DEF TypeOK
<1>8. ASSUME NEW rest \in Line, ReadFailsInside(rest) PROVE ClientInv'
  BY <1>8, CutStep
<1>9. CASE UNCHANGED vars
  <2>1. /\ UNCHANGED <<transport, running, reading, outcome, current, tickRate, queue, executed,
                       source, input, cut, origin, held>>
    BY <1>9 DEF vars, reader, clock
  <2>2. QED BY <1>0, <2>1, QuietStep DEF TypeOK
<1>10. QED BY <1>1, <1>2, <1>3, <1>4, <1>5, <1>6, <1>7, <1>8, <1>9 DEF Next

THEOREM ClientInvHolds == Spec => []ClientInv
  BY ClientInit, ClientStep, PTL DEF Spec

\* Type correctness of the client library and its transports (client.rs).
THEOREM LibraryTypeCorrect == Spec => []TypeOK
<1>1. ClientInv => TypeOK
  BY DEF ClientInv
<1>2. QED BY <1>1, ClientInvHolds, PTL

\* Each line is applied at most once and in order, over all calls of start and
\* all failed reads; the commands among the lines read, and only they.
THEOREM EachLineOnce == Spec => []LinesAppliedOnce
<1>1. ClientInv => LinesAppliedOnce
  BY DEF ClientInv
<1>2. QED BY <1>1, ClientInvHolds, PTL

\* A due command waits only if it was accepted since time was last dispatched.
THEOREM NoDueLeftBehind == Spec => []DueMeansHeld
<1>1. ClientInv => DueMeansHeld
  BY DEF ClientInv
<1>2. QED BY <1>1, ClientInvHolds, PTL

\* In the in-memory transport a command is late only through a later command.
THEOREM LateThroughLater == Spec => []OvertakenByLater
<1>1. ClientInv => OvertakenByLater
  BY DEF ClientInv
<1>2. QED BY <1>1, ClientInvHolds, PTL

\* The pipe transport takes every source that the file reader takes, and
\* applies the same commands.
THEOREM TransportTakesFiles == Spec => []FileReaderAgrees
<1>1. ClientInv => FileReaderAgrees
  <2>1. SUFFICES ASSUME ClientInv, cut = {}, \A i \in DOMAIN input : input[i].kind = "command"
                 PROVE  /\ outcome # "parse error"
                        /\ source = <<>> =>
                             \A i \in DOMAIN input : \E c \in queue \cup Done :
                               origin[c.id] = i /\ c.timestamp = input[i].timestamp
    BY DEF FileReaderAgrees, ReadPipeCommands
  <2> USE DEF ClientInv
  <2>2. outcome # "parse error"
    BY <2>1 DEF ErrorHasCause
  <2>3. ASSUME source = <<>>, NEW i \in DOMAIN input
        PROVE  \E c \in queue \cup Done :
                 origin[c.id] = i /\ c.timestamp = input[i].timestamp
    <3>1. i \in 1 .. LinesRead /\ i # 0
      <4>1. Len(source) = 0
        BY <2>3
      <4>2. Len(input) \in Nat /\ DOMAIN input = 1 .. Len(input)
        BY <2>1, SourceFacts
      <4>3. LinesRead = Len(input)
        BY <4>1, <4>2 DEF LinesRead
      <4>4. QED BY <2>3, <4>2, <4>3
    <3>2. PICK k \in DOMAIN origin : origin[k] = i
      BY <2>1, <2>3, <3>1 DEF LinesAppliedOnce
    <3>3. PICK c \in queue \cup Done : c.id = k
      BY <2>1, <3>2 DEF Origins
    <3>4. c.timestamp = input[i].timestamp
      BY <2>1, <3>1, <3>2, <3>3 DEF LinesAppliedOnce
    <3>5. QED BY <3>2, <3>3, <3>4
  <2>4. QED BY <2>2, <2>3
<1>2. QED BY <1>1, ClientInvHolds, PTL
=============================================================================
