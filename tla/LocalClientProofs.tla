-------------------------- MODULE LocalClientProofs --------------------------
(***************************************************************************)
(* Proofs about the local client, for every capacity of the channel, every *)
(* interval, any requests of pipe clients and commands without bound.      *)
(*                                                                         *)
(* The commands are in four places: channel, forwarder's hand, heap and    *)
(* executions.  Their numbers grow from the last of these to the first, so *)
(* order and uniqueness are one invariant.                                 *)
(***************************************************************************)
EXTENDS LocalClient, DispatchCallsProofs, SequenceTheorems

-----------------------------------------------------------------------------
(* The parts of the inductive invariant *)

Scheduled == [kind : {"scheduled"}, cmd : ScheduledCommand]

Events == PipeRequests \cup Scheduled

Typed ==
  /\ current \in Time
  /\ tickRate \in Rate
  /\ queue \subseteq ScheduledCommand
  /\ \A e \in executed : e.cmd \in ScheduledCommand /\ e.at \in Time
  /\ ticking \in BOOLEAN
  /\ wanted \in BOOLEAN
  /\ ticker \in {"spawned", "waiting", "locking", "dead"}
  /\ interval \in Intervals
  /\ channel \in Seq(Events) /\ Len(channel) <= ChannelCap
  /\ hand \in Seq(Events) /\ Len(hand) <= 1
  /\ forwarder \in {"alive", "dead"}
  /\ sending \in Seq([timestamp : Time, command : Payload]) /\ Len(sending) <= 1
  /\ running \in BOOLEAN
  /\ nextId \in 1 .. MaxCommands + 2
  /\ sending # <<>> => nextId <= MaxCommands + 1
  /\ lateTicks \in Nat

\* A late tick can come only from a loop that saw the flag on, and that loop
\* had made none since.
LateTicksInv ==
  /\ lateTicks <= 1
  /\ ticking \/ ticker = "locking" => lateTicks = 0

InChannel == CommandsIn(channel)
InHand == CommandsIn(hand)

\* Numbers grow along the channel, from the hand to the channel, and from the
\* dispatcher to both; none has been given out twice.
Ordered ==
  /\ \A c \in InChannel \cup InHand \cup queue \cup Done : c.id < nextId
  /\ \A c \in queue \cup Done, d \in InChannel \cup InHand : c.id < d.id
  /\ \A c \in InHand, d \in InChannel : c.id < d.id
  /\ \A i, j \in DOMAIN channel :
       /\ i < j
       /\ channel[i].kind = "scheduled"
       /\ channel[j].kind = "scheduled"
       => channel[i].cmd.id < channel[j].cmd.id
  /\ \A c, d \in queue : c.id = d.id => c = d
  /\ \A c \in queue, d \in Done : c.id # d.id

\* As long as the forwarder lives, no number is lost.
Conserved ==
  forwarder = "alive" =>
    \A id \in 1 .. nextId - 1 :
      \E c \in InChannel \cup InHand \cup queue \cup Done : c.id = id

PassedOverLate ==
  \A e \in executed, c \in queue \cup InChannel \cup InHand :
    c.timestamp <= e.at => c.id > e.cmd.id

\* The forwarder dies with an empty hand, for it dies applying what it held.
ForwarderInv == hand # <<>> => forwarder = "alive"

IInv == Typed /\ LateTicksInv /\ Ordered /\ Conserved /\ PassedOverLate /\ ForwarderInv

-----------------------------------------------------------------------------
(* Commands in a sequence of events *)

LEMMA CommandsMembers ==
  ASSUME NEW s
  PROVE  \A c : c \in CommandsIn(s)
                  <=> \E i \in DOMAIN s : s[i].kind = "scheduled" /\ c = s[i].cmd
BY DEF CommandsIn

LEMMA RequestsAreNotScheduled ==
  \A e \in Events : IF e.kind = "scheduled" THEN e \in Scheduled
                                            ELSE e \in PipeRequests
BY LocalClientAssumption DEF Events, Scheduled, RequestKinds

LEMMA CommandsTyped ==
  ASSUME NEW s \in Seq(Events)
  PROVE  CommandsIn(s) \subseteq ScheduledCommand
<1> SUFFICES ASSUME NEW i \in DOMAIN s, s[i].kind = "scheduled"
             PROVE  s[i].cmd \in ScheduledCommand
  BY CommandsMembers
<1>1. s[i] \in Events
  BY LenProperties
<1> QED  BY <1>1, RequestsAreNotScheduled DEF Scheduled

LEMMA CommandsOfNone == CommandsIn(<<>>) = {}
BY CommandsMembers

LEMMA CommandsOfOne ==
  ASSUME NEW e
  PROVE  CommandsIn(<<e>>) = IF e.kind = "scheduled" THEN {e.cmd} ELSE {}
<1>1. DOMAIN <<e>> = {1} /\ <<e>>[1] = e
  OBVIOUS
<1>2. \A c : c \in CommandsIn(<<e>>) <=> e.kind = "scheduled" /\ c = e.cmd
  BY <1>1, CommandsMembers
<1> QED  BY <1>2

LEMMA CommandsAppended ==
  ASSUME NEW s \in Seq(Events), NEW e \in Events
  PROVE  CommandsIn(Append(s, e)) = CommandsIn(s) \cup CommandsIn(<<e>>)
<1> DEFINE n == Len(s) + 1
           t == Append(s, e)
<1>1. /\ DOMAIN s = 1 .. n - 1 /\ DOMAIN t = 1 .. n /\ n \in Nat \ {0}
      /\ \A i \in 1 .. n - 1 : t[i] = s[i]
      /\ t[n] = e
  BY AppendProperties, LenProperties
<1> HIDE DEF n, t
<1>2. \A c : c \in CommandsIn(t) <=> \/ c \in CommandsIn(s)
                                     \/ e.kind = "scheduled" /\ c = e.cmd
  <2> TAKE c
  <2>1. ASSUME c \in CommandsIn(t)
        PROVE  c \in CommandsIn(s) \/ (e.kind = "scheduled" /\ c = e.cmd)
    <3>1. PICK i \in DOMAIN t : t[i].kind = "scheduled" /\ c = t[i].cmd
      BY <2>1, CommandsMembers
    <3>2. CASE i = n
      BY <1>1, <3>1, <3>2
    <3>3. CASE i # n
      <4>1. i \in DOMAIN s /\ t[i] = s[i]
        BY <1>1, <3>1, <3>3
      <4> QED  BY <3>1, <4>1, CommandsMembers
    <3> QED  BY <3>2, <3>3
  <2>2. ASSUME c \in CommandsIn(s)
        PROVE  c \in CommandsIn(t)
    <3>1. PICK i \in DOMAIN s : s[i].kind = "scheduled" /\ c = s[i].cmd
      BY <2>2, CommandsMembers
    <3>2. i \in DOMAIN t /\ t[i] = s[i]
      BY <1>1, <3>1
    <3> QED  BY <3>1, <3>2, CommandsMembers
  <2>3. ASSUME e.kind = "scheduled", c = e.cmd
        PROVE  c \in CommandsIn(t)
    <3>1. n \in DOMAIN t
      BY <1>1
    <3> QED  BY <1>1, <2>3, <3>1, CommandsMembers
  <2> QED  BY <2>1, <2>2, <2>3
<1>3. CommandsIn(t) = CommandsIn(s) \cup CommandsIn(<<e>>)
  <2>1. \A c : c \in CommandsIn(<<e>>) <=> e.kind = "scheduled" /\ c = e.cmd
    BY CommandsOfOne
  <2> QED  BY <1>2, <2>1
<1> QED  BY <1>3 DEF t

LEMMA CommandsTaken ==
  ASSUME NEW s \in Seq(Events), s # <<>>
  PROVE  /\ CommandsIn(s) = CommandsIn(<<Head(s)>>) \cup CommandsIn(Tail(s))
         /\ Head(s) = s[1] /\ Head(s) \in Events
         /\ DOMAIN s = 1 .. Len(s) /\ DOMAIN Tail(s) = 1 .. Len(s) - 1
         /\ Len(s) \in Nat \ {0}
         /\ \A i \in 1 .. Len(s) - 1 : Tail(s)[i] = s[i + 1]
<1> DEFINE n == Len(s)
           t == Tail(s)
           e == Head(s)
<1>1. /\ DOMAIN s = 1 .. n /\ DOMAIN t = 1 .. n - 1 /\ n \in Nat \ {0}
      /\ \A i \in 1 .. n - 1 : t[i] = s[i + 1]
      /\ s[1] = e /\ e \in Events
  BY HeadTailProperties, LenProperties
<1> HIDE DEF n, t, e
<1>2. \A c : c \in CommandsIn(s) <=> \/ c \in CommandsIn(t)
                                     \/ e.kind = "scheduled" /\ c = e.cmd
  <2> TAKE c
  <2>1. ASSUME c \in CommandsIn(s)
        PROVE  c \in CommandsIn(t) \/ (e.kind = "scheduled" /\ c = e.cmd)
    <3>1. PICK i \in DOMAIN s : s[i].kind = "scheduled" /\ c = s[i].cmd
      BY <2>1, CommandsMembers
    <3>2. CASE i = 1
      BY <1>1, <3>1, <3>2
    <3>3. CASE i # 1
      <4>1. i - 1 \in DOMAIN t /\ t[i - 1] = s[i]
        BY <1>1, <3>1, <3>3
      <4> QED  BY <3>1, <4>1, CommandsMembers
    <3> QED  BY <3>2, <3>3
  <2>2. ASSUME c \in CommandsIn(t)
        PROVE  c \in CommandsIn(s)
    <3>1. PICK i \in DOMAIN t : t[i].kind = "scheduled" /\ c = t[i].cmd
      BY <2>2, CommandsMembers
    <3>2. i + 1 \in DOMAIN s /\ t[i] = s[i + 1]
      BY <1>1, <3>1
    <3> QED  BY <3>1, <3>2, CommandsMembers
  <2>3. ASSUME e.kind = "scheduled", c = e.cmd
        PROVE  c \in CommandsIn(s)
    <3>1. 1 \in DOMAIN s
      BY <1>1
    <3> QED  BY <1>1, <2>3, <3>1, CommandsMembers
  <2> QED  BY <2>1, <2>2, <2>3
<1> QED  BY <1>1, <1>2, CommandsOfOne DEF t, e, n

-----------------------------------------------------------------------------
(* What an action does to the four places *)

\* Whatever happens to the dispatcher but the arrival of a command: commands
\* go from the heap to the executions, each when nothing that stays was due.
ClockEffect ==
  /\ current' \in Time
  /\ tickRate' \in Rate
  /\ queue' \subseteq queue
  /\ executed \subseteq executed'
  /\ \A e \in executed' \ executed :
       /\ e.cmd \in queue \ queue'
       /\ e.at \in Time
       /\ \A c \in queue' : c.timestamp > e.at
  /\ \A c \in queue \ queue' : \E e \in executed' : e.cmd = c

LEMMA DispatchEffect ==
  ASSUME Typed, NEW times \in SUBSET Time, DispatchAt(times)
  PROVE  ClockEffect
<1>1. /\ queue' = QueueAfter(queue, times)
      /\ executed' = executed \cup Executions(queue, times)
      /\ current' = ClockAfter(current, times)
      /\ tickRate' = tickRate
  BY DEF DispatchAt
<1>2. current' \in Time /\ tickRate' \in Rate
  BY <1>1, ClockAfterType DEF Typed
<1>3. queue \in SUBSET ScheduledCommand
  BY DEF Typed
<1>4. queue' \subseteq queue
  BY <1>1, <1>3, ExecutionsAreDue
<1>5. ASSUME NEW e \in executed' \ executed
      PROVE  /\ e.cmd \in queue \ queue'
             /\ e.at \in Time
             /\ \A c \in queue' : c.timestamp > e.at
  <2>1. e \in Executions(queue, times)
    BY <1>1
  <2> QED  BY <1>1, <1>3, <2>1, ExecutionsAreDue
<1>6. ASSUME NEW c \in queue \ queue'
      PROVE  \E e \in executed' : e.cmd = c
  BY <1>1, <1>3, ExecutionsAreDue
<1> QED  BY <1>1, <1>2, <1>4, <1>5, <1>6 DEF ClockEffect

LEMMA RunStepsEffect ==
  ASSUME Typed, NEW delta, NEW n, RunSteps(delta, n)
  PROVE  ClockEffect
BY DispatchEffect, CallTimes DEF RunSteps

LEMMA AdvanceEffect ==
  ASSUME Typed, NEW target \in Time, AdvanceTo(target)
  PROVE  ClockEffect
<1>1. {Forward(current, target)} \in SUBSET Time
  BY CallTimes DEF Typed
<1> QED  BY <1>1, DispatchEffect DEF AdvanceTo

LEMMA SetTickRateEffect ==
  ASSUME Typed, NEW r \in Rate, SetTickRate(r)
  PROVE  ClockEffect
BY DEF SetTickRate, ClockEffect, Typed

LEMMA NoEffect ==
  ASSUME Typed, UNCHANGED clock
  PROVE  ClockEffect
BY DEF clock, ClockEffect, Typed

LEMMA DoneMembers == \A c : c \in Done <=> \E e \in executed : c = e.cmd
BY DEF Done

LEMMA DoneAfter ==
  ASSUME ClockEffect
  PROVE  Done' = Done \cup (queue \ queue')
<1>1. \A c : c \in Done' <=> \E e \in executed' : c = e.cmd
  BY DEF Done
<1>2. ASSUME NEW c \in Done'
      PROVE  c \in Done \cup (queue \ queue')
  BY <1>1, <1>2, DoneMembers DEF ClockEffect
<1>3. ASSUME NEW c \in Done \cup (queue \ queue')
      PROVE  c \in Done'
  BY <1>1, <1>3, DoneMembers DEF ClockEffect
<1> QED  BY <1>2, <1>3

\* The numbers of the commands in the four places.
LEMMA Numbers ==
  ASSUME Typed
  PROVE  /\ InChannel \subseteq ScheduledCommand /\ InHand \subseteq ScheduledCommand
         /\ queue \subseteq ScheduledCommand /\ Done \subseteq ScheduledCommand
         /\ \A c \in InChannel \cup InHand \cup queue \cup Done :
              c.id \in Int /\ c.timestamp \in Int
         /\ \A e \in executed : e.cmd \in Done /\ e.at \in Int
         /\ nextId \in Int
<1>1. InChannel \subseteq ScheduledCommand /\ InHand \subseteq ScheduledCommand
  BY CommandsTyped DEF Typed, InChannel, InHand
<1>2. queue \subseteq ScheduledCommand /\ Done \subseteq ScheduledCommand
  BY DoneMembers DEF Typed
<1>3. \A e \in executed : e.cmd \in Done /\ e.at \in Int
  BY DoneMembers, MaxTimeAssumption DEF Typed, Time
<1>4. nextId \in Int
  BY DEF Typed
<1> QED  BY <1>1, <1>2, <1>3, <1>4, CommandNumbers

\* The clock moves, or nothing moves, and the forwarder's event, if it is
\* done with, was no command or dies with it.
LEMMA ClockEffectKeeps ==
  ASSUME IInv, ClockEffect, nextId' = nextId,
         channel' \in {channel, <<>>}, InHand' \subseteq InHand,
         forwarder' = "alive" =>
           forwarder = "alive" /\ InHand' = InHand /\ channel' = channel
  PROVE  Ordered' /\ Conserved' /\ PassedOverLate'
<1>1. InChannel' \subseteq InChannel /\ (channel' = channel => InChannel' = InChannel)
  BY CommandsOfNone DEF InChannel
<1>2. Done' = Done \cup (queue \ queue') /\ queue' \subseteq queue
  BY DoneAfter DEF ClockEffect
<1>3. Ordered'
  <2>1. /\ \A c \in InChannel' \cup InHand' \cup queue' \cup Done' : c.id < nextId'
        /\ \A c \in queue' \cup Done', d \in InChannel' \cup InHand' : c.id < d.id
        /\ \A c \in InHand', d \in InChannel' : c.id < d.id
        /\ \A c, d \in queue' : c.id = d.id => c = d
    BY <1>1, <1>2 DEF IInv, Ordered
  <2>2. \A c \in queue', d \in Done' : c.id # d.id
    BY <1>2 DEF IInv, Ordered
  <2>3. \A i, j \in DOMAIN channel' :
          /\ i < j
          /\ channel'[i].kind = "scheduled"
          /\ channel'[j].kind = "scheduled"
          => channel'[i].cmd.id < channel'[j].cmd.id
    BY DEF IInv, Ordered
  <2> QED  BY <2>1, <2>2, <2>3 DEF Ordered
<1>4. Conserved'
  BY <1>1, <1>2 DEF IInv, Conserved
<1>5. PassedOverLate'
  <2> SUFFICES ASSUME NEW e \in executed', NEW c \in queue' \cup InChannel' \cup InHand',
                      c.timestamp <= e.at
               PROVE  c.id > e.cmd.id
    BY DEF PassedOverLate
  <2>1. CASE e \in executed
    BY <1>1, <1>2, <2>1 DEF IInv, PassedOverLate
  <2>2. CASE e \notin executed
    <3>1. e.cmd \in queue /\ e.at \in Int /\ \A d \in queue' : d.timestamp > e.at
      BY <2>2, MaxTimeAssumption DEF ClockEffect, Time
    <3>2. c \notin queue'
      BY <1>2, <3>1, Numbers DEF IInv
    <3>3. c \in InChannel \cup InHand
      BY <1>1, <3>2
    <3> QED  BY <3>1, <3>3, Numbers DEF IInv, Ordered
  <2> QED  BY <2>1, <2>2
<1> QED  BY <1>3, <1>4, <1>5

\* A sequence of one event at most.
LEMMA HandIsOne ==
  ASSUME Typed, hand # <<>>
  PROVE  hand = <<Head(hand)>> /\ Head(hand) \in Events
<1>1. /\ hand \in Seq(Events) /\ Len(hand) \in Nat \ {0} /\ Len(hand) <= 1
      /\ Head(hand) = hand[1] /\ Head(hand) \in Events
      /\ DOMAIN hand = 1 .. Len(hand)
  BY CommandsTaken DEF Typed
<1>2. Len(hand) = 1
  BY <1>1
<1> QED  BY <1>1, <1>2

\* The command in hand joins the heap; it was the first in transit.
LEMMA EnqueueKeeps ==
  ASSUME IInv, NEW c, InHand = {c}, InHand' = {}, Enqueue(c),
         UNCHANGED <<channel, forwarder, nextId>>
  PROVE  Ordered' /\ Conserved' /\ PassedOverLate'
<1>1. queue' = queue \cup {c} /\ executed' = executed /\ Done' = Done
      /\ InChannel' = InChannel
  BY DEF Enqueue, Done, InChannel
<1>2. c \in InHand
  OBVIOUS
<1>3. Ordered'
  <2>1. /\ \A d \in InChannel \cup queue' \cup Done : d.id < nextId
        /\ \A b \in queue' \cup Done, d \in InChannel : b.id < d.id
    BY <1>1, <1>2 DEF IInv, Ordered
  <2>2. /\ \A b, d \in queue' : b.id = d.id => b = d
        /\ \A b \in queue', d \in Done : b.id # d.id
    <3>1. \A b \in queue \cup Done : b.id < c.id
      BY <1>2 DEF IInv, Ordered
    <3>2. \A b \in queue \cup Done : b.id # c.id
      BY <1>2, <3>1, Numbers DEF IInv
    <3> QED  BY <1>1, <3>2 DEF IInv, Ordered
  <2> QED  BY <1>1, <2>1, <2>2 DEF IInv, Ordered
<1>4. Conserved'
  BY <1>1, <1>2 DEF IInv, Conserved
<1>5. PassedOverLate'
  BY <1>1, <1>2 DEF IInv, PassedOverLate
<1> QED  BY <1>3, <1>4, <1>5

\* The forwarder's hand receives the first of the channel.
LEMMA TakeKeeps ==
  ASSUME IInv, ForwarderTakes
  PROVE  Ordered' /\ Conserved' /\ PassedOverLate'
<1>1. /\ hand = <<>> /\ channel # <<>> /\ channel \in Seq(Events)
      /\ hand' = <<Head(channel)>> /\ channel' = Tail(channel)
      /\ UNCHANGED <<queue, executed, forwarder, nextId>> /\ Done' = Done
  BY DEF ForwarderTakes, IInv, Typed, clock, Done
<1>2. /\ InHand = {} /\ InChannel = InHand' \cup InChannel'
      /\ InHand' = IF channel[1].kind = "scheduled" THEN {channel[1].cmd} ELSE {}
      /\ DOMAIN channel = 1 .. Len(channel) /\ DOMAIN channel' = 1 .. Len(channel) - 1
      /\ Len(channel) \in Nat \ {0}
      /\ \A i \in 1 .. Len(channel) - 1 : channel'[i] = channel[i + 1]
  BY <1>1, CommandsTaken, CommandsOfNone, CommandsOfOne DEF InHand, InChannel
<1>3. \A i, j \in DOMAIN channel' :
        /\ i < j
        /\ channel'[i].kind = "scheduled"
        /\ channel'[j].kind = "scheduled"
        => channel'[i].cmd.id < channel'[j].cmd.id
  <2> SUFFICES ASSUME NEW i \in DOMAIN channel', NEW j \in DOMAIN channel', i < j,
                      channel'[i].kind = "scheduled", channel'[j].kind = "scheduled"
               PROVE  channel'[i].cmd.id < channel'[j].cmd.id
    OBVIOUS
  <2>1. /\ i + 1 \in DOMAIN channel /\ j + 1 \in DOMAIN channel /\ i + 1 < j + 1
        /\ channel'[i] = channel[i + 1] /\ channel'[j] = channel[j + 1]
    BY <1>2
  <2> QED  BY <2>1 DEF IInv, Ordered
<1>4. \A c \in InHand', d \in InChannel' : c.id < d.id
  <2> SUFFICES ASSUME NEW c \in InHand', NEW d \in InChannel'
               PROVE  c.id < d.id
    OBVIOUS
  <2>1. channel[1].kind = "scheduled" /\ c = channel[1].cmd
    BY <1>2
  <2>2. PICK i \in DOMAIN channel' :
               channel'[i].kind = "scheduled" /\ d = channel'[i].cmd
    BY CommandsMembers DEF InChannel
  <2>3. /\ 1 \in DOMAIN channel /\ i + 1 \in DOMAIN channel /\ 1 < i + 1
        /\ channel'[i] = channel[i + 1]
    BY <1>2, <2>2
  <2> QED  BY <2>1, <2>2, <2>3 DEF IInv, Ordered
<1>5. Ordered'
  BY <1>1, <1>2, <1>3, <1>4 DEF IInv, Ordered
<1>6. Conserved'
  BY <1>1, <1>2 DEF IInv, Conserved
<1>7. PassedOverLate'
  BY <1>1, <1>2 DEF IInv, PassedOverLate
<1> QED  BY <1>5, <1>6, <1>7

\* An event joins the channel: a request, or the command with the next number.
LEMMA AppendKeeps ==
  ASSUME IInv, NEW e \in Events, channel' = Append(channel, e),
         UNCHANGED <<clock, hand, forwarder>>,
         IF e.kind = "scheduled" THEN e.cmd.id = nextId /\ nextId' = nextId + 1
                                 ELSE nextId' = nextId
  PROVE  Ordered' /\ Conserved' /\ PassedOverLate'
<1> DEFINE n == Len(channel) + 1
<1>1. /\ channel \in Seq(Events)
      /\ UNCHANGED <<queue, executed>> /\ Done' = Done /\ InHand' = InHand
  BY DEF IInv, Typed, clock, Done, InHand
<1>2. InChannel' = InChannel \cup (IF e.kind = "scheduled" THEN {e.cmd} ELSE {})
  BY <1>1, CommandsAppended, CommandsOfOne DEF InChannel
<1>3. /\ DOMAIN channel = 1 .. n - 1 /\ DOMAIN channel' = 1 .. n /\ n \in Nat \ {0}
      /\ \A i \in 1 .. n - 1 : channel'[i] = channel[i]
      /\ channel'[n] = e
  BY <1>1, AppendProperties, LenProperties
<1> HIDE DEF n
<1>4. /\ \A c \in InChannel \cup InHand \cup queue \cup Done :
           c.id < nextId /\ c.id \in Int /\ c.timestamp \in Int
      /\ nextId \in Int
      /\ \A x \in executed : x.cmd \in Done
  BY Numbers DEF IInv, Ordered
<1>5. \A i, j \in DOMAIN channel' :
        /\ i < j
        /\ channel'[i].kind = "scheduled"
        /\ channel'[j].kind = "scheduled"
        => channel'[i].cmd.id < channel'[j].cmd.id
  <2> SUFFICES ASSUME NEW i \in DOMAIN channel', NEW j \in DOMAIN channel', i < j,
                      channel'[i].kind = "scheduled", channel'[j].kind = "scheduled"
               PROVE  channel'[i].cmd.id < channel'[j].cmd.id
    OBVIOUS
  <2>1. i \in DOMAIN channel /\ channel'[i] = channel[i]
    BY <1>3
  <2>2. channel[i].cmd \in InChannel
    BY <2>1, CommandsMembers DEF InChannel
  <2>3. CASE j = n
    BY <1>3, <1>4, <2>1, <2>2, <2>3
  <2>4. CASE j # n
    <3>1. j \in DOMAIN channel /\ channel'[j] = channel[j]
      BY <1>3, <2>4
    <3> QED  BY <2>1, <3>1 DEF IInv, Ordered
  <2> QED  BY <2>3, <2>4
<1>6. CASE e.kind = "scheduled"
  <2>1. /\ \A c \in InChannel' \cup InHand' \cup queue' \cup Done' : c.id < nextId'
        /\ \A c \in queue' \cup Done', d \in InChannel' \cup InHand' : c.id < d.id
        /\ \A c \in InHand', d \in InChannel' : c.id < d.id
    BY <1>1, <1>2, <1>4, <1>6 DEF IInv, Ordered
  <2>2. Ordered'
    BY <1>1, <1>5, <2>1 DEF IInv, Ordered
  <2>3. Conserved'
    <3> SUFFICES ASSUME forwarder = "alive", NEW id \in 1 .. nextId
                 PROVE  \E c \in InChannel' \cup InHand' \cup queue' \cup Done' : c.id = id
      BY <1>4, <1>6 DEF Conserved
    <3>1. CASE id = nextId
      BY <1>2, <1>6, <3>1
    <3>2. CASE id # nextId
      <4>1. id \in 1 .. nextId - 1
        BY <1>4, <3>2
      <4> QED  BY <1>1, <1>2, <4>1 DEF IInv, Conserved
    <3> QED  BY <3>1, <3>2
  <2>4. PassedOverLate'
    BY <1>1, <1>2, <1>4, <1>6 DEF IInv, PassedOverLate
  <2> QED  BY <2>2, <2>3, <2>4
<1>7. CASE e.kind # "scheduled"
  BY <1>1, <1>2, <1>5, <1>7 DEF IInv, Ordered, Conserved, PassedOverLate
<1> QED  BY <1>6, <1>7

-----------------------------------------------------------------------------
(* Types *)

\* What is known of the dispatcher after a step.
DispatcherTyped ==
  /\ current \in Time
  /\ tickRate \in Rate
  /\ queue \subseteq ScheduledCommand
  /\ \A e \in executed : e.cmd \in ScheduledCommand /\ e.at \in Time

LEMMA EffectTyped ==
  ASSUME Typed, ClockEffect
  PROVE  DispatcherTyped'
BY DEF Typed, ClockEffect, DispatcherTyped

\* The forwarder's event, applied.
LEMMA ApplyEffect ==
  ASSUME Typed, NEW event \in PipeRequests, Applies(event)
  PROVE  ClockEffect
<1>1. /\ event.kind # "scheduled"
      /\ event.kind = "advance" => event.n \in Time
      /\ event.kind = "rate" => event.n \in Rate
  BY LocalClientAssumption DEF RequestKinds
<1> QED
  BY <1>1, RunStepsEffect, AdvanceEffect, SetTickRateEffect DEF Applies

LEMMA ApplyCommand ==
  ASSUME NEW event \in Scheduled, Applies(event)
  PROVE  Enqueue(event.cmd) /\ ~Panics(event) /\ event.cmd \in ScheduledCommand
BY DEF Applies, Panics, Scheduled, ClockKinds

\* What a command needs to enter the channel.
LEMMA SendTyped ==
  ASSUME Typed, NEW t \in Time, NEW p \in Payload, SendCommand(t, p)
  PROVE  \E e \in Scheduled :
           /\ e.kind = "scheduled" /\ e.cmd.id = nextId
           /\ channel' = Append(channel, e)
           /\ channel' \in Seq(Events) /\ Len(channel') <= ChannelCap
           /\ nextId' = nextId + 1
<1> DEFINE cmd == [timestamp |-> t, command |-> p, id |-> nextId,
                   accepted |-> current]
           e == [kind |-> "scheduled", cmd |-> cmd]
<1>1. cmd \in ScheduledCommand /\ cmd.id = nextId
  BY DEF Typed, ScheduledCommand
<1> HIDE DEF cmd
<1>2. e \in Scheduled /\ e.kind = "scheduled" /\ e.cmd.id = nextId
  BY <1>1 DEF Scheduled
<1>3. channel' = Append(channel, e) /\ nextId' = nextId + 1 /\ Len(channel) < ChannelCap
  BY DEF SendCommand, cmd
<1> HIDE DEF e
<1>4. channel' \in Seq(Events) /\ Len(channel') <= ChannelCap
  BY <1>2, <1>3, AppendProperties, LenProperties, LocalClientAssumption DEF Typed, Events
<1> QED  BY <1>2, <1>3, <1>4

LEMMA SendingIsOne ==
  ASSUME Typed, sending # <<>>
  PROVE  Head(sending) \in [timestamp : Time, command : Payload]
BY HeadTailProperties DEF Typed

-----------------------------------------------------------------------------
(* One lemma per kind of action *)

\* The parts of the invariant that are not about commands.
Rest == Typed /\ LateTicksInv /\ ForwarderInv

LEMMA InitIInv == Init => IInv
<1> SUFFICES ASSUME Init  PROVE IInv
  OBVIOUS
<1>1. InChannel = {} /\ InHand = {} /\ Done = {} /\ queue = {}
  BY CommandsOfNone, DoneMembers DEF Init, InChannel, InHand
<1>2. Typed
  <2>1. /\ channel \in Seq(Events) /\ hand \in Seq(Events)
        /\ sending \in Seq([timestamp : Time, command : Payload])
        /\ Len(channel) = 0 /\ Len(hand) = 0 /\ Len(sending) = 0
    BY DEF Init
  <2>2. current \in Time /\ nextId \in 1 .. MaxCommands + 2 /\ 0 <= ChannelCap
    BY LocalClientAssumption, MaxTimeAssumption DEF Init, Time
  <2>3. /\ ticking \in BOOLEAN /\ wanted \in BOOLEAN /\ running \in BOOLEAN
        /\ tickRate \in Rate /\ interval \in Intervals
        /\ ticker \in {"spawned", "waiting", "locking", "dead"}
        /\ forwarder \in {"alive", "dead"}
        /\ queue \subseteq ScheduledCommand
    BY DEF Init
  <2>4. \A e \in executed : e.cmd \in ScheduledCommand /\ e.at \in Time
    BY DEF Init
  <2>5. lateTicks \in Nat /\ (sending # <<>> => nextId <= MaxCommands + 1)
    BY DEF Init
  <2>6. Len(channel) <= ChannelCap /\ Len(hand) <= 1 /\ Len(sending) <= 1
    BY <2>1, <2>2
  <2> QED  BY <2>1, <2>2, <2>3, <2>4, <2>5, <2>6 DEF Typed
<1>3. LateTicksInv /\ ForwarderInv /\ PassedOverLate /\ Conserved
  BY <1>1 DEF Init, LateTicksInv, ForwarderInv, PassedOverLate, Conserved
<1>4. Ordered
  BY <1>1 DEF Init, Ordered
<1> QED  BY <1>2, <1>3, <1>4 DEF IInv

\* The dispatcher changes, at most, and the tasks that do not hold a command.
LEMMA ClockStep ==
  ASSUME IInv, ClockEffect, UNCHANGED <<transport, nextId>>, Typed', LateTicksInv'
  PROVE  IInv'
<1>1. InHand' = InHand /\ UNCHANGED <<channel, hand, forwarder>>
  BY DEF transport, InHand
<1>2. Ordered' /\ Conserved' /\ PassedOverLate'
  BY <1>1, ClockEffectKeeps
<1> QED  BY <1>1, <1>2 DEF IInv, ForwarderInv

LEMMA SendTickingTyped ==
  ASSUME Typed, NEW on \in BOOLEAN, SendTicking(on)
  PROVE  ticking' \in BOOLEAN /\ lateTicks' \in Nat
BY DEF Typed, SendTicking

LEMMA ReplSteps ==
  ASSUME IInv,
         \/ \E t \in Time, p \in Payload : ReplEnqueue(t, p)
         \/ ReplSendFails
         \/ \E on \in BOOLEAN : ReplTicking(on)
         \/ ReplQuit
  PROVE  IInv'
<1> USE DEF IInv
<1>1. UNCHANGED <<clock, transport, nextId>>
  BY DEF ReplEnqueue, ReplSendFails, ReplTicking, ReplQuit
<1>2. ClockEffect
  BY <1>1, NoEffect
<1>3. LateTicksInv'
  BY DEF ReplEnqueue, ReplSendFails, ReplTicking, ReplQuit, SendTicking, tickLoop,
         LateTicksInv
<1>4. Typed'
  <2>1. ASSUME NEW t \in Time, NEW p \in Payload, ReplEnqueue(t, p)
        PROVE  Typed'
    <3> DEFINE cmd == [timestamp |-> t, command |-> p]
    <3>1. cmd \in [timestamp : Time, command : Payload] /\ sending' = <<cmd>>
      BY <2>1 DEF ReplEnqueue
    <3> HIDE DEF cmd
    <3>2. sending' \in Seq([timestamp : Time, command : Payload])
          /\ Len(sending') <= 1 /\ nextId <= MaxCommands
      BY <2>1, <3>1 DEF ReplEnqueue
    <3> QED
      BY <2>1, <3>2, LocalClientAssumption
         DEF ReplEnqueue, Typed, clock, tickLoop, transport
  <2>2. CASE ReplSendFails
    BY <2>2 DEF ReplSendFails, Typed, clock, tickLoop, transport
  <2>3. CASE \E on \in BOOLEAN : ReplTicking(on)
    BY <2>3 DEF ReplTicking, SendTicking, Typed, clock, transport
  <2>4. CASE ReplQuit
    BY <2>4 DEF ReplQuit, Typed, clock, tickLoop, transport
  <2> QED  BY <2>1, <2>2, <2>3, <2>4
<1> QED  BY <1>1, <1>2, <1>3, <1>4, ClockStep

\* The REPL's clock commands, under the lock.
LEMMA ReplClockSteps ==
  ASSUME IInv,
         \/ ReplRun(tickRate, 1)
         \/ \E delta \in Time : ReplRun(delta, 1)
         \/ \E n \in 0 .. MaxRun : ReplRun(tickRate, n)
         \/ \E target \in Time : ReplAdvance(target)
         \/ \E r \in Rate : ReplSetRate(r)
  PROVE  IInv'
<1> USE DEF IInv
<1>1. ClockEffect
  BY RunStepsEffect, AdvanceEffect, SetTickRateEffect
     DEF ReplRun, ReplAdvance, ReplSetRate
<1>2. UNCHANGED <<tickLoop, transport, sending, nextId>> /\ running' \in BOOLEAN
  BY DEF ReplRun, ReplAdvance, ReplSetRate, Typed
<1>3. LateTicksInv'
  BY <1>2 DEF LateTicksInv, tickLoop
<1>4. Typed'
  BY <1>1, <1>2, EffectTyped DEF DispatcherTyped, Typed, tickLoop, transport
<1> QED  BY <1>1, <1>2, <1>3, <1>4, ClockStep

LEMMA TickLoopSteps ==
  ASSUME IInv, TickerStarts \/ TimerFires \/ IntervalTick
  PROVE  IInv'
<1> USE DEF IInv
<1>1. ClockEffect
  <2>1. CASE TickerStarts \/ TimerFires
    BY <2>1, NoEffect DEF TickerStarts, TimerFires
  <2>2. CASE IntervalTick
    BY <2>2, RunStepsEffect DEF IntervalTick
  <2> QED  BY <2>1, <2>2
<1>2. UNCHANGED <<wanted, ticking, interval, transport, sending, running, nextId>>
  BY DEF TickerStarts, TimerFires, IntervalTick
<1>3. /\ ticker' \in {"spawned", "waiting", "locking", "dead"}
      /\ lateTicks' \in Nat
  BY DEF TickerStarts, TimerFires, IntervalTick, Typed
<1>4. LateTicksInv'
  BY DEF TickerStarts, TimerFires, IntervalTick, LateTicksInv, Typed
<1>5. Typed'
  BY <1>1, <1>2, <1>3, EffectTyped DEF DispatcherTyped, Typed, transport
<1> QED  BY <1>1, <1>2, <1>4, <1>5, ClockStep

\* Commands that enter the channel, from the REPL or a pipe client.
LEMMA SendSteps ==
  ASSUME IInv, ReplSends \/ \E t \in Time, p \in Payload : PipeSchedules(t, p)
  PROVE  IInv'
<1> USE DEF IInv
<1>1. \E t \in Time, p \in Payload : SendCommand(t, p)
  BY SendingIsOne DEF ReplSends, PipeSchedules
<1>2. PICK e \in Scheduled :
             /\ e.kind = "scheduled" /\ e.cmd.id = nextId
             /\ channel' = Append(channel, e)
             /\ channel' \in Seq(Events) /\ Len(channel') <= ChannelCap
             /\ nextId' = nextId + 1
  BY <1>1, SendTyped
<1>3. UNCHANGED <<clock, tickLoop, hand, forwarder, running>>
  BY DEF ReplSends, PipeSchedules
<1>4. Ordered' /\ Conserved' /\ PassedOverLate'
  BY <1>2, <1>3, AppendKeeps DEF Events
<1>5. LateTicksInv' /\ ForwarderInv'
  BY <1>3 DEF LateTicksInv, ForwarderInv, tickLoop
<1>6. /\ nextId' \in 1 .. MaxCommands + 2
      /\ sending' \in Seq([timestamp : Time, command : Payload])
      /\ Len(sending') <= 1
      /\ sending' # <<>> => nextId' <= MaxCommands + 1
  <2>1. CASE ReplSends
    <3>1. nextId <= MaxCommands + 1 /\ sending' = <<>>
      BY <2>1 DEF ReplSends, Typed
    <3> QED  BY <1>2, <3>1, LocalClientAssumption DEF Typed
  <2>2. CASE \E t \in Time, p \in Payload : PipeSchedules(t, p)
    <3>1. nextId <= MaxCommands /\ sending' = sending
      BY <2>2 DEF PipeSchedules
    <3> QED  BY <1>2, <3>1, LocalClientAssumption DEF Typed
  <2> QED  BY <2>1, <2>2
<1>7. Typed'
  BY <1>2, <1>3, <1>6 DEF Typed, clock, tickLoop
<1> QED  BY <1>4, <1>5, <1>7

LEMMA PipeRequestStep ==
  ASSUME IInv, NEW event \in PipeRequests, PipeRequest(event)
  PROVE  IInv'
<1> USE DEF IInv
<1>1. event \in Events /\ event.kind # "scheduled"
  BY LocalClientAssumption DEF Events, RequestKinds
<1>2. /\ channel' = Append(channel, event)
      /\ UNCHANGED <<clock, ticking, ticker, interval, lateTicks,
                     hand, forwarder, sending, running, nextId>>
      /\ wanted' \in BOOLEAN
  BY DEF PipeRequest, Typed
<1>3. Ordered' /\ Conserved' /\ PassedOverLate'
  BY <1>1, <1>2, AppendKeeps
<1>4. LateTicksInv' /\ ForwarderInv'
  BY <1>2 DEF LateTicksInv, ForwarderInv
<1>5. channel' \in Seq(Events) /\ Len(channel') <= ChannelCap
  BY <1>1, <1>2, AppendProperties, LenProperties, LocalClientAssumption
     DEF PipeRequest, Typed
<1>6. Typed'
  BY <1>2, <1>5 DEF Typed, clock
<1> QED  BY <1>3, <1>4, <1>6

LEMMA ForwarderTakesStep ==
  ASSUME IInv, ForwarderTakes
  PROVE  IInv'
<1> USE DEF IInv
<1>1. Ordered' /\ Conserved' /\ PassedOverLate'
  BY TakeKeeps
<1>2. LateTicksInv' /\ ForwarderInv'
  BY DEF ForwarderTakes, LateTicksInv, ForwarderInv, tickLoop
<1>3. /\ Head(channel) \in Events /\ Tail(channel) \in Seq(Events)
      /\ Len(Tail(channel)) <= ChannelCap
  BY HeadTailProperties, LenProperties, LocalClientAssumption DEF ForwarderTakes, Typed
<1>4. hand' \in Seq(Events) /\ Len(hand') <= 1 /\ channel' = Tail(channel)
  BY <1>3 DEF ForwarderTakes
<1>5. Typed'
  BY <1>3, <1>4 DEF ForwarderTakes, Typed, clock, tickLoop
<1> QED  BY <1>1, <1>2, <1>5

\* A command reaches the heap, or a request the dispatcher, which may kill the
\* forwarder and all that is in its channel.
LEMMA ForwarderAppliesStep ==
  ASSUME IInv, ForwarderApplies
  PROVE  IInv'
<1> USE DEF IInv
<1> DEFINE e == Head(hand)
<1>1. hand = <<e>> /\ e \in Events /\ hand' = <<>> /\ Applies(e)
      /\ UNCHANGED <<tickLoop, sending, running, nextId>>
      /\ IF Panics(e) THEN forwarder' = "dead" /\ channel' = <<>>
                      ELSE UNCHANGED <<forwarder, channel>>
  BY HandIsOne DEF ForwarderApplies
<1> HIDE DEF e
<1>2. InHand' = {} /\ InHand = IF e.kind = "scheduled" THEN {e.cmd} ELSE {}
  BY <1>1, CommandsOfNone, CommandsOfOne DEF InHand
<1>3. LateTicksInv' /\ ForwarderInv'
  BY <1>1 DEF LateTicksInv, ForwarderInv, tickLoop
<1>4. /\ hand' \in Seq(Events) /\ Len(hand') <= 1
      /\ channel' \in Seq(Events) /\ Len(channel') <= ChannelCap
      /\ forwarder' \in {"alive", "dead"}
  <2>1. CASE Panics(e)
    BY <1>1, <2>1, LocalClientAssumption DEF Typed
  <2>2. CASE ~Panics(e)
    BY <1>1, <2>2, LocalClientAssumption DEF Typed
  <2> QED  BY <2>1, <2>2
<1>5. DispatcherTyped' => Typed'
  BY <1>1, <1>4 DEF DispatcherTyped, Typed, tickLoop
<1>6. CASE e.kind = "scheduled"
  <2>1. e \in Scheduled
    BY <1>1, <1>6, RequestsAreNotScheduled
  <2>2. Enqueue(e.cmd) /\ ~Panics(e) /\ e.cmd \in ScheduledCommand
    BY <1>1, <2>1, ApplyCommand
  <2>3. Ordered' /\ Conserved' /\ PassedOverLate'
    BY <1>1, <1>2, <1>6, <2>2, EnqueueKeeps
  <2>4. DispatcherTyped'
    BY <2>2 DEF Enqueue, DispatcherTyped, Typed
  <2> QED  BY <1>3, <1>5, <2>3, <2>4
<1>7. CASE e.kind # "scheduled"
  <2>1. e \in PipeRequests
    BY <1>1, <1>7, RequestsAreNotScheduled
  <2>2. ClockEffect
    BY <1>1, <2>1, ApplyEffect
  <2>3. Ordered' /\ Conserved' /\ PassedOverLate'
    BY <1>1, <1>2, <1>7, <2>2, ClockEffectKeeps
  <2> QED  BY <1>3, <1>5, <2>2, <2>3, EffectTyped
<1> QED  BY <1>6, <1>7

LEMMA ForwarderSetsTickingStep ==
  ASSUME IInv, ForwarderSetsTicking
  PROVE  IInv'
<1> USE DEF IInv
<1>1. /\ hand # <<>> /\ Head(hand).kind # "scheduled" /\ hand' = <<>>
      /\ UNCHANGED <<clock, channel, forwarder, sending, running, nextId>>
  BY DEF ForwarderSetsTicking, IsWish
<1>2. InHand' = {} /\ InHand = {}
  <2>1. hand = <<Head(hand)>>
    BY <1>1, HandIsOne
  <2>2. CommandsIn(<<Head(hand)>>) = {}
    BY <1>1, CommandsOfOne
  <2> QED  BY <1>1, <2>1, <2>2, CommandsOfNone DEF InHand
<1>3. ClockEffect
  BY <1>1, NoEffect
<1>4. Ordered' /\ Conserved' /\ PassedOverLate'
  BY <1>1, <1>2, <1>3, ClockEffectKeeps
<1>5. LateTicksInv' /\ ForwarderInv'
  BY DEF ForwarderSetsTicking, SendTicking, LateTicksInv, ForwarderInv
<1>6. ticking' \in BOOLEAN /\ wanted' \in BOOLEAN /\ lateTicks' \in Nat
  BY SendTickingTyped DEF ForwarderSetsTicking, IsWish, Typed
<1>7. UNCHANGED <<ticker, interval>>
  BY DEF ForwarderSetsTicking, SendTicking
<1>8. Typed'
  BY <1>1, <1>6, <1>7 DEF Typed, clock
<1> QED  BY <1>4, <1>5, <1>8

LEMMA NextIInv == IInv /\ [Next]_vars => IInv'
<1> SUFFICES ASSUME IInv, [Next]_vars  PROVE IInv'
  OBVIOUS
<1>1. CASE UNCHANGED vars
  <2>1. /\ UNCHANGED <<clock, tickLoop, transport, sending, running, nextId>>
        /\ ClockEffect
    BY <1>1, NoEffect DEF vars, IInv
  <2>2. Typed' /\ LateTicksInv'
    BY <2>1 DEF IInv, Typed, LateTicksInv, clock, tickLoop, transport
  <2> QED  BY <2>1, <2>2, ClockStep
<1> QED
  BY <1>1, ReplSteps, ReplClockSteps, TickLoopSteps, SendSteps, PipeRequestStep,
     ForwarderTakesStep, ForwarderAppliesStep, ForwarderSetsTickingStep
     DEF Next, Ended

-----------------------------------------------------------------------------
(* The theorems *)

LEMMA Invariant == Spec => []IInv
BY InitIInv, NextIInv, PTL DEF Spec

LEMMA TypeOKFollows == IInv => TypeOK
<1> SUFFICES ASSUME IInv  PROVE TypeOK
  OBVIOUS
<1>1. InTransit \subseteq ScheduledCommand /\ Done \subseteq ScheduledCommand
  BY Numbers DEF IInv, InTransit, InChannel, InHand
<1> QED  BY <1>1 DEF IInv, Typed, TypeOK

\* Whatever the three tasks and the pipe clients do, every variable has its
\* type: the channel keeps its capacity, the clock stays in u64 and the tick
\* rate above zero.
THEOREM ClientTypeCorrect == Spec => []TypeOK
BY Invariant, TypeOKFollows, PTL

\* After stop one more interval tick may come and no second one, whatever was
\* started and stopped while the tick loop waited for the lock.
THEOREM OneLateTick == Spec => []AtMostOneLateTick
<1>1. IInv => AtMostOneLateTick
  BY DEF IInv, LateTicksInv, AtMostOneLateTick
<1> QED  BY <1>1, Invariant, PTL

\* The wishes under way, as LastWishDecides reads them.
LEMMA WishesUnderWay ==
  LastWishDecides <=>
    (forwarder = "alive" =>
       /\ \A i \in DOMAIN Transit :
            IsWish(Transit[i])
            /\ (\A j \in DOMAIN Transit : IsWish(Transit[j]) => j <= i)
              => wanted = (Transit[i].kind = "start")
       /\ (\A i \in DOMAIN Transit : ~IsWish(Transit[i]))
            => ticking = wanted \/ ticker = "dead")
BY DEF LastWishDecides

\* Neither the wishes under way nor the flag change.
LEMMA WishesKept ==
  ASSUME LastWishDecides, Transit' = Transit, UNCHANGED <<ticking, wanted>>,
         ticker = "dead" => ticker' = "dead",
         forwarder' = "alive" => forwarder = "alive"
  PROVE  LastWishDecides'
BY DEF LastWishDecides

\* An event joins those under way; when it is a wish it is now the last.
LEMMA WishesAppended ==
  ASSUME IInv, LastWishDecides, NEW e \in Events, channel' = Append(channel, e),
         UNCHANGED <<hand, forwarder, ticking, ticker>>,
         wanted' = IF IsWish(e) THEN e.kind = "start" ELSE wanted
  PROVE  LastWishDecides'
<1> DEFINE n == Len(Transit) + 1
           s == Transit
           t == Transit'
<1>1. /\ DOMAIN s = 1 .. n - 1 /\ DOMAIN t = 1 .. n /\ n \in Nat \ {0}
      /\ \A i \in 1 .. n - 1 : t[i] = s[i]
      /\ t[n] = e
  BY ConcatProperties, AppendProperties, LenProperties DEF IInv, Typed, Transit
<1> HIDE DEF n, s, t
<1>2. SUFFICES ASSUME forwarder = "alive"
               PROVE  /\ \A i \in DOMAIN t :
                           IsWish(t[i]) /\ (\A j \in DOMAIN t : IsWish(t[j]) => j <= i)
                             => wanted' = (t[i].kind = "start")
                      /\ (\A i \in DOMAIN t : ~IsWish(t[i]))
                           => ticking' = wanted' \/ ticker' = "dead"
  BY WishesUnderWay DEF t, LastWishDecides
<1>3. /\ \A i \in DOMAIN s :
           IsWish(s[i]) /\ (\A j \in DOMAIN s : IsWish(s[j]) => j <= i)
             => wanted = (s[i].kind = "start")
      /\ (\A i \in DOMAIN s : ~IsWish(s[i])) => ticking = wanted \/ ticker = "dead"
  BY <1>2, WishesUnderWay DEF s
<1>4. CASE IsWish(e)
  <2>1. ASSUME NEW i \in DOMAIN t, \A j \in DOMAIN t : IsWish(t[j]) => j <= i
        PROVE  i = n
    BY <1>1, <1>4, <2>1
  <2>2. ~(\A i \in DOMAIN t : ~IsWish(t[i]))
    BY <1>1, <1>4
  <2> QED  BY <1>1, <1>4, <2>1, <2>2
<1>5. CASE ~IsWish(e)
  <2>1. \A i \in DOMAIN t : IsWish(t[i]) => i \in DOMAIN s /\ t[i] = s[i]
    BY <1>1, <1>5
  <2>2. \A i \in DOMAIN s : i \in DOMAIN t /\ t[i] = s[i]
    BY <1>1
  <2> QED  BY <1>3, <1>5, <2>1, <2>2
<1> QED  BY <1>4, <1>5

\* The forwarder is done with the oldest event under way.
LEMMA WishesShifted ==
  ASSUME IInv, hand # <<>>, hand' = <<>>, channel' = channel
  PROVE  LET h == Head(hand)
             n == Len(Transit)
         IN  /\ DOMAIN Transit = 1 .. n /\ DOMAIN Transit' = 1 .. n - 1
             /\ n \in Nat \ {0} /\ Transit[1] = h
             /\ \A i \in 1 .. n - 1 : Transit'[i] = Transit[i + 1]
<1>1. hand = <<Head(hand)>> /\ Head(hand) \in Events /\ channel \in Seq(Events)
  BY HandIsOne DEF IInv, Typed
<1>2. Transit' = channel
  <2>1. Transit' = <<>> \o channel
    BY DEF Transit
  <2> QED  BY <1>1, <2>1
<1> DEFINE h == Head(hand)
<1>3. Transit = <<h>> \o channel
  BY <1>1 DEF Transit
<1> HIDE DEF h
<1> QED  BY <1>1, <1>2, <1>3, ConcatProperties, LenProperties DEF h

LEMMA ForwarderWishes ==
  ASSUME IInv, LastWishDecides, hand # <<>>, hand' = <<>>,
         UNCHANGED <<channel, forwarder, wanted, ticker>>,
         IF IsWish(Head(hand)) THEN SendTicking(Head(hand).kind = "start")
                               ELSE ticking' = ticking
  PROVE  LastWishDecides'
<1> DEFINE h == Head(hand)
           n == Len(Transit)
           s == Transit
           t == Transit'
<1>1. /\ DOMAIN s = 1 .. n /\ DOMAIN t = 1 .. n - 1 /\ n \in Nat \ {0}
      /\ s[1] = h
      /\ \A i \in 1 .. n - 1 : t[i] = s[i + 1]
  BY WishesShifted
<1>2. /\ IsWish(h) => ticking' = (h.kind = "start") \/ ticker = "dead"
      /\ ~IsWish(h) => ticking' = ticking
  BY DEF SendTicking
<1> HIDE DEF h, n, s, t
<1>3. SUFFICES ASSUME forwarder = "alive"
               PROVE  /\ \A i \in DOMAIN t :
                           IsWish(t[i]) /\ (\A j \in DOMAIN t : IsWish(t[j]) => j <= i)
                             => wanted' = (t[i].kind = "start")
                      /\ (\A i \in DOMAIN t : ~IsWish(t[i]))
                           => ticking' = wanted' \/ ticker' = "dead"
  BY WishesUnderWay DEF t, LastWishDecides
<1>4. /\ \A i \in DOMAIN s :
           IsWish(s[i]) /\ (\A j \in DOMAIN s : IsWish(s[j]) => j <= i)
             => wanted = (s[i].kind = "start")
      /\ (\A i \in DOMAIN s : ~IsWish(s[i])) => ticking = wanted \/ ticker = "dead"
  BY <1>3, WishesUnderWay DEF s
<1>5. ASSUME NEW i \in DOMAIN t, IsWish(t[i]),
             \A j \in DOMAIN t : IsWish(t[j]) => j <= i
      PROVE  wanted = (t[i].kind = "start")
  <2>1. i + 1 \in DOMAIN s /\ t[i] = s[i + 1] /\ i \in 1 .. n - 1
    BY <1>1
  <2>2. ASSUME NEW j \in DOMAIN s, IsWish(s[j])
        PROVE  j <= i + 1
    <3>1. CASE j = 1
      BY <2>1, <3>1
    <3>2. CASE j # 1
      <4>1. j - 1 \in DOMAIN t /\ t[j - 1] = s[j]
        BY <1>1, <3>2
      <4>2. j - 1 <= i
        BY <1>5, <2>2, <4>1
      <4> QED  BY <1>1, <2>1, <4>2
    <3> QED  BY <3>1, <3>2
  <2> QED  BY <1>4, <1>5, <2>1, <2>2
<1>6. ASSUME \A i \in DOMAIN t : ~IsWish(t[i])
      PROVE  ticking' = wanted \/ ticker = "dead"
  <2>1. ASSUME NEW j \in DOMAIN s, IsWish(s[j])
        PROVE  j = 1
    <3> SUFFICES ASSUME j # 1  PROVE FALSE
      OBVIOUS
    <3>1. j - 1 \in DOMAIN t /\ t[j - 1] = s[j]
      BY <1>1
    <3> QED  BY <1>6, <2>1, <3>1
  <2>2. CASE IsWish(h)
    <3>1. 1 \in DOMAIN s /\ IsWish(s[1])
      BY <1>1, <2>2
    <3>2. \A j \in DOMAIN s : IsWish(s[j]) => j <= 1
      BY <2>1
    <3>3. wanted = (h.kind = "start")
      BY <1>1, <1>4, <3>1, <3>2
    <3> QED  BY <1>2, <2>2, <3>3
  <2>3. CASE ~IsWish(h)
    <3>1. \A j \in DOMAIN s : ~IsWish(s[j])
      BY <1>1, <2>1, <2>3
    <3> QED  BY <1>2, <1>4, <2>3, <3>1
  <2> QED  BY <2>2, <2>3
<1> QED  BY <1>5, <1>6

\* The last wish decides: it reaches the flag after all that were asked for
\* before it, through channel and forwarder, and nothing else sets the flag.
THEOREM LastWishObeyed == Spec => []LastWishDecides
<1>1. Init => LastWishDecides
  <2> SUFFICES ASSUME Init  PROVE LastWishDecides
    OBVIOUS
  <2>1. Transit = <<>> \o <<>> /\ ticking = wanted
    BY DEF Init, Transit
  <2>2. DOMAIN Transit = {}
    BY <2>1
  <2> QED  BY <2>1, <2>2 DEF LastWishDecides
<1>2. IInv /\ LastWishDecides /\ [Next]_vars => LastWishDecides'
  <2> SUFFICES ASSUME IInv, LastWishDecides, [Next]_vars  PROVE LastWishDecides'
    OBVIOUS
  <2>1. CASE UNCHANGED <<transport, ticking, wanted>>
             /\ (ticker = "dead" => ticker' = "dead")
    <3>1. Transit' = Transit /\ forwarder' = forwarder
      BY <2>1 DEF transport, Transit
    <3> QED  BY <2>1, <3>1, WishesKept
  <2>2. ASSUME NEW on \in BOOLEAN, ReplTicking(on)
        PROVE  LastWishDecides'
    <3>1. Transit' = Transit /\ UNCHANGED <<forwarder, ticker>>
      BY <2>2 DEF ReplTicking, SendTicking, transport, Transit
    <3>2. /\ wanted' = IF \E i \in DOMAIN Transit : IsWish(Transit[i]) THEN wanted ELSE on
          /\ ticking' = on \/ ticker = "dead"
      BY <2>2 DEF ReplTicking, SendTicking
    <3> QED  BY <3>1, <3>2 DEF LastWishDecides
  <2>3. CASE ReplSends \/ \E t \in Time, p \in Payload : PipeSchedules(t, p)
    <3>1. \E t \in Time, p \in Payload : SendCommand(t, p)
      BY <2>3, SendingIsOne DEF IInv, ReplSends, PipeSchedules
    <3>2. PICK e \in Scheduled :
                 e.kind = "scheduled" /\ channel' = Append(channel, e)
      BY <3>1, SendTyped DEF IInv
    <3>3. e \in Events /\ ~IsWish(e)
      BY <3>2 DEF Events, IsWish
    <3>4. UNCHANGED <<hand, forwarder, ticking, ticker, wanted>>
      BY <2>3 DEF ReplSends, PipeSchedules, tickLoop
    <3> QED  BY <3>2, <3>3, <3>4, WishesAppended
  <2>4. ASSUME NEW e \in PipeRequests, PipeRequest(e)
        PROVE  LastWishDecides'
    BY <2>4, WishesAppended DEF PipeRequest, Events
  <2>5. CASE ForwarderTakes
    <3>1. /\ channel \in Seq(Events) /\ channel # <<>>
          /\ Transit = <<>> \o channel
          /\ Transit' = <<Head(channel)>> \o Tail(channel)
      BY <2>5 DEF ForwarderTakes, Transit, IInv, Typed
    <3>2. Transit' = Transit
      BY <3>1
    <3> QED  BY <2>5, <3>2, WishesKept DEF ForwarderTakes, tickLoop
  <2>6. CASE ForwarderApplies
    <3>1. ~IsWish(Head(hand))
      BY <2>6 DEF ForwarderApplies, Applies, ClockKinds, IsWish
    <3>2. CASE Panics(Head(hand))
      BY <2>6, <3>2 DEF ForwarderApplies, LastWishDecides
    <3>3. CASE ~Panics(Head(hand))
      BY <2>6, <3>1, <3>3, ForwarderWishes DEF ForwarderApplies, tickLoop
    <3> QED  BY <3>2, <3>3
  <2>7. CASE ForwarderSetsTicking
    BY <2>7, ForwarderWishes DEF ForwarderSetsTicking, SendTicking
  <2>8. CASE TickerStarts \/ TimerFires \/ IntervalTick
    BY <2>1, <2>8 DEF TickerStarts, TimerFires, IntervalTick
  <2>9. CASE UNCHANGED <<tickLoop, transport>>
    BY <2>1, <2>9 DEF tickLoop
  <2> QED
    BY <2>2, <2>3, <2>4, <2>5, <2>6, <2>7, <2>8, <2>9
       DEF Next, vars, Ended, ReplEnqueue, ReplSendFails, ReplRun,
           ReplAdvance, ReplSetRate, ReplQuit
<1> QED  BY <1>1, <1>2, Invariant, PTL DEF Spec

\* Commands reach the heap in the order in which REPL and pipe clients sent
\* them.
THEOREM FifoToTheHeap == Spec => []ForwardedInOrder
<1>1. IInv => ForwardedInOrder
  BY DEF IInv, Ordered, ForwardedInOrder, InTransit, InChannel, InHand
<1> QED  BY <1>1, Invariant, PTL

LEMMA AcceptedOnceFollows == IInv => AcceptedOnce
<1> SUFFICES ASSUME IInv  PROVE AcceptedOnce
  OBVIOUS
<1> DEFINE places == <<InChannel, InHand, queue, Done>>
<1>1. /\ \A c \in InChannel, d \in InHand \cup queue \cup Done : c.id # d.id
      /\ \A c \in InHand, d \in queue \cup Done : c.id # d.id
      /\ \A c \in queue, d \in Done : c.id # d.id
  BY Numbers DEF IInv, Ordered
<1>2. ASSUME NEW i \in DOMAIN places, NEW j \in DOMAIN places, i # j,
             NEW c \in places[i], NEW d \in places[j]
      PROVE  c.id # d.id
  <2>1. DOMAIN places = {1, 2, 3, 4}
    OBVIOUS
  <2>2. /\ places[1] = InChannel /\ places[2] = InHand
        /\ places[3] = queue /\ places[4] = Done
    OBVIOUS
  <2> HIDE DEF places
  <2>3. CASE i = 1
    BY <1>1, <1>2, <2>1, <2>2, <2>3
  <2>4. CASE i = 2
    BY <1>1, <1>2, <2>1, <2>2, <2>4
  <2>5. CASE i = 3
    BY <1>1, <1>2, <2>1, <2>2, <2>5
  <2>6. CASE i = 4
    BY <1>1, <1>2, <2>1, <2>2, <2>6
  <2> QED  BY <2>1, <2>3, <2>4, <2>5, <2>6
<1>3. ASSUME NEW id \in 1 .. nextId - 1, forwarder = "alive"
      PROVE  \E i \in DOMAIN places : \E c \in places[i] : c.id = id
  <2>1. PICK c \in InChannel \cup InHand \cup queue \cup Done : c.id = id
    BY <1>3 DEF IInv, Conserved
  <2>2. \E i \in {1, 2, 3, 4} : c \in places[i]
    BY <2>1
  <2> QED  BY <2>1, <2>2
<1>4. \A S, id : id \in Ids(S) <=> \E c \in S : c.id = id
  BY DEF Ids
<1>5. places = <<CommandsIn(channel), CommandsIn(hand), queue, Done>>
  BY DEF InChannel, InHand
<1> HIDE DEF places
<1>6. ASSUME NEW id \in 1 .. nextId - 1
      PROVE  /\ \A i, j \in DOMAIN places :
                  i # j => id \notin Ids(places[i]) \cap Ids(places[j])
             /\ forwarder = "alive" => \E i \in DOMAIN places : id \in Ids(places[i])
  BY <1>2, <1>3, <1>4
<1> QED  BY <1>5, <1>6 DEF AcceptedOnce

\* No accepted command is ever in two places, and none is lost unless a panic
\* kills the forwarder.
THEOREM NoneLostOrDoubled == Spec => []AcceptedOnce
BY AcceptedOnceFollows, Invariant, PTL

\* A dispatch never executes a command and leaves an earlier one behind that
\* was due as well: not in the heap, nor, unless it was sent later, on its way.
THEOREM NonePassedOver == Spec => []NotPassedOver
<1>1. IInv => NotPassedOver
  BY DEF IInv, PassedOverLate, NotPassedOver, InTransit, InChannel, InHand
<1> QED  BY <1>1, Invariant, PTL
=============================================================================
