------------------------- MODULE PipeListenerProofs -------------------------
(***************************************************************************)
(* Proofs about PipeListener, for any number of clients and messages, any  *)
(* capacity of the channel and every failure.  The invariant ties the      *)
(* stage of each handler to how far it has come in what its client wrote,  *)
(* and the heap of the main loop to the events it has received.            *)
(***************************************************************************)
EXTENDS PipeListener, DispatchCallsProofs

-----------------------------------------------------------------------------
(* Messages *)

MaybeEvent == ControlEvent \cup {Control!NoEvent}

LEMMA EventTypes ==
  ASSUME NEW m \in Control!Message, NEW encodes
  PROVE  Control!Handle(m, encodes).event \in MaybeEvent
<1> USE DEF Control!Is, Control!Fails
<1>1. /\ Control!NoEvent \in MaybeEvent
      /\ \A kind \in Control!PlainVerbs \cup {"note"} : Control!Event(kind) \in MaybeEvent
  BY DEF MaybeEvent, ControlEvent, Control!Event
<1>2. ASSUME NEW kind \in Control!NumberVerbs, NEW n \in Control!Number,
             n # Control!Bad, ~(kind = "rate" /\ n = 0)
      PROVE  Control!EventWith(kind, n) \in MaybeEvent
  <2>1. n \in Time /\ (n # 0 => n \in Rate)
    BY <1>2, MaxTimeAssumption DEF Control!Number, Control!Bad, Time, Rate
  <2>2. CASE kind = "rate"
    BY <1>2, <2>1, <2>2 DEF MaybeEvent, ControlEvent, Control!EventWith
  <2>3. CASE kind \in {"step", "run", "advance"}
    BY <2>1, <2>3 DEF MaybeEvent, ControlEvent, Control!EventWith
  <2>4. QED BY <2>2, <2>3 DEF Control!NumberVerbs
<1>3. ASSUME NEW n \in Control!Number, n # Control!Bad
      PROVE  Control!EventWith("scheduled", n) \in MaybeEvent
  <2>1. n \in Time
    BY <1>3 DEF Control!Number, Control!Bad, Time
  <2>2. QED BY <2>1 DEF MaybeEvent, ControlEvent, Control!EventWith
<1>4. /\ \A kind \in Control!NumberVerbs :
           kind \notin Control!PlainVerbs /\ kind \notin {"other", "note"}
      /\ \A kind \in {"other", "note"} :
           kind \notin Control!PlainVerbs /\ kind \notin Control!NumberVerbs
  BY DEF Control!PlainVerbs, Control!NumberVerbs
<1> HIDE DEF MaybeEvent
<1>5. ASSUME NEW verb \in Control!Verbs \cup {"other"}, NEW n \in Control!Number
      PROVE  /\ Control!ParseWords(verb, n).event \in MaybeEvent
             /\ Control!ParseTyped(verb, n).event \in MaybeEvent
  <2>1. CASE verb \in Control!PlainVerbs
    BY <2>1, <1>1 DEF Control!ParseWords, Control!ParseTyped
  <2>2. CASE verb = "other"
    BY <2>2, <1>1, <1>4 DEF Control!ParseWords, Control!ParseTyped
  <2>3. CASE verb \in Control!NumberVerbs
    BY <2>3, <1>1, <1>2, <1>4 DEF Control!ParseWords, Control!ParseTyped
  <2>4. QED BY <2>1, <2>2, <2>3 DEF Control!Verbs
<1>6. CASE m \in [syntax : {"words", "typed"}, verb : Control!Verbs \cup {"other"},
                  number : Control!Number]
  BY <1>5, <1>6 DEF Control!Handle
<1>7. CASE m \in [syntax : {"rpc"}, version : {"2.0", "other"}, wellFormed : BOOLEAN,
                  method : Control!Methods, params : Control!Params, id : Control!Ids]
  <2>1. m.syntax = "rpc" /\ m.method \in Control!Methods /\ m.params \in Control!Params
    BY <1>7
  <2>2. Control!NumberIn(m.params) \in Control!Number
    BY <2>1 DEF Control!NumberIn, Control!Params, Control!Number, Control!Bad
  <2>3. Control!ParseMethod(m).event \in MaybeEvent
    <3>1. CASE m.method \in Control!PlainVerbs
      <4>1. m.method \notin Control!NumberVerbs
        BY <3>1, <1>4
      <4>2. QED BY <3>1, <4>1, <1>1 DEF Control!ParseMethod
    <3>2. CASE m.method \in Control!NumberVerbs
      BY <3>2, <1>1, <1>2, <1>4, <2>2 DEF Control!ParseMethod
    <3>3. CASE m.method \in {"note", "other"}
      BY <3>3, <1>1, <1>4 DEF Control!ParseMethod
    <3>4. QED BY <2>1, <3>1, <3>2, <3>3 DEF Control!Methods, Control!Verbs
  <2>4. Control!ParseRpc(m).event \in MaybeEvent
    BY <2>3, <1>1 DEF Control!ParseRpc
  <2>5. QED BY <2>1, <2>4, <1>1 DEF Control!Handle, Control!HandleRpc
<1>8. CASE m \in [syntax : {"pipe"}, timestamp : Control!Number]
  BY <1>1, <1>3, <1>8 DEF Control!Handle, Control!Nothing
<1>9. CASE m \in [syntax : {"json", "text"}]
  BY <1>1, <1>9 DEF Control!Handle, Control!Nothing
<1>10. QED BY <1>6, <1>7, <1>8, <1>9 DEF Control!Message

\* Disconnected is no event of a message, and no event is sent for none.
LEMMA HandlingTypes ==
  /\ \A h \in Handlings : h.event \in MaybeEvent
  /\ \A i \in Inputs : Handling(i) \in Handlings
  /\ Control!Nothing \in Handlings
<1>1. \A i \in Inputs : Handling(i).event \in MaybeEvent
  BY PipeListenerAssumption, EventTypes DEF Handling
<1>2. Control!Nothing.event \in MaybeEvent
  BY DEF Control!Nothing, MaybeEvent
<1>3. QED BY <1>1, <1>2 DEF Handlings

-----------------------------------------------------------------------------
(* Sequences *)

LEMMA AppendFacts ==
  ASSUME NEW S, NEW s \in Seq(S), NEW x \in S
  PROVE  /\ Append(s, x) \in Seq(S)
         /\ Len(s) \in Nat /\ Len(Append(s, x)) = Len(s) + 1
         /\ DOMAIN s = 1 .. Len(s)
         /\ DOMAIN Append(s, x) = 1 .. Len(s) + 1
         /\ \A k \in 1 .. Len(s) : Append(s, x)[k] = s[k]
         /\ Append(s, x)[Len(s) + 1] = x
  OBVIOUS

LEMMA TailFacts ==
  ASSUME NEW S, NEW s \in Seq(S), s # <<>>
  PROVE  /\ Tail(s) \in Seq(S) /\ Head(s) \in S /\ Head(s) = s[1]
         /\ Len(s) \in Nat \ {0} /\ Len(Tail(s)) = Len(s) - 1
         /\ DOMAIN s = 1 .. Len(s)
         /\ DOMAIN Tail(s) = 1 .. Len(s) - 1
         /\ \A k \in 1 .. Len(s) - 1 : Tail(s)[k] = s[k + 1]
  OBVIOUS

-----------------------------------------------------------------------------
(* The invariant *)

\* A handler and its client: the pipe holds the end of what was written, and
\* what the handler works on is the message before it.
Working(c) ==
  /\ Len(pipe[c]) <= Len(written[c])
  /\ \A k \in DOMAIN pipe[c] : pipe[c][k] = written[c][Taken(c) + k]
  /\ stage[c] \in {"sending", "replying"} =>
       Taken(c) # 0 /\ work[c] = Handling(written[c][Taken(c)])
  /\ stage[c] = "sending" => work[c].event # Control!NoEvent
  /\ stage[c] = "leaving" => pipe[c] = <<>> /\ link[c] = "closed"

WorkingInv == \A c \in Clients : Working(c)

\* How far the events of a client have come: those of all messages it has
\* taken are in, but for the last while it is to be sent or was given up.
Sending(c) ==
  /\ \A i \in From(c) : accepted[i].message \in 1 .. Taken(c) + 1
  /\ \A i \in From(c) : accepted[i].message = Taken(c) + 1 =>
       stage[c] = "ended" /\ pipe[c] = <<>>
  /\ stage[c] = "sending" => \A i \in From(c) : accepted[i].message # Taken(c)
  /\ \A m \in 1 .. Taken(c) : EventOf(c, m) # Control!NoEvent =>
       \/ \E k \in From(c) : accepted[k].message = m
       \/ m = Taken(c) /\ stage[c] \in {"sending", "ended"}

\* The same of its replies.
Replying(c) ==
  /\ \A i \in DOMAIN replies[c] : replies[c][i].message \in 1 .. Taken(c)
  /\ stage[c] \in {"sending", "replying"} =>
       \A i \in DOMAIN replies[c] : replies[c][i].message # Taken(c)
  /\ \A m \in 1 .. Taken(c) : ReplyOf(c, m) # Control!NoReply =>
       \/ \E k \in DOMAIN replies[c] : replies[c][k].message = m
       \/ m = Taken(c) /\ stage[c] \in {"sending", "replying", "ended"}

\* The number of events that the main loop has applied.
AppliedCount == Len(accepted) - Len(channel)

\* The channel holds the end of what was accepted.
ChannelInv ==
  /\ Len(channel) <= Len(accepted)
  /\ \A k \in DOMAIN channel : channel[k] = accepted[AppliedCount + k]

\* A scheduled command that was applied is in the heap or executed, and an
\* advance has left nothing due at its target to those before it.
HeapInv ==
  /\ \A c \in queue : c.id <= AppliedCount
  /\ \A i \in 1 .. AppliedCount : accepted[i].event.kind = "scheduled" =>
       \/ \E c \in queue : c.id = i /\ c.timestamp = accepted[i].event.n
       \/ \E x \in executed : x.cmd.id = i
  /\ \A j \in 1 .. AppliedCount : accepted[j].event.kind = "advance" =>
       \A c \in queue : c.id < j => c.timestamp > accepted[j].event.n


-----------------------------------------------------------------------------
(* Types *)

LEMMA EventParts ==
  ASSUME NEW e \in ControlEvent \cup {Disconnected}
  PROVE  /\ e # Control!NoEvent
         /\ e.kind \in {"scheduled", "step", "run", "advance"} => e.n \in Time
         /\ e.kind = "rate" => e.n \in Rate
         /\ e.kind \in Control!PlainVerbs \cup {"note", "disconnected", "scheduled",
                                               "step", "run", "advance", "rate"}
  BY DEF ControlEvent, Disconnected, Control!NoEvent, Control!PlainVerbs

\* What a step of the main loop does to clock and heap.
LEMMA DispatchTypes ==
  ASSUME TypeOK, NEW times \in SUBSET Time, DispatchAt(times)
  PROVE  /\ current' \in Time /\ tickRate' \in Rate /\ ticking' \in BOOLEAN
         /\ queue' \subseteq ScheduledCommand
<1>1. current' \in Time
  BY ClockAfterType DEF DispatchAt, TypeOK
<1>2. queue' \subseteq queue
  BY DEF DispatchAt, QueueAfter
<1>3. QED BY <1>1, <1>2 DEF DispatchAt, TypeOK

LEMMA NumberOfNext ==
  ASSUME channel \in Seq(Sent), accepted \in Seq(Sent), Len(channel) <= Len(accepted)
  PROVE  Len(accepted) - Len(channel) + 1 \in Nat \ {0}
<1>1. Len(channel) \in Nat /\ Len(accepted) \in Nat
  OBVIOUS
<1>2. QED BY <1>1

MainTyped ==
  /\ consumer \in {"alive", "gone"}
  /\ current \in Time
  /\ tickRate \in Rate
  /\ queue \subseteq ScheduledCommand
  /\ ticking \in BOOLEAN

LEMMA ApplyTypes ==
  ASSUME TypeOK, Len(channel) <= Len(accepted), channel # <<>>,
         Apply(Head(channel).event)
  PROVE  MainTyped'
<1> DEFINE e == Head(channel).event
<1>1. e \in ControlEvent \cup {Disconnected}
  <2>1. channel \in Seq(Sent)
    BY DEF TypeOK
  <2>2. Head(channel) \in Sent
    BY <2>1, TailFacts
  <2>3. QED BY <2>2 DEF Sent
<1>2. /\ e.kind \in {"scheduled", "step", "run", "advance"} => e.n \in Time
      /\ e.kind = "rate" => e.n \in Rate
  BY <1>1, EventParts
<1> HIDE DEF e
<1>3. /\ consumer \in {"alive", "gone"} /\ current \in Time /\ tickRate \in Rate
      /\ queue \subseteq ScheduledCommand /\ ticking \in BOOLEAN
  BY DEF TypeOK
<1>4. ASSUME NEW delta, NEW n, RunSteps(delta, n) PROVE MainTyped'
  <2>1. StepTimes(current, delta, n) \in SUBSET Time
    BY CallTimes
  <2>2. QED BY <1>4, <2>1, DispatchTypes DEF RunSteps, MainTyped
<1>5. CASE e.kind = "scheduled" /\ Enqueue(e.n)
  <2>1. PICK p \in Payload : queue' = queue \cup
          {[timestamp |-> e.n, command |-> p, accepted |-> current,
            id |-> Len(accepted) - Len(channel) + 1]}
    BY <1>5 DEF Enqueue
  <2>2. Len(accepted) - Len(channel) + 1 \in Nat \ {0}
    BY NumberOfNext DEF TypeOK
  <2>3. queue' \subseteq ScheduledCommand
    BY <1>2, <1>3, <1>5, <2>1, <2>2 DEF ScheduledCommand
  <2>4. QED BY <1>3, <1>5, <2>3 DEF Enqueue, MainTyped
<1>6. CASE e.kind = "advance" /\ DispatchAt({Forward(current, e.n)}) /\ UNCHANGED consumer
  <2>1. {Forward(current, e.n)} \in SUBSET Time
    BY <1>2, <1>3, <1>6, CallTimes
  <2>2. QED BY <1>3, <1>6, <2>1, DispatchTypes DEF MainTyped
<1>7. CASE e.kind = "rate" /\ tickRate' = e.n
           /\ UNCHANGED <<consumer, current, queue, executed, ticking>>
  BY <1>2, <1>3, <1>7 DEF MainTyped
<1>8. CASE UNCHANGED mainLoop
  BY <1>3, <1>8 DEF MainTyped, mainLoop
<1>9. ASSUME NEW on \in BOOLEAN, SetTicking(on) PROVE MainTyped'
  BY <1>3, <1>9 DEF MainTyped, SetTicking
<1>10. QED BY <1>4, <1>5, <1>6, <1>7, <1>8, <1>9 DEF Apply, e

LEMMA SendTypes ==
  ASSUME TypeOK, NEW c \in Clients, NEW n \in Nat,
         NEW e \in ControlEvent \cup {Disconnected}, Send(c, e, n)
  PROVE  /\ channel' \in Seq(Sent) /\ Len(channel') <= ChannelCap
         /\ Len(channel') = Len(channel) + 1
         /\ accepted' \in Seq(Sent)
         /\ Len(accepted') = Len(accepted) + 1
<1>1. [client |-> c, event |-> e, message |-> n] \in Sent
  BY DEF Sent
<1>2. channel \in Seq(Sent) /\ accepted \in Seq(Sent)
  BY DEF TypeOK
<1>3. /\ channel' = Append(channel, [client |-> c, event |-> e, message |-> n])
      /\ accepted' = Append(accepted, [client |-> c, event |-> e, message |-> n])
      /\ Len(channel) < ChannelCap
  BY DEF Send
<1>4. /\ channel' \in Seq(Sent) /\ accepted' \in Seq(Sent)
      /\ Len(channel) \in Nat /\ Len(channel') = Len(channel) + 1
      /\ Len(accepted') = Len(accepted) + 1
  BY <1>1, <1>2, <1>3, AppendFacts
<1>5. QED BY <1>3, <1>4, PipeListenerAssumption

LEMMA TakenIsNat ==
  ASSUME TypeOK, NEW c \in Clients, Working(c)
  PROVE  /\ Taken(c) \in Nat /\ Len(pipe[c]) \in Nat /\ Len(written[c]) \in Nat
         /\ Taken(c) <= Len(written[c])
         /\ pipe[c] \in Seq(Inputs) /\ written[c] \in Seq(Inputs)
         /\ DOMAIN pipe[c] = 1 .. Len(pipe[c])
         /\ DOMAIN written[c] = 1 .. Len(written[c])
<1>1. pipe[c] \in Seq(Inputs) /\ written[c] \in Seq(Inputs)
  BY DEF TypeOK
<1>2. /\ Len(pipe[c]) \in Nat /\ Len(written[c]) \in Nat
      /\ DOMAIN pipe[c] = 1 .. Len(pipe[c])
      /\ DOMAIN written[c] = 1 .. Len(written[c])
  BY <1>1
<1>3. Len(pipe[c]) <= Len(written[c])
  BY DEF Working
<1>4. \A a, b \in Nat : b <= a => a - b \in Nat /\ a - b <= a
  OBVIOUS
<1>5. Taken(c) \in Nat /\ Taken(c) <= Len(written[c])
  BY <1>2, <1>3, <1>4 DEF Taken
<1>6. QED BY <1>1, <1>2, <1>5

LEMMA TypeInit ==
  Init => TypeOK
<1> SUFFICES ASSUME Init PROVE TypeOK
  OBVIOUS
<1>1. 0 \in Time /\ 1 \in Rate
  BY MaxTimeAssumption DEF Time, Rate
<1>2. /\ <<>> \in Seq(Inputs) /\ <<>> \in Seq(Answer) /\ <<>> \in Seq(Sent)
      /\ Len(<<>>) = 0 /\ 0 <= ChannelCap
  BY PipeListenerAssumption
<1>3. Control!Nothing \in Handlings
  BY HandlingTypes
<1>4. /\ pipe \in [Clients -> Seq(Inputs)] /\ written \in [Clients -> Seq(Inputs)]
      /\ replies \in [Clients -> Seq(Answer)] /\ work \in [Clients -> Handlings]
  BY <1>2, <1>3 DEF Init
<1>5. channel \in Seq(Sent) /\ Len(channel) <= ChannelCap /\ accepted \in Seq(Sent)
  BY <1>2 DEF Init
<1>6. QED
  BY <1>1, <1>4, <1>5 DEF Init, TypeOK

LEMMA TypeStep ==
  ASSUME TypeOK, WorkingInv, ChannelInv, [Next]_vars
  PROVE  TypeOK'
<1> USE DEF TypeOK
<1>1. CASE ListenerFails
  BY <1>1 DEF ListenerFails, clients, handlers, transport, mainLoop
<1>2. ASSUME NEW c \in Clients, Connects(c) PROVE TypeOK'
  BY <1>2 DEF Connects, transport, mainLoop
<1>3. ASSUME NEW c \in Clients, NEW input \in Inputs, Writes(c, input) PROVE TypeOK'
  <2>1. Append(pipe[c], input) \in Seq(Inputs) /\ Append(written[c], input) \in Seq(Inputs)
    BY AppendFacts
  <2>2. QED BY <1>3, <2>1 DEF Writes, handlers, transport, mainLoop
<1>4. ASSUME NEW c \in Clients, Closes(c) PROVE TypeOK'
  BY <1>4 DEF Closes, handlers, transport, mainLoop
<1>5. ASSUME NEW c \in Clients, Takes(c) PROVE TypeOK'
  <2>1. Tail(pipe[c]) \in Seq(Inputs) /\ Head(pipe[c]) \in Inputs
    BY <1>5, TailFacts DEF Takes
  <2>2. Handling(Head(pipe[c])) \in Handlings
    BY <2>1, HandlingTypes
  <2>3. AfterTaking(Handling(Head(pipe[c]))) \in {"sending", "replying", "reading"}
    BY DEF AfterTaking
  <2>4. QED BY <1>5, <2>1, <2>2, <2>3 DEF Takes, transport, mainLoop
<1>6. ASSUME NEW c \in Clients, Sends(c) PROVE TypeOK'
  <2>1. Taken(c) \in Nat
    BY TakenIsNat DEF WorkingInv
  <2>2. work[c].event \in ControlEvent
    BY <1>6, HandlingTypes DEF Sends, WorkingInv, Working, MaybeEvent
  <2>3. /\ channel' \in Seq(Sent) /\ Len(channel') <= ChannelCap
        /\ accepted' \in Seq(Sent) /\ consumer = "alive"
    BY <1>6, <2>1, <2>2, SendTypes DEF Sends, Send
  <2>4. QED BY <1>6, <2>3 DEF Sends, clients, mainLoop
<1>7. ASSUME NEW c \in Clients, SendFails(c) PROVE TypeOK'
  BY <1>7 DEF SendFails, clients, transport, mainLoop
<1>8. ASSUME NEW c \in Clients, Replies(c) PROVE TypeOK'
  <2>1. [reply |-> work[c].reply, message |-> Taken(c)] \in Answer
    BY TakenIsNat DEF WorkingInv, Answer
  <2>2. Append(replies[c], [reply |-> work[c].reply, message |-> Taken(c)]) \in Seq(Answer)
    BY <2>1, AppendFacts
  <2>3. QED BY <1>8, <2>2 DEF Replies, clients, transport, mainLoop
<1>9. ASSUME NEW c \in Clients, ReplyFails(c) PROVE TypeOK'
  BY <1>9 DEF ReplyFails, clients, transport, mainLoop
<1>10. ASSUME NEW c \in Clients, SeesEnd(c) PROVE TypeOK'
  BY <1>10 DEF SeesEnd, clients, transport, mainLoop
<1>11. ASSUME NEW c \in Clients, ReadFails(c) PROVE TypeOK'
  BY <1>11 DEF ReadFails, clients, transport, mainLoop
<1>12. ASSUME NEW c \in Clients, Leaves(c) PROVE TypeOK'
  <2>1. Taken(c) + 1 \in Nat
    BY TakenIsNat DEF WorkingInv
  <2>2. /\ channel' \in Seq(Sent) /\ Len(channel') <= ChannelCap
        /\ accepted' \in Seq(Sent) /\ consumer = "alive"
    BY <1>12, <2>1, SendTypes DEF Leaves, Send
  <2>3. QED BY <1>12, <2>2 DEF Leaves, clients, mainLoop
<1>13. CASE MainReceives
  <2>1. MainTyped'
    BY <1>13, ApplyTypes DEF MainReceives, ChannelInv
  <2>2. channel' \in Seq(Sent) /\ Len(channel') <= ChannelCap
    <3>1. /\ channel' = Tail(channel) /\ Tail(channel) \in Seq(Sent)
          /\ Len(channel) \in Nat /\ Len(Tail(channel)) = Len(channel) - 1
      BY <1>13, TailFacts DEF MainReceives
    <3>2. QED BY <3>1, PipeListenerAssumption
  <2>3. QED BY <1>13, <2>1, <2>2 DEF MainReceives, MainTyped, clients, handlers
<1>14. CASE MainTicks
  <2>1. StepTimes(current, tickRate, 1) \in SUBSET Time
    BY CallTimes
  <2>2. MainTyped'
    BY <1>14, <2>1, DispatchTypes DEF MainTicks, RunSteps, MainTyped
  <2>3. QED
    BY <1>14, <2>2 DEF MainTicks, MainTyped, clients, handlers, transport
<1>15. CASE UNCHANGED vars
  BY <1>15 DEF vars, clients, handlers, transport, mainLoop
<1>16. QED
  BY <1>1, <1>2, <1>3, <1>4, <1>5, <1>6, <1>7, <1>8, <1>9, <1>10, <1>11, <1>12,
     <1>13, <1>14, <1>15 DEF Next

-----------------------------------------------------------------------------
(* What a step means to one client *)

\* Nothing that was written or accepted is lost.
Grows(c) ==
  /\ Len(written[c]) <= Len(written'[c])
  /\ \A m \in 1 .. Len(written[c]) : written'[c][m] = written[c][m]
  /\ From(c) \subseteq From(c)'
  /\ \A i \in From(c) : accepted'[i] = accepted[i]

\* The handler goes on without an event or a message.
Turns(c) ==
  \/ stage'[c] = stage[c]
  \/ stage'[c] = "ended"
  \/ stage[c] \in {"none", "replying"} /\ stage'[c] = "reading"
  \/ stage[c] = "reading" /\ pipe[c] = <<>> /\ link[c] = "closed" /\ stage'[c] = "leaving"

\* A step that takes no message of the client and sends no event of it.
Calm(c) ==
  /\ Turns(c)
  /\ Grows(c)
  /\ From(c)' = From(c)
  /\ work'[c] = work[c]
  /\ link[c] = "closed" => link'[c] = "closed"
  /\ \/ written'[c] = written[c] /\ pipe'[c] = pipe[c]
     \/ /\ stage[c] # "ended" /\ link[c] = "open"
        /\ \E input \in Inputs : /\ written'[c] = Append(written[c], input)
                                 /\ pipe'[c] = Append(pipe[c], input)

LEMMA FromAppend ==
  ASSUME accepted \in Seq(Sent), NEW e \in Sent, accepted' = Append(accepted, e)
  PROVE  /\ From(e.client)' = From(e.client) \cup {Len(accepted) + 1}
         /\ \A d \in Clients \ {e.client} : From(d)' = From(d)
         /\ \A d : From(d) \subseteq 1 .. Len(accepted)
         /\ \A i \in 1 .. Len(accepted) : accepted'[i] = accepted[i]
         /\ accepted'[Len(accepted) + 1] = e
<1>1. /\ Len(accepted) \in Nat
      /\ DOMAIN accepted = 1 .. Len(accepted)
      /\ DOMAIN accepted' = 1 .. Len(accepted) + 1
      /\ \A k \in 1 .. Len(accepted) : accepted'[k] = accepted[k]
      /\ accepted'[Len(accepted) + 1] = e
  BY AppendFacts
<1>2. 1 .. Len(accepted) + 1 = (1 .. Len(accepted)) \cup {Len(accepted) + 1}
  BY <1>1
<1>3. QED BY <1>1, <1>2 DEF From

\* The entry that the send of a client appends.
LEMMA SendFrom ==
  ASSUME TypeOK, NEW c \in Clients, NEW n \in Nat,
         NEW e \in ControlEvent \cup {Disconnected}, Send(c, e, n)
  PROVE  /\ From(c)' = From(c) \cup {Len(accepted) + 1}
         /\ \A d \in Clients \ {c} : From(d)' = From(d)
         /\ \A d : From(d) \subseteq 1 .. Len(accepted)
         /\ \A i \in 1 .. Len(accepted) : accepted'[i] = accepted[i]
         /\ accepted'[Len(accepted) + 1] = [client |-> c, event |-> e, message |-> n]
<1>1. [client |-> c, event |-> e, message |-> n] \in Sent
  BY DEF Sent
<1>2. accepted \in Seq(Sent)
  BY DEF TypeOK
<1>3. accepted' = Append(accepted, [client |-> c, event |-> e, message |-> n])
  BY DEF Send
<1>4. QED BY <1>1, <1>2, <1>3, FromAppend

LEMMA SendFromOwn ==
  ASSUME TypeOK, NEW c \in Clients, NEW n \in Nat,
         NEW e \in ControlEvent \cup {Disconnected}, Send(c, e, n)
  PROVE  /\ From(c)' = From(c) \cup {Len(accepted) + 1}
         /\ \A i \in From(c) : accepted'[i] = accepted[i]
         /\ accepted'[Len(accepted) + 1].message = n
<1>1. From(c) \subseteq 1 .. Len(accepted)
  BY SendFrom
<1>2. \A i \in 1 .. Len(accepted) : accepted'[i] = accepted[i]
  BY SendFrom
<1>3. accepted'[Len(accepted) + 1] = [client |-> c, event |-> e, message |-> n]
  BY SendFrom
<1>4. From(c)' = From(c) \cup {Len(accepted) + 1}
  BY SendFrom
<1>5. QED BY <1>1, <1>2, <1>3, <1>4

LEMMA SameGrows ==
  ASSUME TypeOK, NEW d \in Clients, written'[d] = written[d], accepted' = accepted
  PROVE  Grows(d) /\ From(d)' = From(d)
<1>1. Len(written[d]) \in Nat
  BY DEF TypeOK
<1>2. QED BY <1>1 DEF Grows, From

\* A client that is not the one that sends.
LEMMA OtherGrows ==
  ASSUME TypeOK, NEW c \in Clients, NEW n \in Nat,
         NEW e \in ControlEvent \cup {Disconnected}, Send(c, e, n),
         NEW d \in Clients, written'[d] = written[d]
  PROVE  Grows(d) /\ (d # c => From(d)' = From(d))
<1>1. Len(written[d]) \in Nat
  BY DEF TypeOK
<1>2. From(d) \subseteq From(d)'
  BY SendFrom
<1>3. \A i \in From(d) : accepted'[i] = accepted[i]
  BY SendFrom
<1>4. d # c => From(d)' = From(d)
  BY SendFrom
<1>5. QED BY <1>1, <1>2, <1>3, <1>4 DEF Grows

Quiet(c) ==
  /\ Calm(c)
  /\ replies'[c] = replies[c]
  /\ stage[c] = "replying" => stage'[c] \in {"replying", "ended"}

LEMMA StepCases ==
  ASSUME TypeOK, WorkingInv, [Next]_vars, NEW d \in Clients
  PROVE  \/ Quiet(d)
         \/ Takes(d) \/ Sends(d) \/ Leaves(d) \/ Replies(d)
<1> USE DEF Turns, Calm, Quiet
<1>1. CASE /\ UNCHANGED <<link, pipe, written, stage, work, replies>>
           /\ UNCHANGED accepted
  BY <1>1, SameGrows
<1>2. ASSUME NEW c \in Clients, Connects(c) PROVE Quiet(d)
  BY <1>2, SameGrows DEF Connects, transport, TypeOK
<1>3. ASSUME NEW c \in Clients, NEW input \in Inputs, Writes(c, input) PROVE Quiet(d)
  <2>1. CASE d # c
    <3>1. written'[d] = written[d] /\ pipe'[d] = pipe[d] /\ accepted' = accepted
      BY <1>3, <2>1 DEF Writes, TypeOK, transport
    <3>2. QED BY <1>3, <3>1, SameGrows DEF Writes, handlers
  <2>2. CASE d = c
    <3>1. /\ written'[c] = Append(written[c], input) /\ pipe'[c] = Append(pipe[c], input)
          /\ stage[c] # "ended" /\ link[c] = "open" /\ accepted' = accepted
          /\ written[c] \in Seq(Inputs)
          /\ UNCHANGED <<link, stage, work, replies>>
      BY <1>3 DEF Writes, TypeOK, transport, handlers
    <3>2. /\ Len(written[c]) \in Nat /\ Len(written[c]) <= Len(written'[c])
          /\ \A m \in 1 .. Len(written[c]) : written'[c][m] = written[c][m]
      BY <3>1, AppendFacts
    <3>3. From(c)' = From(c)
      BY <3>1 DEF From
    <3>4. Grows(c)
      BY <3>1, <3>2, <3>3 DEF Grows
    <3>5. QED BY <2>2, <3>1, <3>3, <3>4
  <2>3. QED BY <2>1, <2>2
<1>4. ASSUME NEW c \in Clients, Closes(c) PROVE Quiet(d)
  BY <1>4, SameGrows DEF Closes, handlers, transport, TypeOK
<1>5. ASSUME NEW c \in Clients, c # d, Takes(c) PROVE Quiet(d)
  BY <1>5, SameGrows DEF Takes, transport, TypeOK
<1>6. ASSUME NEW c \in Clients, c # d, Sends(c) PROVE Quiet(d)
  <2>1. Taken(c) \in Nat
    BY TakenIsNat DEF WorkingInv
  <2>2. work[c].event \in ControlEvent
    BY <1>6, HandlingTypes DEF Sends, WorkingInv, Working, MaybeEvent, TypeOK
  <2>3. Grows(d) /\ From(d)' = From(d)
    BY <1>6, <2>1, <2>2, OtherGrows DEF Sends, clients
  <2>4. QED BY <1>6, <2>3 DEF Sends, clients, TypeOK
<1>7. ASSUME NEW c \in Clients, SendFails(c) PROVE Quiet(d)
  BY <1>7, SameGrows DEF SendFails, clients, transport, TypeOK
<1>8. ASSUME NEW c \in Clients, c # d, Replies(c) PROVE Quiet(d)
  BY <1>8, SameGrows DEF Replies, clients, transport, TypeOK
<1>9. ASSUME NEW c \in Clients, ReplyFails(c) PROVE Quiet(d)
  BY <1>9, SameGrows DEF ReplyFails, clients, transport, TypeOK
<1>10. ASSUME NEW c \in Clients, SeesEnd(c) PROVE Quiet(d)
  BY <1>10, SameGrows DEF SeesEnd, clients, transport, TypeOK
<1>11. ASSUME NEW c \in Clients, ReadFails(c) PROVE Quiet(d)
  BY <1>11, SameGrows DEF ReadFails, clients, transport, TypeOK
<1>12. ASSUME NEW c \in Clients, c # d, Leaves(c) PROVE Quiet(d)
  <2>1. Taken(c) + 1 \in Nat
    BY TakenIsNat DEF WorkingInv
  <2>2. Grows(d) /\ From(d)' = From(d)
    BY <1>12, <2>1, OtherGrows DEF Leaves, clients
  <2>3. QED BY <1>12, <2>2 DEF Leaves, clients, TypeOK
<1>13. CASE ListenerFails \/ MainReceives \/ MainTicks \/ UNCHANGED vars
  BY <1>1, <1>13 DEF ListenerFails, MainReceives, MainTicks, vars,
                     clients, handlers, transport
<1>14. QED
  BY <1>2, <1>3, <1>4, <1>5, <1>6, <1>7, <1>8, <1>9, <1>10, <1>11, <1>12, <1>13 DEF Next

-----------------------------------------------------------------------------
(* The handlers *)

\* What EventsFollowInput and RepliedMeansAccepted say of one client.
Ordered(c) ==
  /\ \A i, j \in From(c) : i < j => accepted[i].message < accepted[j].message
  /\ \A i \in From(c) :
       LET n == accepted[i].message
       IN  /\ accepted[i].event =
                IF n \in DOMAIN written[c] THEN EventOf(c, n) ELSE Disconnected
           /\ n \in 1 .. Len(written[c]) + 1
           /\ \A m \in 1 .. n - 1 : EventOf(c, m) # Control!NoEvent =>
                \E k \in From(c) : k < i /\ accepted[k].message = m

Promised(c) ==
  /\ \A i, j \in DOMAIN replies[c] :
       i < j => replies[c][i].message < replies[c][j].message
  /\ \A i \in DOMAIN replies[c] :
       LET n == replies[c][i].message
       IN  /\ n \in DOMAIN written[c]
           /\ replies[c][i].reply = ReplyOf(c, n)
           /\ \A m \in 1 .. n :
                /\ EventOf(c, m) # Control!NoEvent =>
                     \E k \in From(c) : accepted[k].message = m
                /\ ReplyOf(c, m) # Control!NoReply =>
                     \E k \in DOMAIN replies[c] : replies[c][k].message = m

\* What a client asked for stays what it asked for.
LEMMA SameOf ==
  ASSUME NEW c \in Clients, Grows(c), NEW m \in 1 .. Len(written[c])
  PROVE  EventOf(c, m)' = EventOf(c, m) /\ ReplyOf(c, m)' = ReplyOf(c, m)
<1>1. written'[c][m] = written[c][m]
  BY DEF Grows
<1>2. QED BY <1>1 DEF EventOf, ReplyOf, Handling

\* How a calm step moves the pipe: not at all, or by one more message.
LEMMA CalmTaken ==
  ASSUME TypeOK, NEW c \in Clients, Working(c), Calm(c)
  PROVE  /\ Taken(c)' = Taken(c)
         /\ Working(c)'
<1> USE DEF Calm
<1>1. /\ Taken(c) \in Nat /\ Len(pipe[c]) \in Nat /\ Len(written[c]) \in Nat
      /\ Len(pipe[c]) <= Len(written[c])
      /\ pipe[c] \in Seq(Inputs) /\ written[c] \in Seq(Inputs)
      /\ DOMAIN pipe[c] = 1 .. Len(pipe[c])
      /\ Len(written[c]) = Taken(c) + Len(pipe[c])
  <2>1. \A a, b, t \in Nat : t = a - b => a = t + b
    OBVIOUS
  <2>2. QED BY <2>1, TakenIsNat DEF Working, Taken
<1>2. CASE written'[c] = written[c] /\ pipe'[c] = pipe[c]
  <2>1. Taken(c)' = Taken(c)
    BY <1>2 DEF Taken
  <2>2. Working(c)'
    BY <1>2, <2>1, <1>1 DEF Working, Turns, Handling
  <2>3. QED BY <1>2, <2>1, <2>2
<1>3. ASSUME stage[c] # "ended", link[c] = "open", NEW input \in Inputs,
             written'[c] = Append(written[c], input), pipe'[c] = Append(pipe[c], input)
      PROVE  Taken(c)' = Taken(c) /\ stage'[c] # "leaving" /\ Working(c)'
  <2>1. /\ Len(pipe'[c]) = Len(pipe[c]) + 1 /\ Len(written'[c]) = Len(written[c]) + 1
        /\ DOMAIN pipe'[c] = 1 .. Len(pipe[c]) + 1
        /\ \A k \in 1 .. Len(pipe[c]) : pipe'[c][k] = pipe[c][k]
        /\ pipe'[c][Len(pipe[c]) + 1] = input
        /\ \A k \in 1 .. Len(written[c]) : written'[c][k] = written[c][k]
        /\ written'[c][Len(written[c]) + 1] = input
    BY <1>1, <1>3, AppendFacts
  <2>2. Taken(c)' = Taken(c)
    BY <2>1, <1>1 DEF Taken
  <2>3. stage'[c] # "leaving"
    BY <1>1, <1>3 DEF Turns, Working
  <2>4. ASSUME NEW k \in DOMAIN pipe'[c] PROVE pipe'[c][k] = written'[c][Taken(c) + k]
    <3>1. CASE k \in 1 .. Len(pipe[c])
      <4>1. Taken(c) + k \in 1 .. Len(written[c])
        BY <1>1, <3>1
      <4>2. QED BY <1>1, <2>1, <3>1, <4>1 DEF Working
    <3>2. CASE k = Len(pipe[c]) + 1
      <4>1. Taken(c) + k = Len(written[c]) + 1
        BY <1>1, <3>2
      <4>2. QED BY <2>1, <3>2, <4>1
    <3>3. QED BY <1>1, <2>1, <3>1, <3>2
  <2>5. stage'[c] \in {"sending", "replying"} =>
          Taken(c) # 0 /\ work'[c] = Handling(written'[c][Taken(c)])
    <3>1. Taken(c) # 0 => Taken(c) \in 1 .. Len(written[c])
      BY <1>1
    <3>2. QED BY <2>1, <3>1 DEF Working, Turns
  <2>6. stage'[c] = "sending" => work'[c].event # Control!NoEvent
    BY DEF Working, Turns
  <2>7. Len(pipe'[c]) <= Len(written'[c])
    BY <1>1, <2>1
  <2>8. (Taken(c) # 0 /\ work[c] = Handling(written[c][Taken(c)]))' <=>
          (Taken(c) # 0 /\ work'[c] = Handling(written'[c][Taken(c)]))
    BY <2>2 DEF Handling
  <2>9. QED BY <2>2, <2>3, <2>4, <2>5, <2>6, <2>7, <2>8 DEF Working
<1>4. QED BY <1>2, <1>3

LEMMA CalmSending ==
  ASSUME TypeOK, NEW c \in Clients, Working(c), Sending(c), Ordered(c), Calm(c)
  PROVE  Sending(c)' /\ Ordered(c)'
<1>1. /\ Taken(c)' = Taken(c)
      /\ From(c)' = From(c) /\ \A i \in From(c) : accepted'[i] = accepted[i]
      /\ Grows(c)
  BY CalmTaken DEF Calm, Grows
<1>2. /\ Taken(c) \in Nat /\ Len(written[c]) \in Nat /\ Taken(c) <= Len(written[c])
      /\ DOMAIN written[c] = 1 .. Len(written[c])
  BY TakenIsNat
<1>3. \A m \in 1 .. Len(written[c]) : EventOf(c, m)' = EventOf(c, m)
  BY <1>1, SameOf
<1>4. stage[c] = "ended" => stage'[c] = "ended" /\ pipe'[c] = pipe[c]
  BY DEF Calm, Turns
<1>5. stage'[c] = "sending" => stage[c] = "sending"
  BY DEF Calm, Turns
<1>6. stage[c] = "sending" => stage'[c] \in {"sending", "ended"}
  BY DEF Calm, Turns
<1>7. Sending(c)'
  <2>1. (\A i \in From(c) : accepted[i].message \in 1 .. Taken(c) + 1)'
    BY <1>1 DEF Sending
  <2>2. (\A i \in From(c) : accepted[i].message = Taken(c) + 1 =>
           stage[c] = "ended" /\ pipe[c] = <<>>)'
    BY <1>1, <1>4 DEF Sending
  <2>3. (stage[c] = "sending" => \A i \in From(c) : accepted[i].message # Taken(c))'
    BY <1>1, <1>5 DEF Sending
  <2>4. (\A m \in 1 .. Taken(c) : EventOf(c, m) # Control!NoEvent =>
           \/ \E k \in From(c) : accepted[k].message = m
           \/ m = Taken(c) /\ stage[c] \in {"sending", "ended"})'
    <3> SUFFICES ASSUME NEW m \in 1 .. Taken(c), EventOf(c, m)' # Control!NoEvent
                 PROVE  \/ \E k \in From(c) : accepted'[k].message = m
                        \/ m = Taken(c) /\ stage'[c] \in {"sending", "ended"}
      BY <1>1, Zenon
    <3>1. EventOf(c, m) # Control!NoEvent
      BY <1>2, <1>3
    <3>2. QED BY <1>1, <1>4, <1>6, <3>1 DEF Sending
  <2>5. QED BY <2>1, <2>2, <2>3, <2>4 DEF Sending
<1>8. Ordered(c)'
  <2>1. (\A i, j \in From(c) : i < j => accepted[i].message < accepted[j].message)'
    BY <1>1 DEF Ordered
  <2>2. ASSUME NEW i \in From(c)
        PROVE  LET n == accepted[i].message
               IN  /\ accepted[i].event =
                        IF n \in DOMAIN written'[c] THEN EventOf(c, n)' ELSE Disconnected
                   /\ n \in 1 .. Len(written'[c]) + 1
                   /\ \A m \in 1 .. n - 1 : EventOf(c, m)' # Control!NoEvent =>
                        \E k \in From(c) : k < i /\ accepted[k].message = m
    <3> DEFINE n == accepted[i].message
    <3>1. n \in 1 .. Taken(c) + 1 /\ n \in 1 .. Len(written[c]) + 1
      BY DEF Sending, Ordered
    <3>2. \A m \in 1 .. n - 1 : EventOf(c, m)' = EventOf(c, m)
      BY <1>2, <1>3, <3>1
    <3>3. n = Taken(c) + 1 => stage[c] = "ended" /\ pipe[c] = <<>>
      BY DEF Sending
    <3>4. CASE n \in 1 .. Len(written[c])
      <4>1. n \in DOMAIN written'[c] /\ n \in 1 .. Len(written'[c]) + 1
        <5>1. Len(written'[c]) \in Nat /\ DOMAIN written'[c] = 1 .. Len(written'[c])
          BY DEF Calm, TypeOK
        <5>2. Len(written[c]) <= Len(written'[c])
          BY <1>1 DEF Grows
        <5>3. QED BY <1>2, <3>4, <5>1, <5>2
      <4>2. EventOf(c, n)' = EventOf(c, n)
        BY <1>1, <1>3, <3>4
      <4>3. accepted[i].event = EventOf(c, n)
        BY <1>2, <3>4 DEF Ordered
      <4>4. QED BY <3>2, <4>1, <4>2, <4>3 DEF Ordered
    <3>5. CASE n = Len(written[c]) + 1
      <4>1. n = Taken(c) + 1
        BY <1>2, <3>1, <3>5
      <4>2. written'[c] = written[c]
        BY <3>3, <4>1 DEF Calm
      <4>3. QED BY <3>2, <4>2, <3>5, <1>2 DEF Ordered
    <3>6. QED BY <1>2, <3>1, <3>4, <3>5
  <2>3. QED BY <1>1, <2>1, <2>2 DEF Ordered
<1>9. QED BY <1>7, <1>8

\* The next message is the one after those taken.
LEMMA TakesNext ==
  ASSUME TypeOK, NEW c \in Clients, Working(c), Takes(c)
  PROVE  /\ Taken(c)' = Taken(c) + 1
         /\ Taken(c) + 1 \in 1 .. Len(written[c])
         /\ work'[c] = Handling(written[c][Taken(c) + 1])
         /\ stage[c] = "reading" /\ stage'[c] = AfterTaking(work'[c])
         /\ written' = written /\ accepted' = accepted /\ replies' = replies
         /\ Working(c)'
<1>1. /\ Taken(c) \in Nat /\ Len(pipe[c]) \in Nat /\ Len(written[c]) \in Nat
      /\ Len(pipe[c]) <= Len(written[c])
      /\ DOMAIN pipe[c] = 1 .. Len(pipe[c])
      /\ Len(written[c]) = Taken(c) + Len(pipe[c])
  <2>1. \A a, b, t \in Nat : t = a - b => a = t + b
    OBVIOUS
  <2>2. QED BY <2>1, TakenIsNat DEF Working, Taken
<1>2. /\ Len(pipe[c]) # 0 /\ Len(pipe'[c]) = Len(pipe[c]) - 1
      /\ Head(pipe[c]) = pipe[c][1]
      /\ DOMAIN pipe'[c] = 1 .. Len(pipe[c]) - 1
      /\ \A k \in 1 .. Len(pipe[c]) - 1 : pipe'[c][k] = pipe[c][k + 1]
  <2>1. pipe[c] \in Seq(Inputs) /\ pipe[c] # <<>> /\ pipe'[c] = Tail(pipe[c])
    BY DEF Takes, TypeOK
  <2>2. QED BY <2>1, TailFacts
<1>3. /\ written' = written /\ accepted' = accepted /\ replies' = replies
      /\ stage[c] = "reading"
      /\ work'[c] = Handling(Head(pipe[c]))
      /\ stage'[c] = AfterTaking(work'[c])
  BY DEF Takes, TypeOK, transport
<1>4. Taken(c)' = Taken(c) + 1
  BY <1>1, <1>2, <1>3 DEF Taken
<1>5. 1 \in DOMAIN pipe[c] /\ Taken(c) + 1 \in 1 .. Len(written[c])
  BY <1>1, <1>2
<1>6. work'[c] = Handling(written[c][Taken(c) + 1])
  BY <1>2, <1>3, <1>5 DEF Working
<1>7. Working(c)'
  <2>1. Len(pipe'[c]) <= Len(written'[c])
    BY <1>1, <1>2, <1>3
  <2>2. ASSUME NEW k \in DOMAIN pipe'[c] PROVE pipe'[c][k] = written'[c][Taken(c) + 1 + k]
    <3>1. k \in 1 .. Len(pipe[c]) - 1 /\ pipe'[c][k] = pipe[c][k + 1]
      BY <1>2
    <3>2. k + 1 \in DOMAIN pipe[c] /\ Taken(c) + (k + 1) = Taken(c) + 1 + k
      <4>1. Len(pipe[c]) \in Nat /\ Taken(c) \in Nat /\ k \in Int
        BY <1>1, <3>1
      <4> QED  BY <1>2, <3>1, <4>1
    <3>3. pipe[c][k + 1] = written[c][Taken(c) + (k + 1)]
      BY <3>2 DEF Working
    <3>4. QED BY <1>3, <3>1, <3>2, <3>3
  <2>3. Taken(c) + 1 # 0
    BY <1>1
  <2>4. stage'[c] # "leaving" /\ (stage'[c] = "sending" => work'[c].event # Control!NoEvent)
    BY <1>3 DEF AfterTaking
  <2>5. work'[c] = Handling(written'[c][Taken(c) + 1])
    BY <1>3, <1>6
  <2>6. Taken(c) + 1 # 0 /\ Handling(written[c][Taken(c)])' = Handling(written'[c][Taken(c)'])
    BY <2>3 DEF Handling
  <2>7. QED BY <1>4, <2>1, <2>2, <2>3, <2>4, <2>5, <2>6 DEF Working
<1>8. QED BY <1>3, <1>4, <1>5, <1>6, <1>7

LEMMA TakesSending ==
  ASSUME TypeOK, NEW c \in Clients, Working(c), Sending(c), Ordered(c), Takes(c)
  PROVE  Sending(c)' /\ Ordered(c)'
<1>1. /\ Taken(c)' = Taken(c) + 1 /\ From(c)' = From(c)
      /\ written' = written /\ accepted' = accepted
      /\ stage[c] = "reading" /\ stage'[c] = AfterTaking(work'[c])
      /\ work'[c] = Handling(written[c][Taken(c) + 1])
  BY TakesNext DEF From
<1>2. Taken(c) \in Nat
  BY TakenIsNat
<1>3. \A m : EventOf(c, m)' = EventOf(c, m)
  BY <1>1 DEF EventOf, Handling
<1>4. \A i \in From(c) : accepted[i].message \in 1 .. Taken(c)
  BY <1>1, <1>2 DEF Sending
<1>5. (\A i \in From(c) : accepted[i].message \in 1 .. Taken(c) + 1)'
  BY <1>1, <1>2, <1>4
<1>6. (\A i \in From(c) : accepted[i].message # Taken(c) + 1)'
  BY <1>1, <1>2, <1>4
<1>7. (\A i \in From(c) : accepted[i].message # Taken(c))'
  BY <1>1, <1>2, <1>4
<1>8. (\A m \in 1 .. Taken(c) : EventOf(c, m) # Control!NoEvent =>
         \/ \E k \in From(c) : accepted[k].message = m
         \/ m = Taken(c) /\ stage[c] \in {"sending", "ended"})'
  <2> SUFFICES ASSUME NEW m \in 1 .. Taken(c) + 1, EventOf(c, m) # Control!NoEvent
               PROVE  \/ \E k \in From(c) : accepted[k].message = m
                      \/ m = Taken(c) + 1 /\ stage'[c] \in {"sending", "ended"}
    BY <1>1, <1>3
  <2>1. CASE m \in 1 .. Taken(c)
    BY <1>1, <2>1 DEF Sending
  <2>2. CASE m = Taken(c) + 1
    BY <1>1, <2>2 DEF EventOf, AfterTaking
  <2>3. QED BY <1>2, <2>1, <2>2
<1>9. Sending(c)'
  BY <1>5, <1>6, <1>7, <1>8 DEF Sending
<1>10. Ordered(c)'
  BY <1>1, <1>3 DEF Ordered
<1>11. QED BY <1>9, <1>10

\* An event that the handler sends: of the message it has taken, or the last.
LEMMA AppendOrdered ==
  ASSUME TypeOK, NEW c \in Clients, Working(c), Sending(c), Ordered(c),
         NEW n \in {Taken(c), Taken(c) + 1}, n # 0,
         NEW e \in ControlEvent \cup {Disconnected}, Send(c, e, n),
         written' = written,
         \A i \in From(c) : accepted[i].message < n,
         \A m \in 1 .. n - 1 : EventOf(c, m) # Control!NoEvent =>
            \E k \in From(c) : accepted[k].message = m,
         e = IF n \in DOMAIN written[c] THEN EventOf(c, n) ELSE Disconnected
  PROVE  Ordered(c)'
<1>1. /\ Taken(c) \in Nat /\ Len(written[c]) \in Nat /\ Taken(c) <= Len(written[c])
  BY TakenIsNat
<1>2. n \in Nat /\ n \in 1 .. Len(written[c]) + 1
  BY <1>1
<1> DEFINE last == Len(accepted) + 1
<1>3. Len(accepted) \in Nat
  BY DEF TypeOK
<1>4. /\ From(c)' = From(c) \cup {last}
      /\ From(c) \subseteq 1 .. Len(accepted)
      /\ \A i \in From(c) : accepted'[i] = accepted[i]
      /\ accepted'[last] = [client |-> c, event |-> e, message |-> n]
  BY <1>2, SendFrom
<1>5. \A m : EventOf(c, m)' = EventOf(c, m)
  BY DEF EventOf, Handling
<1>6. \A i \in From(c) : i < last /\ i # last
  BY <1>3, <1>4
<1>7. ~(last < last)
  BY <1>3
<1>8. /\ accepted'[last].message = n /\ accepted'[last].event = e
  BY <1>4
<1> HIDE DEF last
<1>9. (\A i, j \in From(c) : i < j => accepted[i].message < accepted[j].message)'
  <2> SUFFICES ASSUME NEW i \in From(c) \cup {last}, NEW j \in From(c) \cup {last}, i < j
               PROVE  accepted'[i].message < accepted'[j].message
    BY <1>4
  <2>1. CASE j = last
    BY <1>4, <1>7, <1>8, <2>1
  <2>2. CASE i = last /\ j # last
    BY <1>3, <1>4, <2>2 DEF last
  <2>3. CASE i # last /\ j # last
    BY <1>4, <2>3 DEF Ordered
  <2>4. QED BY <2>1, <2>2, <2>3
<1>10. ASSUME NEW i \in From(c) \cup {last}
       PROVE  LET k == accepted'[i].message
              IN  /\ accepted'[i].event =
                       IF k \in DOMAIN written[c] THEN EventOf(c, k) ELSE Disconnected
                  /\ k \in 1 .. Len(written[c]) + 1
                  /\ \A m \in 1 .. k - 1 : EventOf(c, m) # Control!NoEvent =>
                       \E l \in From(c) \cup {last} : l < i /\ accepted'[l].message = m
  <2>1. CASE i = last
    BY <1>2, <1>4, <1>6, <1>8, <2>1
  <2>2. CASE i \in From(c)
    BY <1>4, <2>2 DEF Ordered
  <2>3. QED BY <2>1, <2>2
<1>11. QED BY <1>4, <1>5, <1>9, <1>10 DEF Ordered

LEMMA SendsSending ==
  ASSUME TypeOK, NEW c \in Clients, Working(c), Sending(c), Ordered(c), Sends(c)
  PROVE  Working(c)' /\ Sending(c)' /\ Ordered(c)'
<1>1. /\ Taken(c) \in Nat /\ Len(written[c]) \in Nat /\ Taken(c) <= Len(written[c])
      /\ DOMAIN written[c] = 1 .. Len(written[c])
  BY TakenIsNat
<1>2. /\ stage[c] = "sending" /\ Taken(c) # 0
      /\ work[c] = Handling(written[c][Taken(c)]) /\ work[c].event # Control!NoEvent
      /\ stage'[c] \in {"replying", "reading"}
      /\ written' = written /\ pipe' = pipe /\ work' = work
      /\ Send(c, work[c].event, Taken(c))
  BY DEF Sends, Working, TypeOK, clients
<1>3. work[c].event = EventOf(c, Taken(c)) /\ work[c].event \in ControlEvent
  BY <1>2, HandlingTypes DEF EventOf, MaybeEvent, TypeOK
<1>4. \A i \in From(c) : accepted[i].message \in 1 .. Taken(c) /\ accepted[i].message < Taken(c)
  BY <1>1, <1>2 DEF Sending
<1>5. \A m \in 1 .. Taken(c) - 1 : EventOf(c, m) # Control!NoEvent =>
        \E k \in From(c) : accepted[k].message = m
  BY <1>1 DEF Sending
<1>6. Taken(c) \in DOMAIN written[c]
  BY <1>1, <1>2
<1>7. Ordered(c)'
  BY <1>1, <1>2, <1>3, <1>4, <1>5, <1>6, AppendOrdered
<1>8. /\ From(c)' = From(c) \cup {Len(accepted) + 1}
      /\ \A i \in From(c) : accepted'[i] = accepted[i]
      /\ accepted'[Len(accepted) + 1].message = Taken(c)
  BY <1>1, <1>2, <1>3, SendFromOwn
<1>9. Taken(c)' = Taken(c)
  BY <1>2 DEF Taken
<1>10. \A m : EventOf(c, m)' = EventOf(c, m)
  BY <1>2 DEF EventOf, Handling
<1>11. \A i \in From(c)' : accepted'[i].message \in 1 .. Taken(c)
  BY <1>1, <1>2, <1>4, <1>8
<1>12. (\A m \in 1 .. Taken(c) : EventOf(c, m) # Control!NoEvent =>
          \/ \E k \in From(c) : accepted[k].message = m
          \/ m = Taken(c) /\ stage[c] \in {"sending", "ended"})'
  <2> SUFFICES ASSUME NEW m \in 1 .. Taken(c), EventOf(c, m) # Control!NoEvent
               PROVE  \E k \in From(c)' : accepted'[k].message = m
    BY <1>9, <1>10
  <2>1. CASE m = Taken(c)
    BY <1>8, <2>1
  <2>2. CASE m \in 1 .. Taken(c) - 1
    BY <1>5, <1>8, <2>2
  <2>3. QED BY <1>1, <2>1, <2>2
<1>13. Sending(c)'
  <2>1. (\A i \in From(c) : accepted[i].message \in 1 .. Taken(c) + 1)'
    BY <1>1, <1>9, <1>11
  <2>2. (\A i \in From(c) : accepted[i].message # Taken(c) + 1)'
    BY <1>1, <1>9, <1>11
  <2>3. QED BY <1>2, <1>12, <2>1, <2>2 DEF Sending
<1>14. Working(c)'
  BY <1>2, <1>9 DEF Working, Handling
<1>15. QED BY <1>7, <1>13, <1>14

LEMMA LeavesSending ==
  ASSUME TypeOK, NEW c \in Clients, Working(c), Sending(c), Ordered(c), Leaves(c)
  PROVE  Working(c)' /\ Sending(c)' /\ Ordered(c)'
<1>1. /\ Taken(c) \in Nat /\ Len(written[c]) \in Nat /\ Taken(c) <= Len(written[c])
      /\ DOMAIN written[c] = 1 .. Len(written[c])
  BY TakenIsNat
<1>2. /\ stage[c] = "leaving" /\ pipe[c] = <<>> /\ stage'[c] = "ended"
      /\ written' = written /\ pipe' = pipe /\ work' = work
      /\ Send(c, Disconnected, Taken(c) + 1)
  BY DEF Leaves, Working, TypeOK, clients
<1>3. Taken(c) = Len(written[c]) /\ Taken(c) + 1 \notin DOMAIN written[c]
  <2>1. Len(pipe[c]) = 0
    BY <1>2
  <2>2. QED BY <1>1, <2>1 DEF Taken
<1>4. \A i \in From(c) : accepted[i].message \in 1 .. Taken(c)
  BY <1>1, <1>2 DEF Sending
<1>5. \A m \in 1 .. Taken(c) : EventOf(c, m) # Control!NoEvent =>
        \E k \in From(c) : accepted[k].message = m
  BY <1>2 DEF Sending
<1>6. Ordered(c)'
  <2>1. \A i \in From(c) : accepted[i].message < Taken(c) + 1
    BY <1>1, <1>4
  <2>2. Taken(c) + 1 # 0 /\ 1 .. Taken(c) + 1 - 1 = 1 .. Taken(c)
    BY <1>1
  <2>3. QED BY <1>2, <1>3, <1>5, <2>1, <2>2, AppendOrdered
<1>7. /\ From(c)' = From(c) \cup {Len(accepted) + 1}
      /\ \A i \in From(c) : accepted'[i] = accepted[i]
      /\ accepted'[Len(accepted) + 1].message = Taken(c) + 1
  BY <1>1, <1>2, SendFromOwn
<1>8. Taken(c)' = Taken(c)
  BY <1>2 DEF Taken
<1>9. \A m : EventOf(c, m)' = EventOf(c, m)
  BY <1>2 DEF EventOf, Handling
<1>10. Sending(c)'
  <2>1. (\A i \in From(c) : accepted[i].message \in 1 .. Taken(c) + 1)'
    BY <1>1, <1>4, <1>7, <1>8
  <2>2. (\A m \in 1 .. Taken(c) : EventOf(c, m) # Control!NoEvent =>
           \E k \in From(c) : accepted[k].message = m)'
    BY <1>5, <1>7, <1>8, <1>9
  <2>3. QED BY <1>2, <2>1, <2>2 DEF Sending
<1>11. Working(c)'
  BY <1>2, <1>8 DEF Working, Handling
<1>12. QED BY <1>6, <1>10, <1>11

-----------------------------------------------------------------------------
(* Replies *)

\* What a reply has promised stays true while the client gets no other.
LEMMA PromisedStays ==
  ASSUME TypeOK, NEW c \in Clients, Promised(c), Grows(c), TypeOK',
         replies'[c] = replies[c]
  PROVE  Promised(c)'
<1>1. /\ Len(written[c]) \in Nat /\ DOMAIN written[c] = 1 .. Len(written[c])
      /\ Len(written'[c]) \in Nat /\ DOMAIN written'[c] = 1 .. Len(written'[c])
  BY DEF TypeOK
<1>2. /\ DOMAIN written[c] \subseteq DOMAIN written'[c]
      /\ \A k \in From(c) : k \in From(c)' /\ accepted'[k] = accepted[k]
  BY <1>1 DEF Grows
<1>3. \A m \in DOMAIN written[c] :
        EventOf(c, m)' = EventOf(c, m) /\ ReplyOf(c, m)' = ReplyOf(c, m)
  BY <1>1, SameOf
<1>4. ASSUME NEW i \in DOMAIN replies[c], NEW n, n = replies[c][i].message
      PROVE  /\ n \in DOMAIN written'[c]
             /\ replies[c][i].reply = ReplyOf(c, n)'
             /\ \A m \in 1 .. n :
                  /\ EventOf(c, m)' # Control!NoEvent =>
                       \E k \in From(c)' : accepted'[k].message = m
                  /\ ReplyOf(c, m)' # Control!NoReply =>
                       \E k \in DOMAIN replies[c] : replies[c][k].message = m
  <2>1. n \in DOMAIN written[c] /\ replies[c][i].reply = ReplyOf(c, n)
    BY <1>4 DEF Promised
  <2>2. \A m \in 1 .. n : m \in DOMAIN written[c]
    BY <1>1, <2>1
  <2>3. ASSUME NEW m \in 1 .. n
        PROVE  /\ EventOf(c, m)' # Control!NoEvent =>
                    \E k \in From(c)' : accepted'[k].message = m
               /\ ReplyOf(c, m)' # Control!NoReply =>
                    \E k \in DOMAIN replies[c] : replies[c][k].message = m
    <3>1. EventOf(c, m)' = EventOf(c, m) /\ ReplyOf(c, m)' = ReplyOf(c, m)
      BY <1>3, <2>2
    <3>2. /\ EventOf(c, m) # Control!NoEvent =>
               \E k \in From(c) : accepted[k].message = m
          /\ ReplyOf(c, m) # Control!NoReply =>
               \E k \in DOMAIN replies[c] : replies[c][k].message = m
      BY <1>4 DEF Promised
    <3>3. QED BY <1>2, <3>1, <3>2
  <2>4. ReplyOf(c, n)' = ReplyOf(c, n)
    BY <1>3, <2>1
  <2>5. QED BY <1>2, <2>1, <2>3, <2>4
<1>5. (\A i, j \in DOMAIN replies[c] :
         i < j => replies[c][i].message < replies[c][j].message)'
  BY DEF Promised
<1>6. QED BY <1>4, <1>5 DEF Promised

LEMMA QuietReplying ==
  ASSUME TypeOK, NEW c \in Clients, Working(c), Replying(c), Quiet(c)
  PROVE  Replying(c)'
<1>1. /\ Calm(c) /\ Grows(c) /\ replies'[c] = replies[c]
      /\ Taken(c)' = Taken(c)
  BY CalmTaken DEF Quiet, Calm
<1>2. /\ stage'[c] \in {"sending", "replying"} => stage[c] \in {"sending", "replying"}
      /\ stage[c] \in {"sending", "replying", "ended"} =>
           stage'[c] \in {"sending", "replying", "ended"}
  BY DEF Quiet, Calm, Turns
<1>3. \A m \in 1 .. Taken(c) : m \in 1 .. Len(written[c])
  BY TakenIsNat
<1>4. \A m \in 1 .. Taken(c) : ReplyOf(c, m)' = ReplyOf(c, m)
  BY <1>1, <1>3, SameOf
<1>5. QED BY <1>1, <1>2, <1>4 DEF Replying

LEMMA TakesReplying ==
  ASSUME TypeOK, NEW c \in Clients, Working(c), Replying(c), Takes(c)
  PROVE  Replying(c)'
<1>1. /\ Taken(c)' = Taken(c) + 1
      /\ written' = written /\ replies' = replies
      /\ stage[c] = "reading" /\ stage'[c] = AfterTaking(work'[c])
      /\ work'[c] = Handling(written[c][Taken(c) + 1])
  BY TakesNext
<1>2. Taken(c) \in Nat
  BY TakenIsNat
<1>3. \A m : ReplyOf(c, m)' = ReplyOf(c, m)
  BY <1>1 DEF ReplyOf, Handling
<1>4. \A i \in DOMAIN replies[c] : replies[c][i].message \in 1 .. Taken(c)
  BY DEF Replying
<1>5. (\A i \in DOMAIN replies[c] : replies[c][i].message \in 1 .. Taken(c))'
  BY <1>1, <1>2, <1>4
<1>6. (\A i \in DOMAIN replies[c] : replies[c][i].message # Taken(c))'
  BY <1>1, <1>2, <1>4
<1>7. (\A m \in 1 .. Taken(c) : ReplyOf(c, m) # Control!NoReply =>
         \/ \E k \in DOMAIN replies[c] : replies[c][k].message = m
         \/ m = Taken(c) /\ stage[c] \in {"sending", "replying", "ended"})'
  <2> SUFFICES ASSUME NEW m \in 1 .. Taken(c) + 1, ReplyOf(c, m) # Control!NoReply
               PROVE  \/ \E k \in DOMAIN replies[c] : replies[c][k].message = m
                      \/ m = Taken(c) + 1 /\ stage'[c] \in {"sending", "replying"}
    BY <1>1, <1>3
  <2>1. CASE m \in 1 .. Taken(c)
    BY <1>1, <2>1 DEF Replying
  <2>2. CASE m = Taken(c) + 1
    BY <1>1, <2>2 DEF ReplyOf, AfterTaking
  <2>3. QED BY <1>2, <2>1, <2>2
<1>8. QED BY <1>5, <1>6, <1>7 DEF Replying

LEMMA SendsReplying ==
  ASSUME TypeOK, NEW c \in Clients, Working(c), Replying(c), Sends(c) \/ Leaves(c)
  PROVE  Replying(c)'
<1>1. /\ written' = written /\ replies' = replies /\ Taken(c)' = Taken(c)
  BY DEF Sends, Leaves, clients, Taken
<1>2. \A m : ReplyOf(c, m)' = ReplyOf(c, m)
  BY <1>1 DEF ReplyOf, Handling
<1>3. CASE Sends(c)
  <2>1. /\ stage[c] = "sending"
        /\ stage'[c] = IF work[c].reply # Control!NoReply THEN "replying" ELSE "reading"
        /\ work[c].reply = ReplyOf(c, Taken(c))
    BY <1>3 DEF Sends, Working, ReplyOf, TypeOK
  <2>2. QED BY <1>1, <1>2, <2>1 DEF Replying
<1>4. CASE Leaves(c)
  <2>1. stage[c] = "leaving" /\ stage'[c] = "ended"
    BY <1>4 DEF Leaves, TypeOK
  <2>2. QED BY <1>1, <1>2, <2>1 DEF Replying
<1>5. QED BY <1>3, <1>4

\* A reply is written: it is the next one, and all it promises is in place.
LEMMA RepliesReplying ==
  ASSUME TypeOK, NEW c \in Clients, Working(c), Sending(c), Replying(c), Promised(c),
         Replies(c)
  PROVE  Replying(c)' /\ Promised(c)'
<1>1. /\ Taken(c) \in Nat /\ Taken(c) # 0 /\ Taken(c) <= Len(written[c])
      /\ Len(written[c]) \in Nat /\ DOMAIN written[c] = 1 .. Len(written[c])
      /\ Taken(c) \in DOMAIN written[c]
  <2>1. Taken(c) # 0
    BY DEF Replies, Working
  <2>2. QED BY <2>1, TakenIsNat
<1> DEFINE answer == [reply |-> work[c].reply, message |-> Taken(c)]
           last == Len(replies[c]) + 1
<1>2. /\ stage[c] = "replying" /\ stage'[c] = "reading"
      /\ written' = written /\ accepted' = accepted
      /\ replies'[c] = Append(replies[c], answer)
      /\ Taken(c)' = Taken(c)
  BY DEF Replies, clients, transport, TypeOK, Taken
<1>3. answer.reply = ReplyOf(c, Taken(c)) /\ answer.message = Taken(c)
  BY <1>2 DEF Working, ReplyOf
<1>4. replies[c] \in Seq(Answer) /\ answer \in Answer
  BY <1>1 DEF TypeOK, Answer
<1>5. /\ Len(replies[c]) \in Nat
      /\ DOMAIN replies[c] = 1 .. Len(replies[c])
      /\ DOMAIN replies'[c] = 1 .. last
      /\ \A k \in DOMAIN replies[c] : replies'[c][k] = replies[c][k]
      /\ replies'[c][last] = answer
  BY <1>2, <1>4, AppendFacts
<1>6. DOMAIN replies'[c] = DOMAIN replies[c] \cup {last}
  BY <1>5
<1>7. \A k \in DOMAIN replies[c] : k < last
  BY <1>5
<1>8. /\ replies'[c][last].reply = ReplyOf(c, Taken(c))
      /\ replies'[c][last].message = Taken(c)
  BY <1>3, <1>5
<1>9. last \in Nat
  BY <1>5
<1>10. \A m : /\ ReplyOf(c, m)' = ReplyOf(c, m) /\ EventOf(c, m)' = EventOf(c, m)
  BY <1>2 DEF ReplyOf, EventOf, Handling
<1>11. From(c)' = From(c)
  BY <1>2 DEF From
<1>12. \A k \in DOMAIN replies[c] :
         replies[c][k].message \in 1 .. Taken(c) /\ replies[c][k].message < Taken(c)
  BY <1>1, <1>2 DEF Replying
<1>13. \A m \in 1 .. Taken(c) : EventOf(c, m) # Control!NoEvent =>
         \E k \in From(c) : accepted[k].message = m
  BY <1>2 DEF Sending
<1>14. \A m \in 1 .. Taken(c) : ReplyOf(c, m) # Control!NoReply =>
         \E k \in DOMAIN replies'[c] : replies'[c][k].message = m
  <2> SUFFICES ASSUME NEW m \in 1 .. Taken(c), ReplyOf(c, m) # Control!NoReply
               PROVE  \E k \in DOMAIN replies'[c] : replies'[c][k].message = m
    OBVIOUS
  <2>1. CASE m = Taken(c)
    BY <1>6, <1>8, <2>1
  <2>2. CASE m # Taken(c)
    <3>1. PICK k \in DOMAIN replies[c] : replies[c][k].message = m
      BY <2>2 DEF Replying
    <3>2. QED BY <1>5, <1>6, <3>1
  <2>3. QED BY <2>1, <2>2
<1> HIDE DEF last, answer
<1>15. Replying(c)'
  <2>1. (\A i \in DOMAIN replies[c] : replies[c][i].message \in 1 .. Taken(c))'
    BY <1>1, <1>2, <1>5, <1>6, <1>8, <1>12
  <2>2. QED BY <1>2, <1>10, <1>14, <2>1 DEF Replying
<1>16. Promised(c)'
  <2>1. (\A i, j \in DOMAIN replies[c] :
           i < j => replies[c][i].message < replies[c][j].message)'
    <3> SUFFICES ASSUME NEW i \in DOMAIN replies[c] \cup {last},
                        NEW j \in DOMAIN replies[c] \cup {last}, i < j
                 PROVE  replies'[c][i].message < replies'[c][j].message
      BY <1>6
    <3>1. CASE i # last /\ j # last
      BY <1>5, <3>1 DEF Promised
    <3>2. CASE i # last /\ j = last
      BY <1>5, <1>8, <1>12, <3>2
    <3>3. CASE i = last
      BY <1>5, <1>7, <1>9, <3>3
    <3>4. QED BY <3>1, <3>2, <3>3
  <2>2. ASSUME NEW i \in DOMAIN replies[c] \cup {last}, NEW n,
               n = replies'[c][i].message
        PROVE  /\ n \in DOMAIN written[c]
               /\ replies'[c][i].reply = ReplyOf(c, n)
               /\ \A m \in 1 .. n :
                    /\ EventOf(c, m) # Control!NoEvent =>
                         \E k \in From(c) : accepted[k].message = m
                    /\ ReplyOf(c, m) # Control!NoReply =>
                         \E k \in DOMAIN replies'[c] : replies'[c][k].message = m
    <3>1. n \in 1 .. Taken(c)
      BY <1>1, <1>5, <1>8, <1>12, <2>2
    <3>2. \A m \in 1 .. n : m \in 1 .. Taken(c)
      BY <1>1, <3>1
    <3>3. n \in DOMAIN written[c]
      BY <1>1, <3>1
    <3>4. replies'[c][i].reply = ReplyOf(c, n)
      BY <1>5, <1>8, <2>2 DEF Promised
    <3>5. QED BY <1>13, <1>14, <3>2, <3>3, <3>4
  <2>3. QED BY <1>2, <1>6, <1>10, <1>11, <2>1, <2>2 DEF Promised
<1>17. QED BY <1>15, <1>16

-----------------------------------------------------------------------------
(* The main loop *)

LEMMA CountsAreNat ==
  ASSUME TypeOK, ChannelInv
  PROVE  /\ Len(channel) \in Nat /\ Len(accepted) \in Nat /\ AppliedCount \in Nat
         /\ DOMAIN channel = 1 .. Len(channel)
         /\ Len(accepted) = AppliedCount + Len(channel)
<1>1. /\ Len(channel) \in Nat /\ Len(accepted) \in Nat
      /\ DOMAIN channel = 1 .. Len(channel)
  BY DEF TypeOK
<1>2. Len(channel) <= Len(accepted)
  BY DEF ChannelInv
<1>3. \A a, b \in Nat : b <= a => a - b \in Nat /\ a = (a - b) + b
  OBVIOUS
<1>4. QED BY <1>1, <1>2, <1>3 DEF AppliedCount

\* What the heap loses is executed.
Dispatches ==
  /\ queue' \subseteq queue
  /\ executed \subseteq executed'
  /\ \A c \in queue \ queue' : \E x \in executed' : x.cmd = c

LEMMA DispatchAtDispatches ==
  ASSUME NEW times, DispatchAt(times)
  PROVE  Dispatches /\ \A c \in queue' : \A t \in times : c.timestamp > t
<1>1. queue' \subseteq queue /\ \A c \in queue' : \A t \in times : c.timestamp > t
  BY DEF DispatchAt, QueueAfter
<1>2. executed \subseteq executed'
  BY DEF DispatchAt
<1>3. ASSUME NEW c \in queue \ queue' PROVE \E x \in executed' : x.cmd = c
  <2>1. [cmd |-> c, at |-> Min({t \in times : t >= c.timestamp})] \in executed'
    BY <1>3 DEF DispatchAt, Executions
  <2>2. QED BY <2>1
<1>4. QED BY <1>1, <1>2, <1>3 DEF Dispatches

\* The same of one event of the main loop.
LEMMA HeapKept ==
  ASSUME HeapInv, Dispatches
  PROVE  /\ \A c \in queue' : c.id <= AppliedCount
         /\ \A i \in 1 .. AppliedCount : accepted[i].event.kind = "scheduled" =>
              \/ \E c \in queue' : c.id = i /\ c.timestamp = accepted[i].event.n
              \/ \E x \in executed' : x.cmd.id = i
         /\ \A j \in 1 .. AppliedCount : accepted[j].event.kind = "advance" =>
              \A c \in queue' : c.id < j => c.timestamp > accepted[j].event.n
<1>1. \A c \in queue' : c \in queue
  BY DEF Dispatches
<1>2. ASSUME NEW i \in 1 .. AppliedCount, accepted[i].event.kind = "scheduled"
      PROVE  \/ \E c \in queue' : c.id = i /\ c.timestamp = accepted[i].event.n
             \/ \E x \in executed' : x.cmd.id = i
  <2>1. CASE \E c \in queue : c.id = i /\ c.timestamp = accepted[i].event.n
    <3>1. PICK c \in queue : c.id = i /\ c.timestamp = accepted[i].event.n
      BY <2>1
    <3>2. c \notin queue' => \E x \in executed' : x.cmd = c
      BY DEF Dispatches
    <3>3. QED BY <3>1, <3>2
  <2>2. CASE \E x \in executed : x.cmd.id = i
    BY <2>2 DEF Dispatches
  <2>3. QED BY <1>2, <2>1, <2>2 DEF HeapInv
<1>3. QED BY <1>1, <1>2 DEF HeapInv

\* A send does not reach the main loop.
LEMMA SendHeap ==
  ASSUME TypeOK, ChannelInv, HeapInv,
         NEW c \in Clients, NEW n \in Nat, NEW e \in ControlEvent \cup {Disconnected},
         Send(c, e, n), queue' = queue, executed' = executed
  PROVE  ChannelInv' /\ HeapInv'
<1> DEFINE entry == [client |-> c, event |-> e, message |-> n]
<1>1. /\ Len(channel) \in Nat /\ Len(accepted) \in Nat /\ AppliedCount \in Nat
      /\ DOMAIN channel = 1 .. Len(channel)
      /\ Len(accepted) = AppliedCount + Len(channel)
  BY CountsAreNat
<1>2. /\ channel' = Append(channel, entry) /\ accepted' = Append(accepted, entry)
      /\ entry \in Sent /\ channel \in Seq(Sent) /\ accepted \in Seq(Sent)
  BY DEF Send, Sent, TypeOK
<1>3. /\ Len(channel') = Len(channel) + 1
      /\ DOMAIN channel' = 1 .. Len(channel) + 1
      /\ \A k \in 1 .. Len(channel) : channel'[k] = channel[k]
      /\ channel'[Len(channel) + 1] = entry
  BY <1>2, AppendFacts
<1>4. /\ Len(accepted') = Len(accepted) + 1
      /\ \A k \in 1 .. Len(accepted) : accepted'[k] = accepted[k]
      /\ accepted'[Len(accepted) + 1] = entry
  BY <1>2, AppendFacts
<1> HIDE DEF entry
<1>5. AppliedCount' = AppliedCount
  BY <1>1, <1>3, <1>4 DEF AppliedCount
<1>6. ChannelInv'
  <2>1. Len(channel') <= Len(accepted')
    BY <1>1, <1>3, <1>4
  <2>2. ASSUME NEW k \in 1 .. Len(channel) + 1
        PROVE  channel'[k] = accepted'[AppliedCount + k]
    <3>1. CASE k \in 1 .. Len(channel)
      <4>1. AppliedCount + k \in 1 .. Len(accepted)
        BY <1>1, <3>1
      <4>2. channel[k] = accepted[AppliedCount + k]
        BY <1>1, <3>1 DEF ChannelInv
      <4>3. QED BY <1>3, <1>4, <3>1, <4>1, <4>2
    <3>2. CASE k = Len(channel) + 1
      <4>1. AppliedCount + k = Len(accepted) + 1
        BY <1>1, <3>2
      <4>2. QED BY <1>3, <1>4, <3>2, <4>1
    <3>3. QED BY <1>1, <3>1, <3>2
  <2>3. QED BY <1>3, <1>5, <2>1, <2>2 DEF ChannelInv
<1>7. \A i \in 1 .. AppliedCount : accepted'[i] = accepted[i]
  <2>1. \A i \in 1 .. AppliedCount : i \in 1 .. Len(accepted)
    BY <1>1
  <2>2. QED BY <1>4, <2>1
<1>8. HeapInv'
  BY <1>5, <1>7 DEF HeapInv
<1>9. QED BY <1>6, <1>8

LEMMA ReceiveHeap ==
  ASSUME TypeOK, ChannelInv, HeapInv, MainReceives
  PROVE  ChannelInv' /\ HeapInv'
<1> DEFINE e == Head(channel).event
           new == AppliedCount + 1
<1>1. /\ Len(channel) \in Nat /\ Len(accepted) \in Nat /\ AppliedCount \in Nat
      /\ DOMAIN channel = 1 .. Len(channel)
      /\ Len(accepted) = AppliedCount + Len(channel)
  BY CountsAreNat
<1>2. /\ channel # <<>> /\ channel' = Tail(channel) /\ accepted' = accepted
      /\ channel \in Seq(Sent)
  BY DEF MainReceives, TypeOK
<1>3. /\ Len(channel) # 0 /\ Len(channel') = Len(channel) - 1
      /\ Head(channel) \in Sent /\ Head(channel) = channel[1]
      /\ DOMAIN channel' = 1 .. Len(channel) - 1
      /\ \A k \in 1 .. Len(channel) - 1 : channel'[k] = channel[k + 1]
  BY <1>2, TailFacts
<1>4. AppliedCount' = new /\ new \in Nat
  BY <1>1, <1>2, <1>3 DEF AppliedCount
<1>5. ChannelInv'
  <2>1. Len(channel') <= Len(accepted')
    BY <1>1, <1>2, <1>3
  <2>2. ASSUME NEW k \in DOMAIN channel' PROVE channel'[k] = accepted[new + k]
    <3>1. k \in 1 .. Len(channel) - 1 /\ channel'[k] = channel[k + 1]
      BY <1>3
    <3>2. k \in Nat /\ k + 1 \in DOMAIN channel
      BY <1>1, <3>1
    <3>3. AppliedCount + (k + 1) = new + k
      BY <1>1, <3>2
    <3>4. channel[k + 1] = accepted[AppliedCount + (k + 1)]
      BY <3>2 DEF ChannelInv
    <3>5. QED BY <3>1, <3>3, <3>4
  <2>3. QED BY <1>2, <1>4, <2>1, <2>2 DEF ChannelInv
<1>6. accepted[new].event = e
  <2>1. 1 \in DOMAIN channel
    BY <1>1, <1>3
  <2>2. QED BY <1>3, <2>1 DEF ChannelInv
<1>7. e \in ControlEvent \cup {Disconnected}
  BY <1>3 DEF Sent
<1>8. Apply(e)
  BY DEF MainReceives
<1>9. \A i \in 1 .. new : i = new \/ i \in 1 .. AppliedCount
  BY <1>1
<1> HIDE DEF e
\* What is left to show, with the new event apart from the others.
<1>10. HeapInv' <=>
         /\ \A c \in queue' : c.id <= new
         /\ \A i \in 1 .. new : accepted[i].event.kind = "scheduled" =>
              \/ \E c \in queue' : c.id = i /\ c.timestamp = accepted[i].event.n
              \/ \E x \in executed' : x.cmd.id = i
         /\ \A j \in 1 .. new : accepted[j].event.kind = "advance" =>
              \A c \in queue' : c.id < j => c.timestamp > accepted[j].event.n
  BY <1>2, <1>4 DEF HeapInv
<1>11. \A c \in queue : c.id \in Nat \ {0}
  BY DEF TypeOK, ScheduledCommand
<1>12. \A c \in queue : c.id <= AppliedCount /\ c.id <= new
  BY <1>1, <1>11 DEF HeapInv
<1>13. CASE e.kind = "scheduled" /\ Enqueue(e.n)
  <2>1. PICK p \in Payload : queue' = queue \cup
          {[timestamp |-> e.n, command |-> p, accepted |-> current, id |-> new]}
    BY <1>13 DEF Enqueue, AppliedCount
  <2> DEFINE item == [timestamp |-> e.n, command |-> p, accepted |-> current,
                      id |-> new]
  <2>2. queue' = queue \cup {item} /\ item.id = new /\ item.timestamp = e.n
    BY <2>1
  <2> HIDE DEF item
  <2>3. executed' = executed
    BY <1>13 DEF Enqueue
  <2>4. \A c \in queue' : c.id <= new
    BY <1>4, <1>12, <2>2
  <2>5. ASSUME NEW i \in 1 .. new, accepted[i].event.kind = "scheduled"
        PROVE  \/ \E c \in queue' : c.id = i /\ c.timestamp = accepted[i].event.n
               \/ \E x \in executed' : x.cmd.id = i
    <3>1. CASE i = new
      BY <1>6, <2>2, <3>1
    <3>2. CASE i \in 1 .. AppliedCount
      BY <2>2, <2>3, <2>5, <3>2 DEF HeapInv
    <3>3. QED BY <1>9, <3>1, <3>2
  <2>6. ASSUME NEW j \in 1 .. new, accepted[j].event.kind = "advance",
               NEW c \in queue', c.id < j
        PROVE  c.timestamp > accepted[j].event.n
    <3>1. j \in 1 .. AppliedCount
      BY <1>6, <1>9, <1>13, <2>6
    <3>2. c \in queue
      BY <1>1, <2>2, <2>6, <3>1
    <3>3. QED BY <2>6, <3>1, <3>2 DEF HeapInv
  <2>7. QED BY <1>5, <1>10, <2>4, <2>5, <2>6
<1>14. ASSUME e.kind # "scheduled", Dispatches,
              e.kind = "advance" => \A c \in queue' : c.timestamp > e.n
       PROVE  HeapInv'
  <2>1. \A c \in queue' : c.id <= new
    BY <1>12, <1>14 DEF Dispatches
  <2>2. ASSUME NEW i \in 1 .. new, accepted[i].event.kind = "scheduled"
        PROVE  \/ \E c \in queue' : c.id = i /\ c.timestamp = accepted[i].event.n
               \/ \E x \in executed' : x.cmd.id = i
    BY <1>6, <1>9, <1>14, <2>2, HeapKept
  <2>3. ASSUME NEW j \in 1 .. new, accepted[j].event.kind = "advance",
               NEW c \in queue', c.id < j
        PROVE  c.timestamp > accepted[j].event.n
    BY <1>6, <1>9, <1>14, <2>3, HeapKept
  <2>4. QED BY <1>10, <2>1, <2>2, <2>3
<1>15. CASE e.kind = "advance" /\ DispatchAt({Forward(current, e.n)})
  <2>1. e.n \in Time /\ current \in Time
    BY <1>7, <1>15, EventParts DEF TypeOK
  <2>2. Forward(current, e.n) >= e.n /\ Forward(current, e.n) \in Nat /\ e.n \in Nat
    BY <2>1, MaxTimeAssumption DEF Forward, Time
  <2>3. Dispatches /\ \A c \in queue' : c.timestamp > Forward(current, e.n)
    BY <1>15, DispatchAtDispatches
  <2>4. \A c \in queue' : c.timestamp \in Nat
    BY <2>3, MaxTimeAssumption DEF Dispatches, TypeOK, ScheduledCommand, Time
  <2>5. \A c \in queue' : c.timestamp > e.n
    BY <2>2, <2>3, <2>4
  <2>6. QED BY <1>5, <1>14, <1>15, <2>3, <2>5
<1>16. ASSUME NEW delta, NEW n, e.kind \in {"tick", "step", "run"}, RunSteps(delta, n)
       PROVE  HeapInv'
  BY <1>14, <1>16, DispatchAtDispatches DEF RunSteps
<1>17. CASE /\ e.kind \notin {"scheduled", "advance"} /\ UNCHANGED <<queue, executed>>
  BY <1>5, <1>14, <1>17 DEF Dispatches
<1>18. QED
  BY <1>5, <1>8, <1>13, <1>15, <1>16, <1>17 DEF Apply, SetTicking, mainLoop

LEMMA HeapStep ==
  ASSUME TypeOK, WorkingInv, ChannelInv, HeapInv, [Next]_vars
  PROVE  ChannelInv' /\ HeapInv'
<1>1. CASE UNCHANGED <<transport, queue, executed>>
  BY <1>1 DEF ChannelInv, HeapInv, AppliedCount, transport
<1>2. ASSUME NEW c \in Clients, Sends(c) PROVE ChannelInv' /\ HeapInv'
  <2>1. Taken(c) \in Nat
    BY TakenIsNat DEF WorkingInv
  <2>2. work[c].event \in ControlEvent
    BY <1>2, HandlingTypes DEF Sends, WorkingInv, Working, MaybeEvent, TypeOK
  <2>3. Send(c, work[c].event, Taken(c)) /\ queue' = queue /\ executed' = executed
    BY <1>2 DEF Sends, mainLoop
  <2>4. QED BY <2>1, <2>2, <2>3, SendHeap
<1>3. ASSUME NEW c \in Clients, Leaves(c) PROVE ChannelInv' /\ HeapInv'
  <2>1. Taken(c) + 1 \in Nat
    BY TakenIsNat DEF WorkingInv
  <2>2. Send(c, Disconnected, Taken(c) + 1) /\ queue' = queue /\ executed' = executed
    BY <1>3 DEF Leaves, mainLoop
  <2>3. QED BY <2>1, <2>2, SendHeap
<1>4. CASE MainReceives
  BY <1>4, ReceiveHeap
<1>5. CASE MainTicks
  <2>1. Dispatches /\ UNCHANGED transport
    BY <1>5, DispatchAtDispatches DEF MainTicks, RunSteps
  <2>2. accepted' = accepted /\ channel' = channel /\ AppliedCount' = AppliedCount
    BY <2>1 DEF transport, AppliedCount
  <2>3. HeapInv'
    BY <2>1, <2>2, HeapKept DEF HeapInv
  <2>4. QED BY <2>2, <2>3 DEF ChannelInv
<1>6. CASE ListenerFails
  BY <1>1, <1>6 DEF ListenerFails, mainLoop
<1>7. ASSUME NEW c \in Clients,
             \/ Connects(c) \/ \E input \in Inputs : Writes(c, input)
             \/ Closes(c) \/ Takes(c) \/ SendFails(c) \/ Replies(c)
             \/ ReplyFails(c) \/ SeesEnd(c) \/ ReadFails(c)
      PROVE  UNCHANGED <<transport, queue, executed>>
  BY <1>7 DEF Connects, Writes, Closes, Takes, SendFails, Replies, ReplyFails,
              SeesEnd, ReadFails, mainLoop
<1>8. CASE UNCHANGED vars
  BY <1>1, <1>8 DEF vars, mainLoop
<1>9. QED
  BY <1>1, <1>2, <1>3, <1>4, <1>5, <1>6, <1>7, <1>8 DEF Next

-----------------------------------------------------------------------------
(* The theorems *)

\* The inductive invariant: where each handler is in what its client wrote,
\* how far the events and the replies have come, and what the main loop has
\* made of the events it received.
ListenerInv ==
  /\ TypeOK
  /\ WorkingInv
  /\ ChannelInv
  /\ HeapInv
  /\ \A c \in Clients : Sending(c) /\ Ordered(c) /\ Replying(c) /\ Promised(c)

LEMMA ListenerInvInit ==
  Init => ListenerInv
<1> SUFFICES ASSUME Init PROVE ListenerInv
  OBVIOUS
<1>1. TypeOK
  BY TypeInit
<1>2. \A c \in Clients : Taken(c) = 0 /\ From(c) = {} /\ DOMAIN replies[c] = {}
  BY DEF Init, Taken, From
<1>3. WorkingInv
  BY <1>2 DEF Init, WorkingInv, Working
<1>4. ChannelInv /\ HeapInv
  <2>1. AppliedCount = 0
    BY DEF Init, AppliedCount
  <2>2. QED BY <2>1 DEF Init, ChannelInv, HeapInv
<1>5. \A c \in Clients : Sending(c) /\ Replying(c)
  BY <1>2 DEF Init, Sending, Replying
<1>6. \A c \in Clients : Ordered(c) /\ Promised(c)
  BY <1>2 DEF Ordered, Promised
<1>7. QED BY <1>1, <1>3, <1>4, <1>5, <1>6 DEF ListenerInv

LEMMA ListenerInvStep ==
  ListenerInv /\ [Next]_vars => ListenerInv'
<1> SUFFICES ASSUME ListenerInv, [Next]_vars PROVE ListenerInv'
  OBVIOUS
<1>1. TypeOK /\ WorkingInv /\ ChannelInv /\ HeapInv
  BY DEF ListenerInv
<1>2. TypeOK' /\ ChannelInv' /\ HeapInv'
  BY <1>1, TypeStep, HeapStep
<1>3. ASSUME NEW c \in Clients
      PROVE  /\ Working(c)' /\ Sending(c)' /\ Ordered(c)'
             /\ Replying(c)' /\ Promised(c)'
  <2>1. Working(c) /\ Sending(c) /\ Ordered(c) /\ Replying(c) /\ Promised(c)
    BY DEF ListenerInv, WorkingInv
  <2>2. CASE Quiet(c)
    <3>1. Calm(c) /\ Grows(c) /\ replies'[c] = replies[c]
      BY <2>2 DEF Quiet, Calm
    <3>2. QED
      BY <1>1, <1>2, <2>1, <2>2, <3>1, CalmTaken, CalmSending, QuietReplying, PromisedStays
  <2>3. CASE Takes(c)
    <3>1. Grows(c) /\ replies'[c] = replies[c]
      BY <1>1, <2>1, <2>3, TakesNext, SameGrows
    <3>2. QED
      BY <1>1, <1>2, <2>1, <2>3, <3>1, TakesNext, TakesSending, TakesReplying, PromisedStays
  <2>4. CASE Sends(c)
    <3>1. Taken(c) \in Nat /\ work[c].event \in ControlEvent
      BY <1>1, <2>1, <2>4, TakenIsNat, HandlingTypes
         DEF Sends, Working, MaybeEvent, TypeOK
    <3>2. Grows(c) /\ replies'[c] = replies[c]
      BY <1>1, <2>4, <3>1, OtherGrows DEF Sends, clients
    <3>3. QED
      BY <1>1, <1>2, <2>1, <2>4, <3>2, SendsSending, SendsReplying, PromisedStays
  <2>5. CASE Leaves(c)
    <3>1. Taken(c) + 1 \in Nat
      BY <1>1, <2>1, TakenIsNat
    <3>2. Grows(c) /\ replies'[c] = replies[c]
      BY <1>1, <2>5, <3>1, OtherGrows DEF Leaves, clients
    <3>3. QED
      BY <1>1, <1>2, <2>1, <2>5, <3>2, LeavesSending, SendsReplying, PromisedStays
  <2>6. CASE Replies(c)
    <3>1. Calm(c)
      BY <1>1, <2>6, SameGrows DEF Replies, Calm, Turns, clients, transport, TypeOK
    <3>2. QED
      BY <1>1, <2>1, <2>6, <3>1, CalmTaken, CalmSending, RepliesReplying
  <2>7. QED BY <1>1, <2>2, <2>3, <2>4, <2>5, <2>6, StepCases
<1>4. QED BY <1>2, <1>3 DEF ListenerInv, WorkingInv

\* Every step of a client, a handler, the listener and the main loop keeps
\* ListenerInv (forward_commands, main).
THEOREM ListenerInvInvariant ==
  Spec => []ListenerInv
BY ListenerInvInit, ListenerInvStep, PTL DEF Spec

\* The channel never holds more than its capacity, the clock stays within u64
\* and no message makes the tick rate zero (listen_for_pipe_commands, main).
THEOREM TypeCorrect ==
  Spec => []TypeOK
<1>1. ListenerInv => TypeOK
  BY DEF ListenerInv
<1>2. QED BY <1>1, ListenerInvInvariant, PTL

\* However many clients write and however their handlers interleave, each
\* client's events enter the channel in the order it wrote them, none twice,
\* none left out, and Disconnected after all of them (forward_commands).
THEOREM EventsStayInOrder ==
  Spec => []EventsFollowInput
<1>1. ListenerInv => EventsFollowInput
  BY DEF ListenerInv, Ordered, EventsFollowInput
<1>2. QED BY <1>1, ListenerInvInvariant, PTL

\* A reply is written only when the event of its request and those of all
\* earlier messages are in the channel, and replies keep the order of the
\* requests (forward_commands).
THEOREM RepliesKeepTheirPromise ==
  Spec => []RepliedMeansAccepted
<1>1. ListenerInv => RepliedMeansAccepted
  BY DEF ListenerInv, Promised, RepliedMeansAccepted
<1>2. QED BY <1>1, ListenerInvInvariant, PTL

LEMMA HeapInvAdvances ==
  ListenerInv => AdvanceExecutesEarlier
<1> SUFFICES ASSUME ListenerInv PROVE AdvanceExecutesEarlier
  OBVIOUS
<1>1. TypeOK /\ ChannelInv /\ HeapInv
  BY DEF ListenerInv
<1>2. /\ AppliedCount \in Nat /\ Len(accepted) \in Nat /\ Len(channel) \in Nat
      /\ Len(accepted) = AppliedCount + Len(channel)
  BY <1>1, CountsAreNat
<1>3. /\ DOMAIN Applied = 1 .. AppliedCount
      /\ \A k \in 1 .. AppliedCount : Applied[k] = accepted[k]
  <2>1. accepted \in Seq(Sent) /\ AppliedCount <= Len(accepted)
    BY <1>1, <1>2 DEF TypeOK
  <2>2. QED BY <1>2, <2>1 DEF Applied, AppliedCount
<1>4. ASSUME NEW j \in 1 .. AppliedCount, accepted[j].event.kind = "advance",
             NEW i \in 1 .. j - 1, accepted[i].event.kind = "scheduled",
             accepted[i].event.n <= accepted[j].event.n
      PROVE  \E x \in executed : x.cmd.id = i
  <2>1. i \in 1 .. AppliedCount /\ i < j
    BY <1>2
  <2>2. accepted[i].event.n \in Nat /\ accepted[j].event.n \in Nat
    <3>1. /\ i \in DOMAIN accepted /\ j \in DOMAIN accepted /\ accepted \in Seq(Sent)
      BY <1>1, <1>2, <2>1 DEF TypeOK
    <3>2. accepted[i] \in Sent /\ accepted[j] \in Sent
      BY <3>1
    <3>3. /\ accepted[i].event \in ControlEvent \cup {Disconnected}
          /\ accepted[j].event \in ControlEvent \cup {Disconnected}
      BY <3>2 DEF Sent
    <3>4. accepted[i].event.n \in Time /\ accepted[j].event.n \in Time
      BY <1>4, <3>3, EventParts
    <3>5. QED BY <3>4, MaxTimeAssumption DEF Time
  <2>3. ASSUME NEW c \in queue, c.id = i, c.timestamp = accepted[i].event.n
        PROVE  FALSE
    <3>1. c.timestamp > accepted[j].event.n
      BY <1>1, <1>4, <2>1, <2>3 DEF HeapInv
    <3>2. QED BY <1>4, <2>2, <2>3, <3>1
  <2>4. QED BY <1>1, <1>4, <2>1, <2>3 DEF HeapInv
<1>5. \A j \in 1 .. AppliedCount : \A i \in 1 .. j - 1 : i \in 1 .. AppliedCount
  BY <1>2
<1>6. QED BY <1>3, <1>4, <1>5 DEF AdvanceExecutesEarlier

\* When the main loop has applied an advance, every command of any client
\* that entered the channel before it and was due at its target is executed
\* (main of pipe-listener).
THEOREM AdvancesExecuteWhatCameBefore ==
  Spec => []AdvanceExecutesEarlier
BY HeapInvAdvances, ListenerInvInvariant, PTL

=============================================================================
