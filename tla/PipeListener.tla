---------------------------- MODULE PipeListener ----------------------------
(***************************************************************************)
(* The named pipe listener of Windows (listen_for_pipe_commands and        *)
(* forward_commands in windows_pipe.rs) and the pipe-listener program      *)
(* around it (pipe-listener/src/main.rs).  The listener accepts clients    *)
(* and spawns a handler for each; the handlers decode messages, send their *)
(* events into one bounded channel and write replies; the main loop takes  *)
(* events from the channel and ticks on a timer.                           *)
(*                                                                         *)
(* A handler is sequential: it has sent a message's event before it writes *)
(* the reply, and written the reply before it looks at the next message.   *)
(* The step in which a message is framed and decoded is atomic here; see   *)
(* FrameDecoder for the framing and ControlProtocol for the meaning of a   *)
(* message.                                                                *)
(***************************************************************************)
EXTENDS DispatchCalls, Sequences

CONSTANTS
  Clients,     (* pipe clients; each connects at most once *)
  Inputs,      (* the messages they write, with their encoding *)
  MaxWrites,   (* bound on the messages of all clients together *)
  ChannelCap,  (* capacity of the channel, 32 in the code *)
  Failures     (* whether pipe operations may fail for no reason here *)

Control == INSTANCE ControlProtocol

ASSUME PipeListenerAssumption ==
  /\ MaxWrites \in Nat
  /\ ChannelCap \in Nat \ {0}
  /\ Failures \in BOOLEAN
  /\ \A i \in Inputs : /\ i.message \in Control!Message
                       /\ i.encoding \in {"line", "frame"}
                       /\ i.encoding = "frame" => Control!CanBeFrame(i.message)

VARIABLES
  listening,  (* the listener accepts clients *)
  link,       (* the client's end: "away", "open" or "closed" *)
  pipe,       (* messages written and not yet read *)
  stage,      (* what the client's handler does *)
  work,       (* the handling of the message it took *)
  channel,    (* the channel, events with their client and, as history, the
                 number of the message that each comes from *)
  consumer,   (* the main loop, which owns the receiver: "alive" or "gone" *)
  current, tickRate, queue, executed,  (* its dispatcher *)
  ticking,    (* its flag *)
  written,    (* history: all messages of the client *)
  replies,    (* history: all replies to the client, with the same number *)
  accepted    (* history: all that was sent into the channel *)

clients == <<link, pipe, written>>
handlers == <<stage, work, replies>>
mainLoop == <<consumer, current, tickRate, queue, executed, ticking>>
transport == <<channel, accepted>>
vars == <<listening, clients, handlers, transport, mainLoop>>

Disconnected == [kind |-> "disconnected"]

Init ==
  /\ listening = TRUE
  /\ link = [c \in Clients |-> "away"]
  /\ pipe = [c \in Clients |-> <<>>]
  /\ stage = [c \in Clients |-> "none"]
  /\ work = [c \in Clients |-> Control!Nothing]
  /\ channel = <<>>
  /\ consumer = "alive"
  /\ current = 0
  /\ tickRate = 1
  /\ queue = {}
  /\ executed = {}
  /\ ticking = FALSE
  /\ written = [c \in Clients |-> <<>>]
  /\ replies = [c \in Clients |-> <<>>]
  /\ accepted = <<>>

-----------------------------------------------------------------------------
(* Listener and clients *)

\* A client connects to the waiting pipe instance; the listener spawns its
\* handler and makes the next instance.
Connects(c) ==
  /\ listening
  /\ link[c] = "away"
  /\ link' = [link EXCEPT ![c] = "open"]
  /\ stage' = [stage EXCEPT ![c] = "reading"]
  /\ UNCHANGED <<listening, pipe, written, work, replies, transport, mainLoop>>

\* create or connect fails: the listener returns, the handlers go on.
ListenerFails ==
  /\ Failures
  /\ listening
  /\ listening' = FALSE
  /\ UNCHANGED <<clients, handlers, transport, mainLoop>>

WrittenByAll == MapThenSumSet(LAMBDA c : Len(written[c]), Clients)

\* The pipe is open until a side closes it; the server's is dropped with the
\* handler.
Writes(c, input) ==
  /\ link[c] = "open"
  /\ stage[c] # "ended"
  /\ WrittenByAll < MaxWrites
  /\ pipe' = [pipe EXCEPT ![c] = Append(@, input)]
  /\ written' = [written EXCEPT ![c] = Append(@, input)]
  /\ UNCHANGED <<listening, link, handlers, transport, mainLoop>>

\* What it wrote can still be read.
Closes(c) ==
  /\ link[c] = "open"
  /\ link' = [link EXCEPT ![c] = "closed"]
  /\ UNCHANGED <<listening, pipe, written, handlers, transport, mainLoop>>

-----------------------------------------------------------------------------
(* A handler: forward_commands *)

Handling(input) == Control!Handle(input.message, input.encoding)

\* Where the handler goes from a message: to the send, or, without an event,
\* to the reply, or, without either, to the next message.
AfterTaking(handling) ==
  IF handling.event # Control!NoEvent THEN "sending"
  ELSE IF handling.reply # Control!NoReply THEN "replying"
  ELSE "reading"

Takes(c) ==
  /\ stage[c] = "reading"
  /\ pipe[c] # <<>>
  /\ LET handling == Handling(Head(pipe[c]))
     IN  /\ work' = [work EXCEPT ![c] = handling]
         /\ stage' = [stage EXCEPT ![c] = AfterTaking(handling)]
  /\ pipe' = [pipe EXCEPT ![c] = Tail(@)]
  /\ UNCHANGED <<listening, link, written, replies, transport, mainLoop>>

\* The number of the message the handler has taken last.
Taken(c) == Len(written[c]) - Len(pipe[c])

SendUnbounded(c, event, n) ==
  /\ consumer = "alive"
  /\ channel' = Append(channel, [client |-> c, event |-> event, message |-> n])
  /\ accepted' = Append(accepted, [client |-> c, event |-> event, message |-> n])

\* The bounded channel takes an event, if there is room.
Send(c, event, n) ==
  /\ consumer = "alive"
  /\ Len(channel) < ChannelCap
  /\ channel' = Append(channel, [client |-> c, event |-> event, message |-> n])
  /\ accepted' = Append(accepted, [client |-> c, event |-> event, message |-> n])

SendsOrDrops(c) ==
  /\ stage[c] = "sending"
  /\ IF Len(channel) < ChannelCap THEN Send(c, work[c].event, Taken(c))
     ELSE consumer = "alive" /\ UNCHANGED transport
  /\ stage' = [stage EXCEPT ![c] =
       IF work[c].reply # Control!NoReply THEN "replying" ELSE "reading"]
  /\ UNCHANGED <<listening, clients, work, replies, mainLoop>>

Sends(c) ==
  /\ stage[c] = "sending"
  /\ Send(c, work[c].event, Taken(c))
  /\ stage' = [stage EXCEPT ![c] =
       IF work[c].reply # Control!NoReply THEN "replying" ELSE "reading"]
  /\ UNCHANGED <<listening, clients, work, replies, mainLoop>>

\* The receiver is gone: the handler returns Ok.
SendFails(c) ==
  /\ stage[c] \in {"sending", "leaving"}
  /\ consumer = "gone"
  /\ stage' = [stage EXCEPT ![c] = "ended"]
  /\ UNCHANGED <<listening, clients, work, replies, transport, mainLoop>>

Replies(c) ==
  /\ stage[c] = "replying"
  /\ link[c] = "open"
  /\ replies' = [replies EXCEPT ![c] =
       Append(@, [reply |-> work[c].reply, message |-> Taken(c)])]
  /\ stage' = [stage EXCEPT ![c] = "reading"]
  /\ UNCHANGED <<listening, clients, work, transport, mainLoop>>

\* The write fails, because the client is gone or otherwise; the error ends
\* the handler at once.
ReplyFails(c) ==
  /\ stage[c] = "replying"
  /\ link[c] = "closed" \/ Failures
  /\ stage' = [stage EXCEPT ![c] = "ended"]
  /\ UNCHANGED <<listening, clients, work, replies, transport, mainLoop>>

SeesEndEarly(c) ==
  /\ stage[c] = "reading"
  /\ link[c] = "closed"
  /\ stage' = [stage EXCEPT ![c] = "leaving"]
  /\ UNCHANGED <<listening, clients, work, replies, transport, mainLoop>>

\* A read of no bytes; what is left of an unfinished message is dropped.
SeesEnd(c) ==
  /\ stage[c] = "reading"
  /\ pipe[c] = <<>>
  /\ link[c] = "closed"
  /\ stage' = [stage EXCEPT ![c] = "leaving"]
  /\ UNCHANGED <<listening, clients, work, replies, transport, mainLoop>>

\* What the client has written may still be unread.
ReadFails(c) ==
  /\ Failures
  /\ stage[c] = "reading"
  /\ stage' = [stage EXCEPT ![c] = "ended"]
  /\ UNCHANGED <<listening, clients, work, replies, transport, mainLoop>>

Leaves(c) ==
  /\ stage[c] = "leaving"
  /\ Send(c, Disconnected, Taken(c) + 1)
  /\ stage' = [stage EXCEPT ![c] = "ended"]
  /\ UNCHANGED <<listening, clients, work, replies, mainLoop>>

-----------------------------------------------------------------------------
(* The main loop *)

DispatchAt(times) ==
  /\ current' = ClockAfter(current, times)
  /\ queue' = QueueAfter(queue, times)
  /\ executed' = executed \cup Executions(queue, times)
  /\ UNCHANGED <<tickRate, ticking>>

\* step, tick and run_for_ticks; a panic ends the program.
RunSteps(delta, n) ==
  /\ DispatchAt(StepTimes(current, delta, n))
  /\ consumer' = IF StepsOverflow(current, delta, n) THEN "gone" ELSE "alive"

Enqueue(t) ==
  /\ \E p \in Payload :
       queue' = queue \cup
         {[timestamp |-> t, command |-> p, accepted |-> current,
           id |-> Len(accepted) - Len(channel) + 1]}
  /\ UNCHANGED <<consumer, current, tickRate, executed, ticking>>

SetTicking(on) ==
  /\ ticking' = on
  /\ UNCHANGED <<consumer, current, tickRate, queue, executed>>

Apply(event) ==
  \/ event.kind = "scheduled" /\ Enqueue(event.n)
  \/ event.kind = "tick" /\ RunSteps(tickRate, 1)
  \/ event.kind = "step" /\ RunSteps(event.n, 1)
  \/ event.kind = "run" /\ RunSteps(tickRate, event.n)
  \/ event.kind = "advance"
       /\ DispatchAt({Forward(current, event.n)}) /\ UNCHANGED consumer
  \/ event.kind = "rate" /\ tickRate' = event.n
       /\ UNCHANGED <<consumer, current, queue, executed, ticking>>
  \/ event.kind \in {"now", "note"} /\ UNCHANGED mainLoop
  \/ event.kind = "start" /\ SetTicking(TRUE)
  \/ event.kind \in {"stop", "pause", "disconnected"} /\ SetTicking(FALSE)

MainReceivesWhenStopped ==
  /\ consumer = "alive"
  /\ channel # <<>>
  /\ ~ticking
  /\ Apply(Head(channel).event)
  /\ channel' = Tail(channel)
  /\ UNCHANGED <<listening, clients, handlers, accepted>>

MainReceives ==
  /\ consumer = "alive"
  /\ channel # <<>>
  /\ Apply(Head(channel).event)
  /\ channel' = Tail(channel)
  /\ UNCHANGED <<listening, clients, handlers, accepted>>

\* The interval fires; with ticking off nothing happens.
MainTicks ==
  /\ consumer = "alive"
  /\ ticking
  /\ RunSteps(tickRate, 1)
  /\ UNCHANGED <<listening, clients, handlers, transport>>

Next ==
  \/ ListenerFails
  \/ \E c \in Clients :
       \/ Connects(c)
       \/ \E input \in Inputs : Writes(c, input)
       \/ Closes(c)
       \/ Takes(c)
       \/ Sends(c)
       \/ SendFails(c)
       \/ Replies(c)
       \/ ReplyFails(c)
       \/ SeesEnd(c)
       \/ ReadFails(c)
       \/ Leaves(c)
  \/ MainReceives
  \/ MainTicks

Spec == Init /\ [][Next]_vars

(***************************************************************************)
(* Tokio runs every ready task again and again, and gives the room of a    *)
(* full channel to the senders in the order they asked for it: a sender    *)
(* for which there is room over and over gets its turn.  The timer, the    *)
(* clients and the failures owe nothing.                                   *)
(***************************************************************************)
Fairness ==
  /\ WF_vars(MainReceives)
  /\ \A c \in Clients :
       /\ WF_vars(Takes(c))
       /\ SF_vars(Sends(c))
       /\ WF_vars(SendFails(c))
       /\ WF_vars(Replies(c) \/ ReplyFails(c))
       /\ WF_vars(SeesEnd(c))
       /\ SF_vars(Leaves(c))

FairSpec == Spec /\ Fairness

-----------------------------------------------------------------------------
(* Properties *)

ControlEvent ==
  [kind : Control!PlainVerbs \cup {"note"}]
    \cup [kind : {"scheduled", "step", "run", "advance"}, n : Time]
    \cup [kind : {"rate"}, n : Rate]

Sent == [client : Clients, event : ControlEvent \cup {Disconnected}, message : Nat]

Handlings == {Handling(i) : i \in Inputs} \cup {Control!Nothing}

Answer == [reply : {h.reply : h \in Handlings}, message : Nat]

\* The shape of the state: the channel within its capacity, the clock within
\* u64, a tick rate no message can make zero, and a handler of each client
\* that has connected (listen_for_pipe_commands, main).
TypeOK ==
  /\ listening \in BOOLEAN
  /\ link \in [Clients -> {"away", "open", "closed"}]
  /\ pipe \in [Clients -> Seq(Inputs)]
  /\ written \in [Clients -> Seq(Inputs)]
  /\ stage \in [Clients -> {"none", "reading", "sending", "replying",
                            "leaving", "ended"}]
  /\ work \in [Clients -> Handlings]
  /\ replies \in [Clients -> Seq(Answer)]
  /\ \A c \in Clients : (stage[c] = "none") <=> (link[c] = "away")
  /\ channel \in Seq(Sent) /\ Len(channel) <= ChannelCap
  /\ accepted \in Seq(Sent)
  /\ consumer \in {"alive", "gone"}
  /\ current \in Time
  /\ tickRate \in Rate
  /\ queue \subseteq ScheduledCommand
  /\ ticking \in BOOLEAN

\* What the n-th message of a client asks for.
EventOf(c, n) == Handling(written[c][n]).event
ReplyOf(c, n) == Handling(written[c][n]).reply

\* The places in accepted that hold what comes from a client.
From(c) == {i \in DOMAIN accepted : accepted[i].client = c}

\* However the handlers interleave and the channel fills up, each client's
\* events enter the channel in the order it wrote them, none twice and none
\* left out; Disconnected comes after all of them, once, and never from a
\* client that still has messages unread (forward_commands).
EventsFollowInput ==
  \A c \in Clients :
    /\ \A i, j \in From(c) : i < j => accepted[i].message < accepted[j].message
    /\ \A i \in From(c) :
         LET n == accepted[i].message
         IN  /\ accepted[i].event =
                  IF n \in DOMAIN written[c] THEN EventOf(c, n) ELSE Disconnected
             /\ n \in 1 .. Len(written[c]) + 1
             /\ \A m \in 1 .. n - 1 : EventOf(c, m) # Control!NoEvent =>
                  \E k \in From(c) : k < i /\ accepted[k].message = m

\* A client gets the replies of its requests in their order, none twice and
\* none left out, and the reply of a request only when the event of that
\* request, and those of all messages before it, are in the channel: "ok" is
\* no promise that the event has been applied, but it is one that nothing the
\* client sends later overtakes it (forward_commands: the send comes before
\* the reply).
RepliedMeansAccepted ==
  \A c \in Clients :
    /\ \A i, j \in DOMAIN replies[c] :
         i < j => replies[c][i].message < replies[c][j].message
    /\ \A i \in DOMAIN replies[c] :
         LET n == replies[c][i].message
         IN  /\ n \in DOMAIN written[c]
             /\ replies[c][i].reply = ReplyOf(c, n)
             /\ \A m \in 1 .. n :
                  /\ EventOf(c, m) # Control!NoEvent =>
                       \E k \in From(c) : accepted[k].message = m
                  /\ ReplyOf(c, m) # Control!NoReply =>
                       \E k \in DOMAIN replies[c] : replies[c][k].message = m

\* The events the main loop has applied.
Applied == SubSeq(accepted, 1, Len(accepted) - Len(channel))

\* Commands and clock instructions of this program share one channel: when an
\* advance has been applied, every command that entered the channel before it
\* and was due at its target has been executed, whatever other clients and
\* the timer did in between (main of pipe-listener).
AdvanceExecutesEarlier ==
  \A j \in DOMAIN Applied : Applied[j].event.kind = "advance" =>
    \A i \in 1 .. j - 1 :
      /\ Applied[i].event.kind = "scheduled"
      /\ Applied[i].event.n <= Applied[j].event.n
      => \E x \in executed : x.cmd.id = i

\* The handler of a client that has closed its end comes to its end: the
\* other clients and a full channel hold it up, but not for ever, and
\* neither does a main loop that has gone (forward_commands).
HandlersEnd ==
  \A c \in Clients : link[c] = "closed" ~> stage[c] = "ended"

\* "When the client disconnects a `Disconnected` event is emitted."
\* (windows_pipe.rs:203).  Not so when the client goes while its handler is
\* about to reply: the write fails and its error ends the handler.
DisconnectIsAnnounced ==
  \A c \in Clients :
    link[c] = "closed"
      ~> (Disconnected \in {accepted[i].event : i \in From(c)} \/ consumer = "gone")

=============================================================================
