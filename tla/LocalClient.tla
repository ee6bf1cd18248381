---------------------------- MODULE LocalClient ----------------------------
(***************************************************************************)
(* The client in local mode (client/src/main.rs): three tokio tasks around *)
(* one dispatcher.  The REPL reads lines; the tick loop ticks on every     *)
(* timer interval while ticking is on; the queue forwarder applies the     *)
(* events of a bounded channel, into which the REPL sends the commands to  *)
(* be scheduled and, on Windows, a pipe listener sends everything its      *)
(* clients ask for.  A watch channel carries the ticking flag.             *)
(*                                                                         *)
(* A task works on the dispatcher only under its Mutex, and nothing awaits *)
(* while holding it, so a call is one step (DispatchCalls).  What a task   *)
(* read or took before it got the lock is in its local state: the tick     *)
(* loop's check of the flag, the forwarder's event in hand.                *)
(*                                                                         *)
(* A clock overflow panics the task that called.  The lock is released and *)
(* is not poisoned; tick loop and forwarder die alone, and with them their *)
(* channel ends; a panic of the REPL ends the process.  Lines that do not  *)
(* parse, help and now change nothing and are left out.                    *)
(***************************************************************************)
EXTENDS DispatchCalls, Sequences

CONSTANTS
  ChannelCap,   (* capacity of the command channel, 64 in the code *)
  MaxCommands,  (* bound on the commands accepted *)
  Intervals,    (* values of --interval-ms; all but zero are alike *)
  MaxRun,       (* bound on the argument of run *)
  PipeRequests  (* the requests of pipe clients other than commands to
                   schedule; {} where there is no listener *)

RequestKinds ==
  {"tick", "step", "advance", "run", "rate", "start", "stop", "disconnected"}

ASSUME LocalClientAssumption ==
  /\ ChannelCap \in Nat \ {0}
  /\ MaxCommands \in Nat
  /\ Intervals \subseteq Nat
  /\ MaxRun \in Nat
  /\ \A e \in PipeRequests :
       /\ e.kind \in RequestKinds
       /\ e.kind \in {"step", "advance", "run"} => e.n \in Time
       /\ e.kind = "rate" => e.n \in Rate

VARIABLES
  current,      (* the dispatcher's clock *)
  tickRate,
  queue,        (* its heap *)
  executed,     (* history: set of executions *)
  ticking,      (* the value of the watch channel *)
  wanted,       (* history: what the flag has to come to *)
  ticker,       (* the tick loop: where it is, or "dead" *)
  interval,     (* interval_ms *)
  channel,      (* the command channel *)
  hand,         (* the event the forwarder took, <<>> or one event *)
  forwarder,    (* the forwarder task: "alive" or "dead" *)
  sending,      (* the command the REPL waits to send, <<>> or just it *)
  running,      (* the process has not ended *)
  nextId,       (* history: number of the next command accepted *)
  lateTicks     (* history: interval ticks made since ticking went off *)

clock == <<current, tickRate, queue, executed>>
tickLoop == <<ticking, wanted, ticker, interval, lateTicks>>
transport == <<channel, hand, forwarder>>
vars == <<clock, tickLoop, transport, sending, running, nextId>>

Init ==
  /\ current = 0
  /\ tickRate \in Rate
  /\ queue = {}
  /\ executed = {}
  /\ ticking = FALSE
  /\ wanted = FALSE
  /\ ticker = "spawned"
  /\ interval \in Intervals
  /\ channel = <<>>
  /\ hand = <<>>
  /\ forwarder = "alive"
  /\ sending = <<>>
  /\ running = TRUE
  /\ nextId = 1
  /\ lateTicks = 0

-----------------------------------------------------------------------------
(* The dispatcher, locked *)

DispatchAt(times) ==
  /\ current' = ClockAfter(current, times)
  /\ queue' = QueueAfter(queue, times)
  /\ executed' = executed \cup Executions(queue, times)
  /\ UNCHANGED tickRate

\* step, tick and run_for_ticks; what a panic leaves behind is the same.
RunSteps(delta, n) == DispatchAt(StepTimes(current, delta, n))

AdvanceTo(target) == DispatchAt({Forward(current, target)})

SetTickRate(r) == tickRate' = r /\ UNCHANGED <<current, queue, executed>>

Enqueue(cmd) ==
  /\ queue' = queue \cup {cmd}
  /\ UNCHANGED <<current, tickRate, executed>>

\* tick_sender.send: without a receiver, which lives in the tick loop, it
\* fails and the value stays; the error is ignored.
SendTicking(on) ==
  /\ ticking' = IF ticker = "dead" THEN ticking ELSE on
  /\ lateTicks' = IF ticking' THEN 0 ELSE lateTicks
  /\ UNCHANGED <<ticker, interval>>

-----------------------------------------------------------------------------
(* The REPL: it handles a line to the end before it reads the next *)

Reads == running /\ sending = <<>>

\* The events under way to the forwarder, the oldest first.
Transit == hand \o channel

\* start; stop, pause and the end of a client's connection.
IsWish(event) == event.kind \in {"start", "stop", "disconnected"}

\* enqueue, and pipe with a line that parses: the command goes the way of the
\* channel.
ReplEnqueue(t, p) ==
  /\ Reads
  /\ nextId <= MaxCommands
  /\ sending' = <<[timestamp |-> t, command |-> p]>>
  /\ UNCHANGED <<clock, tickLoop, transport, running, nextId>>

\* A command enters the bounded channel, if there is room, and is accepted.
SendCommand(t, p) ==
  /\ forwarder = "alive"
  /\ Len(channel) < ChannelCap
  /\ channel' = Append(channel,
       [kind |-> "scheduled",
        cmd |-> [timestamp |-> t, command |-> p,
                 id |-> nextId, accepted |-> current]])
  /\ nextId' = nextId + 1

\* The REPL waits for room.
ReplSends ==
  /\ running
  /\ sending # <<>>
  /\ SendCommand(Head(sending).timestamp, Head(sending).command)
  /\ sending' = <<>>
  /\ UNCHANGED <<clock, tickLoop, hand, forwarder, running>>

ReplSendRetries ==
  /\ running
  /\ sending # <<>>
  /\ forwarder = "dead"
  /\ UNCHANGED vars

\* "command queue unavailable": the forwarder, and the receiver it owned, are
\* gone.
ReplSendFails ==
  /\ running
  /\ sending # <<>>
  /\ forwarder = "dead"
  /\ sending' = <<>>
  /\ UNCHANGED <<clock, tickLoop, transport, running, nextId>>

\* start and stop act at once, past the wishes under way, so that one of those
\* has the last word.
ReplTicking(on) ==
  /\ Reads
  /\ SendTicking(on)
  /\ wanted' = IF \E i \in DOMAIN Transit : IsWish(Transit[i]) THEN wanted ELSE on
  /\ UNCHANGED <<clock, transport, sending, running, nextId>>

\* tick, step and run: a panic in the main task ends the process.
ReplRun(delta, n) ==
  /\ Reads
  /\ RunSteps(delta, n)
  /\ running' = ~StepsOverflow(current, delta, n)
  /\ UNCHANGED <<tickLoop, transport, sending, nextId>>

ReplAdvance(target) ==
  /\ Reads
  /\ AdvanceTo(target)
  /\ UNCHANGED <<tickLoop, transport, sending, running, nextId>>

\* rate: zero does not parse.
ReplSetRate(r) ==
  /\ Reads
  /\ SetTickRate(r)
  /\ UNCHANGED <<tickLoop, transport, sending, running, nextId>>

\* quit, exit, the end of stdin or an error reading it.
ReplQuit ==
  /\ Reads
  /\ running' = FALSE
  /\ UNCHANGED <<clock, tickLoop, transport, sending, nextId>>

-----------------------------------------------------------------------------
(* The tick loop *)

\* time::interval panics on a zero period, before the loop is entered.
TickerStarts ==
  /\ running
  /\ ticker = "spawned"
  /\ ticker' = IF interval = 0 THEN "dead" ELSE "waiting"
  /\ UNCHANGED <<clock, ticking, wanted, interval, lateTicks,
                 transport, sending, running, nextId>>

TimerFiresUnchecked ==
  /\ running
  /\ ticker = "waiting"
  /\ ticker' = "locking"
  /\ UNCHANGED <<clock, ticking, wanted, interval, lateTicks,
                 transport, sending, running, nextId>>

\* The interval fires and the flag is on; the loop goes for the lock.  With
\* the flag off it does nothing, as when the watch channel only changed.
TimerFires ==
  /\ running
  /\ ticker = "waiting"
  /\ ticking
  /\ ticker' = "locking"
  /\ UNCHANGED <<clock, ticking, wanted, interval, lateTicks,
                 transport, sending, running, nextId>>

IntervalTickWithoutDispatch ==
  /\ running
  /\ ticker = "locking"
  /\ current' = ClockAfter(current, StepTimes(current, tickRate, 1))
  /\ ticker' = IF StepsOverflow(current, tickRate, 1) THEN "dead" ELSE "waiting"
  /\ lateTicks' = IF ticking THEN 0 ELSE lateTicks + 1
  /\ UNCHANGED <<tickRate, queue, executed, ticking, wanted, interval,
                 transport, sending, running, nextId>>

\* The tick, whatever the flag says by now.
IntervalTick ==
  /\ running
  /\ ticker = "locking"
  /\ RunSteps(tickRate, 1)
  /\ ticker' = IF StepsOverflow(current, tickRate, 1) THEN "dead" ELSE "waiting"
  /\ lateTicks' = IF ticking THEN 0 ELSE lateTicks + 1
  /\ UNCHANGED <<ticking, wanted, interval, transport, sending, running, nextId>>

-----------------------------------------------------------------------------
(* The channel and the queue forwarder *)

PipeRequestUnbounded(event) ==
  /\ running
  /\ forwarder = "alive"
  /\ channel' = Append(channel, event)
  /\ wanted' = IF IsWish(event) THEN event.kind = "start" ELSE wanted
  /\ UNCHANGED <<clock, ticking, ticker, interval, lateTicks,
                 hand, forwarder, sending, running, nextId>>

\* A stop as immediate as windows_pipe.rs:16 has it, past the channel.
PipeRequestStopsAtOnce(event) ==
  /\ running
  /\ forwarder = "alive"
  /\ wanted' = IF IsWish(event) THEN event.kind = "start" ELSE wanted
  /\ IF event.kind = "stop"
       THEN SendTicking(FALSE) /\ UNCHANGED channel
       ELSE /\ Len(channel) < ChannelCap
            /\ channel' = Append(channel, event)
            /\ UNCHANGED <<ticking, ticker, interval, lateTicks>>
  /\ UNCHANGED <<clock, hand, forwarder, sending, running, nextId>>

\* A pipe client's handler sends what it parsed (PipeListener).
PipeRequest(event) ==
  /\ running
  /\ forwarder = "alive"
  /\ Len(channel) < ChannelCap
  /\ channel' = Append(channel, event)
  /\ wanted' = IF IsWish(event) THEN event.kind = "start" ELSE wanted
  /\ UNCHANGED <<clock, ticking, ticker, interval, lateTicks,
                 hand, forwarder, sending, running, nextId>>

PipeSchedules(t, p) ==
  /\ running
  /\ PipeRequests # {}
  /\ nextId <= MaxCommands
  /\ SendCommand(t, p)
  /\ UNCHANGED <<clock, tickLoop, hand, forwarder, sending, running>>

ForwarderTakesNewest ==
  /\ running
  /\ forwarder = "alive"
  /\ hand = <<>>
  /\ channel # <<>>
  /\ hand' = <<channel[Len(channel)]>>
  /\ channel' = SubSeq(channel, 1, Len(channel) - 1)
  /\ UNCHANGED <<clock, tickLoop, forwarder, sending, running, nextId>>

ForwarderPeeks ==
  /\ running
  /\ forwarder = "alive"
  /\ hand = <<>>
  /\ channel # <<>>
  /\ hand' = <<Head(channel)>>
  /\ UNCHANGED <<clock, tickLoop, channel, forwarder, sending, running, nextId>>

ForwarderTakes ==
  /\ running
  /\ forwarder = "alive"
  /\ hand = <<>>
  /\ channel # <<>>
  /\ hand' = <<Head(channel)>>
  /\ channel' = Tail(channel)
  /\ UNCHANGED <<clock, tickLoop, forwarder, sending, running, nextId>>

ClockKinds == {"tick", "step", "run"}

\* The length of the steps that the event in hand asks for, and their number.
Delta(event) == IF event.kind = "step" THEN event.n ELSE tickRate
Count(event) == IF event.kind = "run" THEN event.n ELSE 1

\* What the event in hand does to the dispatcher.
Applies(event) ==
  \/ event.kind = "scheduled" /\ Enqueue(event.cmd)
  \/ event.kind \in ClockKinds /\ RunSteps(Delta(event), Count(event))
  \/ event.kind = "advance" /\ AdvanceTo(event.n)
  \/ event.kind = "rate" /\ SetTickRate(event.n)

Panics(event) ==
  event.kind \in ClockKinds /\ StepsOverflow(current, Delta(event), Count(event))

ForwarderDropsWhenStopped ==
  /\ running
  /\ hand # <<>>
  /\ IF ticking \/ Head(hand).kind # "scheduled"
       THEN Applies(Head(hand)) ELSE UNCHANGED clock
  /\ hand' = <<>>
  /\ IF Panics(Head(hand))
       THEN forwarder' = "dead" /\ channel' = <<>>
       ELSE UNCHANGED <<forwarder, channel>>
  /\ UNCHANGED <<tickLoop, sending, running, nextId>>

\* A scheduled, tick, step, run, advance or rate event, under the lock.
ForwarderApplies ==
  /\ running
  /\ hand # <<>>
  /\ Applies(Head(hand))
  /\ hand' = <<>>
  /\ IF Panics(Head(hand))
       THEN forwarder' = "dead" /\ channel' = <<>>
       ELSE UNCHANGED <<forwarder, channel>>
  /\ UNCHANGED <<tickLoop, sending, running, nextId>>

\* A wish of a pipe client; no lock is needed.
ForwarderSetsTicking ==
  /\ running
  /\ hand # <<>>
  /\ IsWish(Head(hand))
  /\ SendTicking(Head(hand).kind = "start")
  /\ hand' = <<>>
  /\ UNCHANGED <<clock, wanted, channel, forwarder, sending, running, nextId>>

\* The process has ended: nothing happens any more.
Ended == ~running /\ UNCHANGED vars

Next ==
  \/ \E t \in Time, p \in Payload : ReplEnqueue(t, p)
  \/ ReplSends
  \/ ReplSendFails
  \/ \E on \in BOOLEAN : ReplTicking(on)
  \/ ReplRun(tickRate, 1)
  \/ \E delta \in Time : ReplRun(delta, 1)
  \/ \E n \in 0 .. MaxRun : ReplRun(tickRate, n)
  \/ \E target \in Time : ReplAdvance(target)
  \/ \E r \in Rate : ReplSetRate(r)
  \/ ReplQuit
  \/ TickerStarts
  \/ TimerFires
  \/ IntervalTick
  \/ \E event \in PipeRequests : PipeRequest(event)
  \/ \E t \in Time, p \in Payload : PipeSchedules(t, p)
  \/ ForwarderTakes
  \/ ForwarderApplies
  \/ ForwarderSetsTicking
  \/ Ended

\* The runtime polls every task that can go on, the timer keeps firing, and
\* the Mutex is free between steps.  The channel gives room to waiting senders
\* in the order they came, so the REPL is not overtaken for ever.
Fairness ==
  /\ WF_vars(TickerStarts)
  /\ WF_vars(TimerFires)
  /\ WF_vars(IntervalTick)
  /\ WF_vars(ForwarderTakes)
  /\ WF_vars(ForwarderApplies)
  /\ WF_vars(ForwarderSetsTicking)
  /\ SF_vars(ReplSends)
  /\ WF_vars(ReplSendFails)

Spec == Init /\ [][Next]_vars

FairSpec == Spec /\ Fairness

-----------------------------------------------------------------------------
(* Properties *)

Ids(cmds) == {c.id : c \in cmds}

CommandsIn(events) ==
  {events[i].cmd : i \in {j \in DOMAIN events : events[j].kind = "scheduled"}}

InTransit == CommandsIn(channel) \cup CommandsIn(hand)

Done == {e.cmd : e \in executed}

Future == {c \in queue : c.timestamp > current}

TypeOK ==
  /\ current \in Time
  /\ tickRate \in Rate
  /\ queue \subseteq ScheduledCommand
  /\ Done \subseteq ScheduledCommand
  /\ ticking \in BOOLEAN
  /\ wanted \in BOOLEAN
  /\ ticker \in {"spawned", "waiting", "locking", "dead"}
  /\ interval \in Intervals
  /\ Len(channel) <= ChannelCap
  /\ InTransit \subseteq ScheduledCommand
  /\ Len(hand) <= 1
  /\ forwarder \in {"alive", "dead"}
  /\ Len(sending) <= 1
  /\ running \in BOOLEAN
  /\ nextId \in 1 .. MaxCommands + 2
  /\ lateTicks \in Nat

\* The flag is checked before the lock is taken, so a tick may come after
\* stop, which windows_pipe.rs:16 calls immediate, but only one, however long
\* the loop waited for the lock and whatever was started and stopped meanwhile.
AtMostOneLateTick == lateTicks <= 1

\* Of the starts, stops and disconnections that REPL and pipe clients have
\* asked for, the last one decides, in the order of asking and not of arrival:
\* either it is the last one under way, or the flag has come to it.  But the
\* REPL does not wait for what is under way: it sets the flag and is overruled
\* by the pipe clients' older wishes when they arrive.  A dead forwarder takes
\* the wishes in its channel with it, and a dead tick loop, which no start
\* brings back (README.md:62 has no such exception), leaves the flag as it was.
LastWishDecides ==
  LET wishes == {i \in DOMAIN Transit : IsWish(Transit[i])}
  IN  forwarder = "alive" =>
        /\ \A i \in wishes :
             (\A j \in wishes : j <= i) => wanted = (Transit[i].kind = "start")
        /\ wishes = {} => ticking = wanted \/ ticker = "dead"

\* An accepted command is in one place only, on its way, in the heap or
\* executed, and unless the forwarder died it is somewhere.
AcceptedOnce ==
  LET places == <<CommandsIn(channel), CommandsIn(hand), queue, Done>>
  IN  \A id \in 1 .. nextId - 1 :
        /\ \A i, j \in DOMAIN places :
             i # j => id \notin Ids(places[i]) \cap Ids(places[j])
        /\ forwarder = "alive" => \E i \in DOMAIN places : id \in Ids(places[i])

\* Commands reach the heap in the order they were accepted in, though REPL
\* and pipe clients share the channel.
ForwardedInOrder ==
  /\ \A c \in queue \cup Done, d \in InTransit : c.id < d.id
  /\ \A c \in CommandsIn(hand), d \in CommandsIn(channel) : c.id < d.id

\* A command is not passed over: when another one was executed at a time at
\* which this one was due, this one was accepted later.
NotPassedOver ==
  \A e \in executed, c \in queue \cup InTransit :
    c.timestamp <= e.at => c.id > e.cmd.id

\* An accepted command gets to the heap as long as the process and the
\* forwarder live.
CommandIsScheduled ==
  \A id \in 1 .. MaxCommands :
    id \in Ids(InTransit) ~>
      \/ id \in Ids(queue) \cup Ids(Done)
      \/ forwarder = "dead"
      \/ ~running

\* While ticking is on and the tick loop lives, a command that lies in the
\* future is executed in the end, unless somebody switches ticking off.  With a
\* positive interval the loop may die only of a tick for which there is no room
\* left in u64, and only while the command still lies in the future.
TickingExecutes ==
  \A id \in 1 .. MaxCommands :
    ticking /\ ticker # "dead" /\ interval > 0 /\ id \in Ids(Future) ~>
      \/ id \in Ids(Done)
      \/ ~ticking
      \/ /\ ticker = "dead"
         /\ StepsOverflow(current, tickRate, 1)
         /\ id \in Ids(Future)
      \/ ~running

\* A full channel never blocks the REPL for good, not even when the forwarder
\* dies.
ReplIsServed == sending # <<>> ~> sending = <<>>
=============================================================================
