# Verification of TimeSimulation

TLA+ models, TLC runs and TLAPS proofs for the TimeSimulation crates: a simulated
clock with a command scheduler (`crates/timesimulation`), a REPL client
(`crates/client`), a named-pipe server (`crates/pipe-listener`) and two demos
(`crates/demo`). Every definition is translated from the source; `PROJECT.json`
maps each one to the lines it stands for. "README" below means the repository's
own README unless it says "this README".

Contents: 1 the system, 2 modules, 3 runs and bounds, 4 fairness, 5 proofs,
6 where code and documentation disagree, 7 what is left out, 8 plan.

## 1. The system

### Components, their state and their operations

| component | code | state | operations that change it |
|---|---|---|---|
| clock | `clock.rs` | `current: u64` | `step` (panics on overflow), `advance_to` (ignores the past) |
| scheduler | `scheduler.rs`, `command.rs` | a `BinaryHeap` of commands | `schedule`, `drain_ready` |
| dispatcher | `dispatcher.rs` | clock, scheduler, tick rate, sink | `enqueue`, `enqueue_from_pipe`, `set_tick_rate`, `step`, `tick`, `run_for_ticks`, `advance_to` |
| local client | `client/src/main.rs` 191-277, 360-487 | dispatcher in a Mutex, watch channel, bounded channel (64) | REPL commands, `tick_loop`, `queue_forwarder` |
| pipe-mode client | `client/src/main.rs` 108-189, 287-321, 497-558 | none beyond the connection | parse a typed line, serialize it, write it |
| control protocol | `windows_pipe.rs` 460-765 | none | parsers of four syntaxes, replies |
| framing | `windows_pipe.rs` 221-245, 361-477 | read buffer | take a frame, take a line, read |
| pipe listener | `windows_pipe.rs` 160-358, `pipe-listener/src/main.rs` | connections, handlers, bounded channel (32), dispatcher, ticking flag | accept, handle a message, send, reply, the `select!` of the main loop |
| pipe file reader | `pipe.rs` | none | `parse_pipe_line`, `read_pipe_commands` |
| simulation client | `client.rs` | transport: dispatcher, `running`, reader | `enqueue_command`, `start` with its reading loop, `stop`, `set_tick_rate` |
| demo server | `demo/src/main.rs` 103-231 | dispatcher, ticking flag, pipe name | create, connect, handle a line, switch pipes, end |
| output forwarder | `demo/src/main.rs` 20-101 | unbounded channel, output pipe, its client | emit, take a line, write, make a new pipe |
| wait-for-start demo | `demo/src/wait_for_start.rs` | dispatcher, `started` | connect, handle a line, end |

### How they interact

* A dispatcher calls its sink: first `publish_time`, then `execute` for each due
  command. The sink is foreign code and may panic.
* In the local client three tokio tasks share one dispatcher through a Mutex. The
  REPL locks it for clock commands, the tick loop for each interval, the queue
  forwarder for each event. Commands to be scheduled do not take the lock where
  they are typed: they go through the bounded channel to the forwarder, as do all
  requests of pipe clients. A watch channel carries the ticking flag from REPL and
  forwarder to the tick loop.
* In the pipe listener one handler per client decodes messages, sends events into
  one bounded channel, and writes replies. One main loop owns the dispatcher and
  selects between the channel and a timer.
* The simulation client owns its transport and the transport its dispatcher; while
  `start` reads lines nobody else can call. What one `start` leaves in the reader is
  there for the next.
* The demo has a main loop, which serves one client after the other, and a task for
  the output pipe. They share an unbounded channel, into which the sink sends every
  line it prints, the names of the pipes (`first_pipe_instance` lets only one of them
  have a name), and the runtime, which ends the task when `main` returns.
* The pipe-mode client has no dispatcher: what is typed is written as text for a
  listener or demo to parse again.

### What is hard about it, and what makes each part correct

* **Dispatcher.** Draining and executing are two loops, a panic may hit between
  any two steps, and `run_for_ticks` repeats both. Correct: no command lost,
  repeated, early, or passed over; timestamp order, ties by descending payload,
  except for commands that came too late; time never goes back.
* **Local client.** Flag checked before the lock is taken; commands in flight in
  the channel while another task moves the clock; tasks that die alone, since a
  tokio Mutex is not poisoned. Correct: a stop is late by one tick at most;
  of starts and stops on two ways to the flag the last one asked for decides; accepted commands are conserved and keep their order; nobody is blocked for good.
* **Listener.** Handlers interleave on a full channel, clients leave at any point,
  pipe operations fail. Correct: per-client order, no reply before the event is in
  the channel, `Disconnected` last, handlers end.
* **Simulation client.** Each command moves the clock, and a bad line or a failing
  read leaves `start` in the middle of a source with `running` set. Correct: lines
  are applied once and in order over any number of starts, nothing due is left
  behind by a running client.
* **Demos.** The forwarder takes a line before it knows that its client is still
  there, and learns of a departure only by writing. Correct: no line twice or out of
  order, a bounded loss per departure, the main loop never held up, another client
  can attach in the end; the wait-for-start demo executes nothing before `start` and
  everything on time after it.
* **Protocol and framing.** Four syntaxes and two encodings in one byte stream
  that is read in arbitrary pieces. Correct: the syntaxes agree, requests are
  answered, messages come out as they went in.

`PROJECT.json` lists every hazard at its line with the properties that watch it.

## 2. The modules

```
EventSimulation (abstract, INSTANCE in Dispatcher)
Scheduler ─┬─ Dispatcher ────┬─ AtomicCalls ── DispatcherProofs
           └─ DispatchCalls ─┘
              DispatchCalls ─┬─ DispatchCallsProofs (used by the proofs on the right)
                             ├─ LocalClient ─┬─ LocalClientProofs
                             │               └─ MCLocalClient
                             ├─ SimulationClient ─┬─ SimulationClientProofs
                             │                    └─ MCSimulationClient
                             ├─ DemoServer ─┬─ DemoServerProofs
                             │   │          └─ MCDemoServer
                             │   └─ OutputForwarder
                             └─ PipeListener ─┬─ PipeListenerProofs
                                              └─ MCPipeListener
ControlProtocol ─┬─ ReplProtocol ─ ControlMessages ─ ControlMessagesProofs
                 └─ (INSTANCE in PipeListener and DemoServer)
FrameDecoder ─┬─ FrameDecoderProofs
              └─ MCFrameDecoder
```

* **`Scheduler`**: clock and heap as operators. `PopsBefore` is the `Ord` of
  `ScheduledCommand`: timestamps reversed, payloads not, so equal timestamps pop
  by *descending* payload. `ReadyTops` is the condition of `has_ready` and of
  `drain_ready`'s loop. A payload is its rank in the order of `String`; `id` and
  `accepted` are history that tells equal commands apart.
* **`Dispatcher`**: one action per method and one per step inside a call. `pc`
  says where the call is, `ready` is the vector `drain_ready` builds, one
  `DrainPop` per heap pop, one `Execute` per turn of the second loop. Panics:
  `LoopTickOverflows` (the clock), `PublishPanics` and `ExecutePanics` (the sink).
  Calls that panic before writing anything (zero rate, overflowing `step`) are
  guards. After a panic the owner may go on calling.
* **`EventSimulation`**: what a dispatcher promises, with no heap, vector or
  loops: time is set, due commands are executed one by one in order, and time may
  be set again only when none is left. `Dispatcher!KeepsPromise` is this
  specification under the mapping *pending = heap plus vector*.
* **`DispatchCalls`** and **`AtomicCalls`**: a whole call as one step, for programs
  in which nobody sees its inside. `AtomicCalls` adds the last call as history to
  `Dispatcher` and `CallIsOneStep` compares: clock, heap and executions of the
  detailed call are those that `DispatchCalls` computes at once. Only this
  entitles the next modules to one-step calls, and it is proved (`CallsAreAtomic`).
* **`LocalClient`**: the three tasks, both channels, panics of each task, quit. A
  step is what a task does under the lock or on a channel. What a task knew before
  that is in its local state: `ticker = "locking"` is a tick loop that has seen the
  flag on and waits for the Mutex, `hand` the event the forwarder has received
  and not applied, `sending` the command the REPL waits to send.
* **`SimulationClient`**: both transports. The loop of `PipeTransport::start` is one
  action per line, with an action for each way out of it: the end of the source, a
  line that does not parse, bytes that are no UTF-8, a read that fails before a line
  or inside it, a clock overflow in the tick. A read that fails inside a line takes
  its beginning with it, since the line buffer belongs to the call, and what is left
  may be any line. `ReadPipeCommands` is `read_pipe_commands` over the same lines.
* **`OutputForwarder`**: sink, channel, task, output pipe and its clients, without the
  main loop; `OutputSpec` lets anybody emit any number of lines. A write to a client
  that has gone is taken once by the runtime (tokio hands it to the system and
  reports the failure with the next one) and fails then, or fails at once.
* **`DemoServer`**: both demos (`demo` says which), as the main loop around
  `OutputForwarder`. Handling a line is one step, since the main loop awaits nothing
  in it. A dispatch that the sink's `timestamp * 4` ends is `SinkPanics`: the
  executions before it stand and have been printed, and `main` unwinds.
* **`ControlProtocol`**: messages by their parsed syntax; `Handle` gives the event
  sent and the reply written. **`ReplProtocol`**: the lines typed at the client, what
  they parse to, what the local client does and what the pipe-mode client writes.
  **`ControlMessages`** runs both over every message and every typed line.
* **`PipeListener`**: listener, one handler per client with its stages (reading,
  sending, replying, leaving, ended), channel and main loop, meaning of a message
  from `ControlProtocol`, calls from `DispatchCalls`. As history, what is in the channel
  and what is replied carries the number of the message it comes from (`Taken`).
* **`FrameDecoder`**: the byte level of one handler, with the code's own numbers: bytes
  of 256 values, a prefix of four, frames of up to 1 MiB, newline 10. The length is
  computed from the prefix, a read takes any number of the bytes that are there. It is kept apart from `PipeListener`, which takes one
  message per step, because the two share nothing but the order of messages, and
  that order is what `FrameDecoder` shows.

The MC modules only define message and request sets and symmetry. Definitions with
names like `DrainPeeks` or `SendUnbounded` next to the one they vary are plausible
bugs: `PROJECT.json` names for every property one that breaks it.

## 3. The runs

| run | question | bounds | states |
|---|---|---|---|
| `dispatcher` | is the dispatcher right, does it refine `EventSimulation`, is a call one step | clock 0..2, 3 commands, payloads {1,2}, `run_for_ticks` up to 2 | 2.2 M |
| `local_client` | safety of the three tasks | clock 0..2, 2 commands, channel of 2, requests step and disconnected | 5.1 M |
| `local_client_live` | who decides the flag; progress of the three tasks | 1 command, channel of 1, requests start, stop, advance, run, rate, interval zero or not | 986 K |
| `simulation_client` | are lines and calls applied as they should over any starts and failures | clock 0..2, 2 calls, sources of up to 3 lines, 1 read that cuts a line | 4.2 M |
| `demo_server` | output, main loop and forwarder together; `start` of the wait-for-start demo | clock 0..4, rate 2 or 1, 3 input lines of 11, 2 output clients, output pipe of 1 line | 802 K |
| `control_messages` | the protocol over all its inputs, local and remote meaning of what is typed | numbers 0..2 or unparsable | 191 K |
| `pipe_listener` | order, replies, dispatch with several clients | 2 clients (symmetric), 3 messages, channel of 1, 10 inputs, all failures | 3.1 M |
| `pipe_listener_live` | do handlers end | 2 clients, 3 messages, channel of 1, start and a request with a reply | 40 thousand |
| `frame_decoder` | is the stream cut as it was written | 4 messages of 6: frames of 1, 5 and 10 bytes, lines of 0, 1 and 5 | 194 K |

What they check, where the names do not say it: `LastWishDecides`, of all starts,
stops and disconnections the last one asked for decides the flag, when those under way
have arrived; `TickingExecutes`, a tick loop with a positive interval executes what lies
in the future and dies, if at all, of a tick without room in u64;
`NotPassedOver`, a dispatch executes
no command and leaves an earlier one behind that was due; `DueMeansHeld`, a due
command that waits was accepted after time was last dispatched; `OvertakenByLater`,
in the in-memory transport only a later command makes a command late;
`NoneVanishes`, an output line is in one place; `RemoteMeansLocal`, a typed command
means remotely what it means locally. The comment above each property states it.

Why these bounds let the interesting cases happen:

* *Clock 0..2.* One tick may execute, one may overflow, and a command may be early,
  due or late. `MaxTime` stands for `u64::MAX`: only comparison and the overflow
  check look at a time, so a small bound brings the overflow within reach.
* *Three commands, two payloads* give ties, an early one with two later ones, and a
  vector of two or more when the sink panics on the first.
* *A channel of one* is full after every send, so each sender meets both a full and
  an empty channel; a second in-flight event is in the forwarder's hand or in the
  REPL's `sending`. The safety run of the local client has room for two, so that
  events in the channel have an order to lose.
* *Two clients and three messages* give a client with two messages, whose order can
  go wrong, against one that competes for the channel.
* *Three lines of a source* give a failing `start` in the middle, a second one that
  goes on behind it, and a line that is cut and followed by another.
* *Three input lines and two output clients.* A command, `start` and an `advance` on
  one connection; a `pipe:` switch with a line behind it that is dropped; up to five
  output lines against a pipe of one, so that channel, hand, pipe, reader and loss
  all hold lines at once, and a client that attaches after another has gone. With
  `MaxTime = 4` the payload `scale-time` at 2 overflows and at 0 does not.
* *Six messages.* The bodies of the frames are newlines, or hold a whole prefix, or are
  as long as a newline is worth, so that the prefix ends in one; the lines are empty,
  short, or longer than a prefix with zeros in them, as a prefix has. `split_prefix`
  has one frame of 2560 bytes, the shortest with a newline inside its prefix.

Bounds are constants: `MaxCommands`, `MaxRun`, `MaxWrites`, `MaxMessages`,
`MaxCuts`, `MaxInputs`, `MaxSessions`, `WireCap`, and the sets `PipeRequests`,
`Inputs`, `Messages`, `Sources`, `Scripts`. Deadlock is checked where the system
cannot stop by itself (`dispatcher`, `local_client`, `control_messages`,
`simulation_client`, `demo_server`); the listener and decoder models end when the
clients have written what the bound allows. `LocalClient` and `DemoServer` have a
stutter of their own (`Ended`) for the ended process.

The two runs of the local client share out the kinds of pipe requests to stay
within minutes: `step` and `disconnected` in one, `start`, `stop`, `advance`, `run`
and `rate` in the other, where two wishes may be under way (one in the channel, one in
the forwarder's hand) while the REPL has its own. A `tick` request is a `run` of one tick, and `stop` and `pause`
do what `disconnected` does. The REPL has all its commands in the safety run; in
the live run it has no `run` (`MaxRun = 0`), whose effect it reaches by ticks.

The three violation runs are described in section 6.

## 4. Fairness

Tokio polls every task that is ready, and its timers keep firing; nothing else is
assumed. So:

* weak fairness for each step a task can take on its own (the ticker, the
  forwarder, a handler's decoding and replying, the main loop's receiving): once
  ready it stays ready, since no other task can take the message or the turn away;
* strong fairness for a send into a bounded channel (`ReplSends`, `Sends`,
  `Leaves`): room may come and go while other senders take it, but tokio's
  semaphore hands permits out in the order in which they were asked for;
* none for users and pipe clients (they may never type, write or leave), for
  failures, or for the pipe listener's timer, which no property there needs.

`TickerStarts`, `TimerFires` and `IntervalTick` are fair in the local client, since
`tick_loop` is a loop over an interval and the Mutex is held by no one across an
`await`: every lock request is served. `TimerFires` is fair only while ticking is
on, which is its guard.

In the demo, weak fairness for handling a line, for `main` on its way out, and for
the output task's receiving and writing. Making its pipe and failing to make it are
fair together: the call returns, but nobody promises with what. Nothing is assumed
of clients, of either pipe, of main's own `create` and `connect`, or of failures, so
`MainIsServed` holds though nobody ever reads the output and `ListensAgain` though
nobody ever comes back. Writing is fair as the disjunction of its three outcomes; a
client that stays and does not read blocks the write for good, which both properties
allow.

## 5. Proofs

TLAPS proves the following for every value of the constants: any `MaxTime`, any
payloads and start times, any capacity of the channel, interval and pipe requests,
and any bound on commands, calls, ticks, lines, clients and failed reads. The
assumptions are the named ones of the modules (`MaxTimeAssumption`,
`PayloadAssumption`, `DispatcherAssumption`, `LocalClientAssumption`,
`SimulationClientAssumption`, `OutputAssumption`, `DemoServerAssumption`,
`PipeListenerAssumption`, `MessagesAssumption`); TLC evaluates them in the runs. The two
theorems about `FrameDecoder` have one more hypothesis, `SafePrefixes`: the code does not
do what they say without it (section 6, 3).

| theorem | property | module |
|---|---|---|
| `TypeCorrect` | `TypeOK` | `DispatcherProofs` |
| `NotEarly` | `NeverEarly` | `DispatcherProofs` |
| `OrderKept` | `InOrderUnlessLate` | `DispatcherProofs` |
| `NoneOverlooked` | `DueOnlyIfLate` | `DispatcherProofs` |
| `TimeIsMonotonic` | `TimeNeverGoesBack` | `DispatcherProofs` |
| `OncePerCommand` | `ExactlyOnce` | `DispatcherProofs` |
| `Refinement` | `KeepsPromise` | `DispatcherProofs` |
| `CallsAreAtomic` | `CallIsOneStep` | `DispatcherProofs` |
| `ClientTypeCorrect` | `TypeOK` | `LocalClientProofs` |
| `OneLateTick` | `AtMostOneLateTick` | `LocalClientProofs` |
| `LastWishObeyed` | `LastWishDecides` | `LocalClientProofs` |
| `FifoToTheHeap` | `ForwardedInOrder` | `LocalClientProofs` |
| `NoneLostOrDoubled` | `AcceptedOnce` | `LocalClientProofs` |
| `NonePassedOver` | `NotPassedOver` | `LocalClientProofs` |
| `LibraryTypeCorrect` | `TypeOK` | `SimulationClientProofs` |
| `EachLineOnce` | `LinesAppliedOnce` | `SimulationClientProofs` |
| `NoDueLeftBehind` | `DueMeansHeld` | `SimulationClientProofs` |
| `LateThroughLater` | `OvertakenByLater` | `SimulationClientProofs` |
| `TransportTakesFiles` | `FileReaderAgrees` | `SimulationClientProofs` |
| `DemoImplementsOutput` | (`Spec => OutputSpec`) | `DemoServerProofs` |
| `DemoNoneVanishes` | `NoneVanishes` | `DemoServerProofs` |
| `DemoReadInOrder` | `ReadInOrder` | `DemoServerProofs` |
| `DemoLossIsBounded` | `LossIsBounded` | `DemoServerProofs` |
| `DemoTypeCorrect` | `TypeOK` | `DemoServerProofs` |
| `WaitsThenOnTime` | `WaitOnTime` | `DemoServerProofs` |
| `TypeCorrect` | `TypeOK` | `PipeListenerProofs` |
| `EventsStayInOrder` | `EventsFollowInput` | `PipeListenerProofs` |
| `RepliesKeepTheirPromise` | `RepliedMeansAccepted` | `PipeListenerProofs` |
| `AdvancesExecuteWhatCameBefore` | `AdvanceExecutesEarlier` | `PipeListenerProofs` |
| `RatesArePositive` | `NoZeroRate` | `ControlMessagesProofs` |
| `SyntaxesMeanTheSame` | `SyntaxesAgree` | `ControlMessagesProofs` |
| `RpcNeverIgnored` | `RpcIsAnswered` | `ControlMessagesProofs` |
| `TypedRemotelyAsLocally` | `RemoteMeansLocal` | `ControlMessagesProofs` |
| `StreamIsUnderstood` | `DecodedAsWritten` | `FrameDecoderProofs` |
| `StreamIsUsedUp` | `NothingLeftAtEnd` | `FrameDecoderProofs` |

**The dispatcher: `Inv`.** None of the properties is inductive as it stands.
Execution order speaks of the log only, but a step appends the head of the vector
to it, so one has to know that whatever goes before something already executed was
accepted too late for it, in the vector and in the heap (`WaitingIsLate`); that the
vector is sorted, due, and not preceded by anything in the heap (`VectorInOrder`);
and that vector and publication belong to the present clock value during a dispatch
(`CallStructure`). `NoneOverlooked` rests on `DrainedDry`: when the top of the heap
is not due, nothing is, which needs that a finite heap that is not empty has a top
(`TopExists`, by well-foundedness of strict inclusion on finite sets) and that the
top has the least timestamp.

**Once per command: `PlaceInv`.** `ExactlyOnce` adds four cardinalities. The
induction is not on sums but on places: for each number given out exactly one of
heap, vector, log and loss holds it, and holds it once, and numbers not given out
are nowhere (`Places`). Each moving action takes its command from the only place it
had; that a panic outside the execution loop loses nothing needs `CallStructure`
(the vector is empty there). `OneInSet`, `OneInVector` and `OneDone` turn places
into cardinalities at the end.

**The refinement: `PromiseInv`.** Clock steps map to `SetTime`, an execution to
`Execute` of the same command, the end of a dispatch to `Finish`, a panic of the
sink to `Abort`; publishing and draining map to no step, since *heap plus vector*
does not change. Two facts are needed: a drained command is in the vector only
(`PlaceInv`), so that taking it from there takes it from what is pending, and while
the vector is executed nothing in the heap is due (`Dry`), so that the vector is
exactly what the promise calls due. That nothing due goes before the command
executed is `VectorInOrder`.

**A call is one step: `CallInv`.** `DispatchCalls` says what a call does by its times
as a set; the code goes from one time to the next. `CallInv` compares them half way:
`Passed` are the times of the call that the clock has come to, those ahead of it are
just the steps left to go (`StepTimes`), and between two dispatches heap and executions
are what `DispatchCalls` computes for `Passed`. During a dispatch they are not yet: what
is due or in the vector counts as executed at the present time, and what is not due as
what stays. Then publishing, draining and executing change nothing of the equation, and
only `OneMoreTime` is about the clock: a command that is left over at the times before
is executed at the next one or left over at that too, and what was executed before keeps
its first time. A clock that overflows stops the call where no time is left
(`StepByStep`), so the equation holds for the times there were.

**The local client: `IInv`.** The commands are in four places: executions, heap,
the forwarder's hand, the channel. `Ordered` says that their numbers grow along the
channel and from each place to the next; uniqueness and FIFO order are then one
invariant. `Conserved` says that no number is missing while the forwarder lives. All
actions fall into four kinds with a lemma each: the dispatcher moves
(`ClockEffectKeeps`), an event enters the channel (`AppendKeeps`), the forwarder
takes one (`TakeKeeps`), a command reaches the heap (`EnqueueKeeps`). What a
one-step call does to heap and executions is `ExecutionsAreDue` in
`DispatchCallsProofs`: what leaves the heap is executed at a time of the call at
which nothing that stays was due. `OneLateTick` needs that a loop that waits for
the lock has not made a late tick yet (`LateTicksInv`). `LastWishObeyed`
follows the wishes through channel and hand: an event that joins those under way is the
last of them from then on (`WishesAppended`), the forwarder's taking one changes nothing
in their order, and applying the oldest either leaves a later one to decide or was the
last wish itself (`ForwarderWishes`). What is peculiar to the REPL is in the history
`wanted`: a wish of the REPL counts only when no pipe client's is under way.

**The simulation client: `ClientInv`.** `LinesAppliedOnce` looks at lines already read.
To preserve it when the next one is read, one needs that the lines still in the reader
are those of the input at their places, unless cut (`Aligned`), and that the lines of
accepted commands lie behind the reader's position, every number given out being in
the heap or executed and no other (`Origins`). `OvertakenByLater` needs that time has
stood since a due command was accepted (`DueIsNew`): when such a command is executed
later, the command whose enqueue moved time is the later one, and it is executed in
the same call at its own timestamp. `FileReaderAgrees` follows from the invariant and
`ErrorHasCause`, that a parse error comes of a garbage line or a cut.

**The output pipe: `OutputInv`.** A line moves from the channel to the task's hand, to
the pipe, to a reader. `Ordered` says that numbers grow against that direction, within
each place and between any two; no line twice and the order of reading are then one
invariant. `Accounted` says that what is lost is what is nowhere else. That gaps lie
between clients is `NoGap`, and it needs `LostOutside`: what is lost lies before all
that the attached client has read or may still read, except for what was sent after
the task had ended. The bound on losses is not inductive either: what the present
client may still cost has to be set aside. `Allowance` does this by the stage of the
task: `WireCap + 2` while the client is attached, 2 when it has gone with the contents
of the pipe, 1 after a write in vain, 0 when the failed write has made the task start
anew.

**The demo: composition.** `DemoImplementsOutput` shows that every step of the demo is a
step of `OutputNext` or changes nothing of it, so the theorems about the forwarder
hold in the demo with all its ways to end. It rests on the heap being finite: what a
dispatch prints is a number, the cardinality of its executions. `WaitsThenOnTime` is by
`WaitInv`: a command that waits was accepted at a time not after the present one, the
rate is 1, and there is no second client once ticking is on, so that a due command
always meets the tick of its own line.

**The listener: `ListenerInv`.** Both orders are about numbers of messages, so the
invariant ties a handler's stage to one number, `Taken`, the message it took last.
`Working`: the pipe holds the end of what was written, from `Taken` on, and the work in
hand is that message. `Sending`: the events of all messages up to `Taken` are in, except
for the last one while it is to be sent or was given up; `Disconnected` has the number
behind `Taken`, and is there only when the handler has ended with nothing unread.
`Replying` says the same of replies, and together they give `EventsFollowInput` and
`RepliedMeansAccepted`, which are conjuncts (`Ordered`, `Promised`). A step of another
client leaves all this as it is, except that events enter the channel: `Calm` and
`SameGrows` state that once for all clients. For `AdvanceExecutesEarlier`, `HeapInv`
says that each scheduled command applied so far is in the heap or executed, and that
after an applied advance whatever is in the heap from before it is later than its
target; the heap only loses commands to executions (`DispatchCallsProofs`).

**The protocol: `MessageInv`.** The statements are about every message, so the work is in
the cases of the parsers, not in the steps. `MethodParses` compares a JSON-RPC method
with the shorthands of the same verb, once for all verbs; `IsEvent` collects what a
parser can return; `CommandCases` what a typed line can be. `MessageInv` says that the
message is one that somebody can write and the outcome what the handler makes of it.

**The framing: `DecoderInv`.** What is written and not consumed is the messages not yet
decoded, one behind the other. To say so without recursion, the invariant asks for a
function from the number of a message to its place in the stream (`Placed`). A write
adds a place at the end, a read moves bytes from the pipe to the buffer and leaves the
stream as it was, and taking a message moves all places to the front. The rest is about
the front of the buffer only. `LineAhead`: a line does not begin with a zero byte, so
the first four bytes are more than any length allowed, and its newline is the first in
the buffer. `FrameAhead`: the prefix gives the length as soon as it is there
(`PrefixHoldsLength`), and before that there is no newline, which is where
`SafePrefixes` is needed. At the end of the stream a whole message would have been taken
(`SeesEndKeeps`), so none is left.

**Only model-checked.** Liveness under fairness and `ENABLED` are out of the prover's
reach: `CommandIsScheduled`, `TickingExecutes`, `ReplIsServed`, `HandlersEnd`,
`MainIsServed` and `ListensAgain` stay with TLC. Every other property of the passing
runs is a theorem.

## 6. Where code and documentation disagree

Each of the first three is a run that TLC ends with a counterexample.

1. `reply_matches_id`. README:89 and 113: no response without an `id`, a response
   with one. A failing notification is answered, and a request with `"id": null`
   is not.
2. `disconnect_is_announced`. `windows_pipe.rs:203`: a `Disconnected` event is sent
   when the client disconnects. A handler whose reply cannot be written returns
   through `?` before that, so the event never comes (the run shows this). It follows from
   `queue_forwarder` and the pipe listener's main loop, which stop ticking on that event,
   that the ticking such a client had started goes on; the trace does not show that.
3. `split_prefix`. README:94: each frame has a length prefix. When a read ends inside
   a prefix that has a newline byte (a length of 2560 to 2815 bytes, for instance),
   the decoder takes the bytes before it for a line, and from there on is out of
   step with the stream.

Seen while modelling, with no run of their own:

* README:62 says that `start` enables ticking. The tick loop is spawned once; after a
  clock overflow in its tick, or with `--interval-ms 0`, it is dead, `start` prints
  success and nothing ticks. `TickingExecutes` and `LastWishDecides` say what does hold.
* `client/src/main.rs:217` says that the forwarder serializes access so that commands
  and clock updates occur in order. REPL clock commands do not go through it:
  `enqueue 5 x`, `advance 5` may advance first. `NotPassedOver` says what does hold.
* README:95 calls the prefix little-endian; `windows_pipe.rs:436` reads it
  big-endian (`from_be_bytes`), and the repository's own writers use the same.
  The model has the code's order.
* `windows_pipe.rs:16` says that stop takes effect immediately; in the local client
  one more tick may come (`AtMostOneLateTick` shows that it is only one), and a pipe
  client's wish first waits its turn in the channel: a `start` still there overrules a
  `stop` that the REPL has answered meanwhile (`LastWishDecides` says which one decides).
* README:121 calls `AddFileNoteAsync` an alias for `now` without params;
  `windows_pipe.rs` requires `file` and `note` and sends an event of its own.
  `ControlProtocol` does as the code.
* README:112 wants `jsonrpc` to be `"2.0"`; the code checks that it is a string and
  not which. `ControlProtocol` keeps the version and ignores it, as the code does.
* README:205 and 213 say that the output pipe mirrors the demo's console and that `now`
  confirms that responses flow; only what the sink prints goes there, and the answer
  to `now` is printed with `println!`. In `DemoServer` `now` emits nothing.
* README:231-235 shows the non-Windows demo publishing 0, 1 and 2, while its tick rate
  is 2.
* README:253-256: the script's `start` ticks once, from 0 to 1, and its last line once
  more, to 2, so that nothing of 4, 8 and 12 is executed; `WaitOnTime` is about what
  is.
* `pipe.rs:52` says that the commands parsed before an error are returned; the error is
  all that is returned. `PipeTransport::start` keeps them instead, and skips blank
  lines, which `read_pipe_commands` rejects.
* `PipeTransport::stop` cannot interrupt its `start`, which holds `&mut self`.
* What follows `pipe` at the pipe-mode client is written as typed, so `pipe stop` or
  `pipe pipe:other` is an instruction to the server, where the local client takes only
  `timestamp:command`. `RemoteMeansLocal` is about lines the local client obeys.

## 7. What is left out

* Characters: spelling of verbs, white space, case, texts of errors and logs. A
  message is its parsed syntax, a payload its rank.
* UTF-8 and MessagePack decoding errors of the listener, which consume a message and
  send nothing.
* `next_timestamp`, `is_empty`, `now`, `help`: they only read.
* Argument parsing, the choice of a mode, printing.
* The task of the pipe-mode client that prints what the server writes, and the opening
  of its pipes: input and output with no state. A server closing the connection ends
  its loop as the end of its input does.
* `main` of the demo on other systems than Windows is a fixed sequence of dispatcher
  calls, one behaviour of `Dispatcher`; the wait-for-start demo does nothing there.
  The local client without pipes is `LocalClient` with `PipeRequests = {}`.
* The demo's output pipe fails only when its client has gone; a pipe that fails under
  an attached client has no model of its own. The buffer of the writer does not
  outlive a line, since each is flushed.

## 8. Plan

Done, in this order: dispatcher with its refinement and proofs, one-step calls,
local client and proofs, control protocol, listener, framing, simulation client and
file reader, demos with the output forwarder, typed lines of the pipe-mode client,
proofs for the simulation client, the forwarder and the demos, for the listener, the
protocol, the framing and the one-step calls.

Left:

1. The theorems use `CallsAreAtomic` by its statement only: a program whose calls are
   steps of `Dispatcher` could be shown to implement the one that calls `DispatchCalls`,
   for the local client first, since it holds a Mutex for the length of a call.
2. Step from `FrameDecoder` to `PipeListener`: the messages a handler takes one by one
   are those that `FrameDecoder` has decoded.
