----------------------------- MODULE DemoServer -----------------------------
(***************************************************************************)
(* The two demos that serve a named pipe.  The demo (demo/src/main.rs)     *)
(* serves one client after the other, each on the pipe of the current      *)
(* name, obeys control instructions, ticks after each command while        *)
(* ticking is on, and prints to an output pipe too (OutputForwarder).  The *)
(* wait-for-start demo (demo/src/wait_for_start.rs) serves one client,     *)
(* knows commands and start only, and has no output pipe.                  *)
(*                                                                         *)
(* Nothing is written back, so a client is the lines it writes; they are   *)
(* given when it attaches.  Handling a line is one step: the main loop     *)
(* does not await in it (DispatchCalls), and the output task sees a        *)
(* channel.                                                                *)
(***************************************************************************)
EXTENDS DispatchCalls, OutputForwarder

CONSTANTS
  ScaleTime,  (* the payload scale-time *)
  Scripts,    (* what a client may write: sequences of lines *)
  MaxInputs   (* bound on the lines of all clients together *)

Control == INSTANCE ControlProtocol

\* OutputName is the name of the output pipe, MainName any other.
MainName == "timesimulation-demo"
OutputName == "timesimulation-demo-output"
Names == {MainName, OutputName}

\* A line `pipe:', with a name or without one, and any other line.
Line == [kind : {"pipe"}, name : Names \cup {""}]
          \cup [kind : {"message"}, message : Control!Message]

ASSUME DemoServerAssumption ==
  /\ Scripts \subseteq Seq(Line)
  /\ MaxInputs \in Nat
  /\ MaxTime >= 2

VARIABLES
  demo,      (* "demo" or "wait": which of the two runs *)
  main,      (* the main loop: "creating", "listening", "serving", or on its
                way out: "leaving", "returned", "exited" *)
  pipeName,
  inbox,     (* lines of the attached client, not yet handled *)
  written,   (* history: the number of lines of all clients *)
  ticking,   (* `started' in the wait-for-start demo *)
  current, tickRate, queue, executed  (* the dispatcher *)

clock == <<current, tickRate, queue, executed>>
server == <<demo, main, pipeName, inbox, written>>
vars == <<server, ticking, clock, output>>

InitialRate == IF demo = "demo" THEN 2 ELSE 1

Init ==
  /\ demo \in {"demo", "wait"}
  /\ main = "creating"
  /\ pipeName = MainName
  /\ inbox = <<>>
  /\ written = 0
  /\ ticking = (demo = "demo")
  /\ current = 0
  /\ tickRate = InitialRate
  /\ queue = {}
  /\ executed = {}
  /\ OutputInit
  /\ forwarder = (IF demo = "demo" THEN "creating" ELSE "ended")

-----------------------------------------------------------------------------
(* The dispatcher and its sink *)

\* What the sink prints goes to the output pipe of the demo, if there is one.
Prints(n) == IF demo = "demo" THEN Emits(n) ELSE UNCHANGED output

\* A call dispatches heap at some times; the sink prints each time and each
\* execution.  If the clock overflows, the main loop ends by the panic.
Dispatches(heap, times, overflows) ==
  /\ current' = ClockAfter(current, times)
  /\ queue' = QueueAfter(heap, times)
  /\ executed' = executed \cup Executions(heap, times)
  /\ main' = IF overflows THEN "leaving" ELSE "serving"
  /\ Prints(Cardinality(times) + Cardinality(Executions(heap, times)))

Earlier(x, y) ==
  \/ x.at < y.at
  \/ x.at = y.at /\ PopsBefore(x.cmd, y.cmd)

\* timestamp * 4 is out of range: a build with overflow checks panics.
Overflowing(x) == x.cmd.command = ScaleTime /\ x.cmd.timestamp * 4 > MaxTime

\* The sink panics in one of the executions of a call, the first for which it
\* can.  The executions before it have been made and printed.
SinkPanics(heap, times) ==
  \E x \in Executions(heap, times) :
    LET made == {y \in Executions(heap, times) : Earlier(y, x)}
        passed == {t \in times : t <= x.at}
    IN  /\ demo = "demo"
        /\ Overflowing(x)
        /\ \A y \in made : ~Overflowing(y)
        /\ current' = x.at
        /\ queue' = QueueAfter(heap, passed)
        /\ executed' = executed \cup made
        /\ main' = "leaving"
        /\ Prints(Cardinality(passed) + Cardinality(made))

Calls(heap, times, overflows) ==
  /\ Dispatches(heap, times, overflows) \/ SinkPanics(heap, times)
  /\ UNCHANGED tickRate

Steps(heap, delta, n) ==
  Calls(heap, StepTimes(current, delta, n), StepsOverflow(current, delta, n))

-----------------------------------------------------------------------------
(* The main loop: pipe and client *)

MainHoldsOutputName == main \in {"listening", "serving"} /\ pipeName = OutputName

TaskHoldsOutputName == forwarder \in {"listening", "receiving", "writing"}

MainCreatesAnyway ==
  /\ main = "creating"
  /\ main' = "listening"
  /\ UNCHANGED <<demo, pipeName, inbox, written, ticking, clock, output>>

\* first_pipe_instance: not while the output task has a pipe of that name.
MainCreates ==
  /\ main = "creating"
  /\ pipeName = OutputName => ~TaskHoldsOutputName
  /\ main' = "listening"
  /\ UNCHANGED <<demo, pipeName, inbox, written, ticking, clock, output>>

\* create, connect or next_line fails: main returns.
MainFails ==
  /\ main \in {"creating", "listening", "serving"}
  /\ main' = "leaving"
  /\ UNCHANGED <<demo, pipeName, inbox, written, ticking, clock, output>>

MainConnects(lines) ==
  /\ main = "listening"
  /\ written + Len(lines) <= MaxInputs
  /\ main' = "serving"
  /\ inbox' = lines
  /\ written' = written + Len(lines)
  /\ UNCHANGED <<demo, pipeName, ticking, clock, output>>

\* next_line gives None: the demo waits for the next client, the wait-for-start
\* demo is over.
SeesEnd ==
  /\ main = "serving"
  /\ inbox = <<>>
  /\ main' = IF demo = "demo" THEN "creating" ELSE "leaving"
  /\ UNCHANGED <<demo, pipeName, inbox, written, ticking, clock, output>>

\* main has come to its end, or unwinds: the dispatcher is dropped, then the
\* runtime.
MainReturns ==
  /\ main = "leaving"
  /\ main' = "returned"
  /\ Drops
  /\ UNCHANGED <<demo, pipeName, inbox, written, ticking, clock>>

MainExits ==
  /\ main = "returned"
  /\ main' = "exited"
  /\ Stops
  /\ UNCHANGED <<demo, pipeName, inbox, written, ticking, clock>>

-----------------------------------------------------------------------------
(* The main loop: a line *)

TakesInput ==
  /\ inbox' = Tail(inbox)
  /\ UNCHANGED <<demo, pipeName, written>>

\* The command of a scheduler line.
Scheduled(t, p) ==
  [timestamp |-> t, command |-> p, accepted |-> current,
   id |-> Cardinality(queue) + Cardinality(executed) + 1]

\* enqueue_from_pipe, then a tick if ticking is on.
Enqueues(t) ==
  \E p \in Payload :
    IF ticking
      THEN Steps(queue \cup {Scheduled(t, p)}, tickRate, 1)
      ELSE /\ queue' = queue \cup {Scheduled(t, p)}
           /\ UNCHANGED <<main, current, tickRate, executed, output>>

SetsTicking(on) ==
  /\ ticking' = on
  /\ UNCHANGED <<main, clock, output>>

\* What an event does in the demo; now and a file note only print.
Obeys(event) ==
  \/ event.kind = "start" /\ SetsTicking(TRUE)
  \/ event.kind \in {"stop", "pause"} /\ SetsTicking(FALSE)
  \/ /\ UNCHANGED ticking
     /\ \/ event.kind = "tick" /\ Steps(queue, tickRate, 1)
        \/ event.kind = "step" /\ Steps(queue, event.n, 1)
        \/ event.kind = "run" /\ Steps(queue, tickRate, event.n)
        \/ event.kind = "advance" /\ Calls(queue, {Forward(current, event.n)}, FALSE)
        \/ /\ event.kind = "rate"
           /\ tickRate' = event.n
           /\ UNCHANGED <<main, current, queue, executed, output>>
        \/ event.kind = "scheduled" /\ Enqueues(event.n)
        \/ event.kind \in {"now", "note", "none"} /\ UNCHANGED <<main, clock, output>>

\* The demo: a message that is no event and no command is reported and
\* dropped; a JSON-RPC request gets no reply.
HandlesMessage(line) ==
  /\ demo = "demo"
  /\ line.kind = "message"
  /\ TakesInput
  /\ Obeys(Control!Handle(line.message, "line").event)

\* The demo: the next pipe has another name.  The connection is dropped with
\* the lines that the client has written behind this one.
SwitchesPipe(line) ==
  /\ demo = "demo"
  /\ line.kind = "pipe"
  /\ IF line.name = ""
       THEN TakesInput /\ UNCHANGED main
       ELSE /\ pipeName' = line.name
            /\ inbox' = <<>>
            /\ main' = "creating"
            /\ UNCHANGED <<demo, written>>
  /\ UNCHANGED <<ticking, clock, output>>

IsStart(line) ==
  line = [kind |-> "message",
          message |-> [syntax |-> "words", verb |-> "start", number |-> Control!Bad]]

IsCommand(line) ==
  /\ line.kind = "message"
  /\ line.message.syntax = "pipe"
  /\ line.message.timestamp # Control!Bad

StartsWithoutTick(line) ==
  /\ demo = "wait"
  /\ IsStart(line)
  /\ TakesInput
  /\ ticking' = TRUE
  /\ UNCHANGED <<main, clock, output>>

\* The wait-for-start demo: the first start ticks at once, another does nothing.
Starts(line) ==
  /\ demo = "wait"
  /\ IsStart(line)
  /\ TakesInput
  /\ ticking' = TRUE
  /\ IF ticking THEN UNCHANGED <<main, clock, output>>
                ELSE Steps(queue, tickRate, 1)

\* The wait-for-start demo: any other line is a command or an error.
WaitSchedules(line) ==
  /\ demo = "wait"
  /\ ~IsStart(line)
  /\ TakesInput
  /\ UNCHANGED ticking
  /\ IF IsCommand(line) THEN Enqueues(line.message.timestamp)
                        ELSE UNCHANGED <<main, clock, output>>

HandlesLine ==
  /\ main = "serving"
  /\ inbox # <<>>
  /\ \/ HandlesMessage(Head(inbox))
     \/ SwitchesPipe(Head(inbox))
     \/ Starts(Head(inbox))
     \/ WaitSchedules(Head(inbox))

-----------------------------------------------------------------------------
(* The output task beside it *)

\* first_pipe_instance: not while the main loop has a pipe of that name.
TaskCreates ==
  /\ ~MainHoldsOutputName
  /\ Creates
  /\ UNCHANGED <<server, ticking, clock>>

OutputTask == OutputSteps /\ UNCHANGED <<server, ticking, clock>>

\* What remains is for the client of the output pipe to leave.
Ended == main = "exited" /\ UNCHANGED vars

Next ==
  \/ MainCreates
  \/ MainFails
  \/ \E lines \in Scripts : MainConnects(lines)
  \/ SeesEnd
  \/ MainReturns
  \/ MainExits
  \/ HandlesLine
  \/ TaskCreates
  \/ OutputTask
  \/ Ended

Spec == Init /\ [][Next]_vars

(***************************************************************************)
(* The runtime polls main loop and output task whenever they can go on.    *)
(* What it cannot promise: that pipe operations succeed, that clients      *)
(* write, read or leave.  A pipe that can be made is made, or its making   *)
(* fails.                                                                  *)
(***************************************************************************)
Fairness ==
  /\ WF_vars(HandlesLine)
  /\ WF_vars(MainReturns)
  /\ WF_vars(MainExits)
  /\ WF_vars(TaskCreates \/ (forwarder = "creating" /\ ForwarderFails /\ OutputTask))
  /\ WF_vars(TakesLine /\ OutputTask)
  /\ WF_vars(ReceivesNone /\ OutputTask)
  /\ WF_vars((Writes \/ WritesInVain \/ WriteFails) /\ OutputTask)

FairSpec == Spec /\ Fairness

-----------------------------------------------------------------------------
(* Properties *)

TypeOK ==
  /\ OutputTypeOK
  /\ demo \in {"demo", "wait"}
  /\ main \in {"creating", "listening", "serving", "leaving", "returned", "exited"}
  /\ pipeName \in Names
  /\ inbox \in Seq(Line)
  /\ inbox # <<>> => main # "listening"
  /\ written \in 0 .. MaxInputs
  /\ ticking \in BOOLEAN
  /\ current \in Time
  /\ tickRate \in Rate
  /\ queue \cup {x.cmd : x \in executed} \subseteq ScheduledCommand
  /\ ~(MainHoldsOutputName /\ TaskHoldsOutputName)
  /\ main \in {"returned", "exited"} <=> ~sender

\* In the wait-for-start demo nothing happens before start, however many
\* commands wait; from then on each is executed on time, or by the tick that
\* its own line makes if it comes too late, and no due command ever waits
\* (wait_for_start.rs: start ticks too, unlike the demo's).
WaitOnTime ==
  demo = "wait" =>
    /\ \A x \in executed :
         x.at = Max({x.cmd.timestamp, x.cmd.accepted + 1})
    /\ IF ticking
         THEN main = "serving" => \A c \in queue : c.timestamp > current
         ELSE executed = {} /\ current = 0

\* The main loop never waits for the output pipe: it handles all a client has
\* written though nobody attaches to the output pipe, or nobody reads there.
MainIsServed == inbox # <<>> ~> (inbox = <<>> \/ main # "serving")

\* A client that has gone is noticed by the second line printed after it at
\* the latest; then there is a pipe again for another client, or the task has
\* ended.  Without a line to write it is not noticed at all.
ListensAgain ==
  forwarder \in {"receiving", "writing"} /\ ~attached /\ Len(channel \o hand) > 1
    ~> forwarder \in {"listening", "ended"}
=============================================================================
