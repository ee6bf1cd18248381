--------------------------- MODULE SimulationClient ---------------------------
(***************************************************************************)
(* The client library (client.rs): a SimulationClient passes its calls to  *)
(* a transport that owns a dispatcher.  In both transports a command       *)
(* enqueued while `running' moves simulated time to its timestamp.  start  *)
(* of the in-memory transport only sets the flag; start of the pipe        *)
(* transport also reads lines until they end, enqueues each one and ticks. *)
(*                                                                         *)
(* A client is used through &mut self, so no call is made while start      *)
(* reads; reads themselves may fail between two lines or inside a line,    *)
(* and start may be called again afterwards.  A line is its meaning: a     *)
(* command with its timestamp, a blank line, one that does not parse, or   *)
(* one that is no UTF-8.                                                   *)
(*                                                                         *)
(* After a panic of the clock the owner may go on calling, as in           *)
(* Dispatcher.                                                             *)
(***************************************************************************)
EXTENDS DispatchCalls, Sequences

CONSTANTS
  Sources,      (* what the reader of the pipe transport may hold *)
  MaxCommands,  (* bound on the calls of enqueue_command *)
  MaxCuts       (* bound on the reads that fail inside a line *)

Line == [kind : {"command"}, timestamp : Time]
          \cup [kind : {"blank", "garbage", "undecodable"}]

ASSUME SimulationClientAssumption ==
  /\ Sources \subseteq Seq(Line)
  /\ MaxCommands \in Nat
  /\ MaxCuts \in Nat

VARIABLES
  transport,  (* "memory" or "pipe" *)
  running,    (* the transport's flag *)
  current, tickRate, queue, executed,  (* its dispatcher *)
  source,     (* lines still to be read *)
  reading,    (* start of the pipe transport is in its loop *)
  outcome,    (* what the last call returned, "ok" before the first *)
  input,      (* history: all lines of the source *)
  cut,        (* history: the lines of which a failed read took the head *)
  origin,     (* history: for each command accepted, its line, or 0 *)
  held        (* history: commands accepted since time was last dispatched *)

clock == <<current, tickRate, queue, executed>>
reader == <<source, input, cut>>
vars == <<transport, running, clock, reading, outcome, reader, origin, held>>

Init ==
  /\ transport \in {"memory", "pipe"}
  /\ running = FALSE
  /\ current = 0
  /\ tickRate = 1
  /\ queue = {}
  /\ executed = {}
  /\ source \in (IF transport = "pipe" THEN Sources ELSE {<<>>})
  /\ reading = FALSE
  /\ outcome = "ok"
  /\ input = source
  /\ cut = {}
  /\ origin = <<>>
  /\ held = {}

LinesRead == Len(input) - Len(source)

-----------------------------------------------------------------------------
(* The dispatcher *)

\* The command that is enqueued next.
Command(t, p) ==
  [timestamp |-> t, command |-> p, id |-> Len(origin) + 1, accepted |-> current]

\* A call dispatches the heap at some times, none when the clock overflows.
DispatchAt(heap, times) ==
  /\ current' = ClockAfter(current, times)
  /\ queue' = QueueAfter(heap, times)
  /\ executed' = executed \cup Executions(heap, times)
  /\ UNCHANGED tickRate

-----------------------------------------------------------------------------
(* Calls of the owner, none of them while start reads *)

Idle == ~reading

Calls == Len(SelectSeq(origin, LAMBDA n : n = 0))

SetTickRate(r) ==
  /\ Idle
  /\ tickRate' = r
  /\ outcome' = "ok"
  /\ UNCHANGED <<transport, running, current, queue, executed, reading, reader,
                 origin, held>>

AdvanceBeforeEnqueue(t, p) ==
  /\ Idle
  /\ Calls < MaxCommands
  /\ origin' = Append(origin, 0)
  /\ IF running
       THEN /\ current' = Forward(current, t)
            /\ queue' = QueueAfter(queue, {Forward(current, t)}) \cup {Command(t, p)}
            /\ executed' = executed \cup Executions(queue, {Forward(current, t)})
            /\ UNCHANGED tickRate
            /\ held' = {}
       ELSE /\ queue' = queue \cup {Command(t, p)}
            /\ UNCHANGED <<current, tickRate, executed>>
            /\ held' = held \cup {Len(origin) + 1}
  /\ outcome' = "ok"
  /\ UNCHANGED <<transport, running, reading, reader>>

EnqueueThenTick(t, p) ==
  /\ Idle
  /\ Calls < MaxCommands
  /\ origin' = Append(origin, 0)
  /\ IF running
       THEN /\ DispatchAt(queue \cup {Command(t, p)},
                          StepTimes(current, tickRate, 1))
            /\ held' = {}
       ELSE /\ queue' = queue \cup {Command(t, p)}
            /\ UNCHANGED <<current, tickRate, executed>>
            /\ held' = held \cup {Len(origin) + 1}
  /\ outcome' = "ok"
  /\ UNCHANGED <<transport, running, reading, reader>>

\* enqueue_command: the same in both transports.  While running, time moves to
\* the timestamp, or stays where it is if that is past, and is dispatched.
EnqueueCommand(t, p) ==
  /\ Idle
  /\ Calls < MaxCommands
  /\ origin' = Append(origin, 0)
  /\ IF running
       THEN /\ DispatchAt(queue \cup {Command(t, p)}, {Forward(current, t)})
            /\ held' = {}
       ELSE /\ queue' = queue \cup {Command(t, p)}
            /\ UNCHANGED <<current, tickRate, executed>>
            /\ held' = held \cup {Len(origin) + 1}
  /\ outcome' = "ok"
  /\ UNCHANGED <<transport, running, reading, reader>>

\* start: the pipe transport enters its loop.
Start ==
  /\ Idle
  /\ running' = TRUE
  /\ reading' = (transport = "pipe")
  /\ outcome' = "ok"
  /\ UNCHANGED <<transport, clock, reader, origin, held>>

StopAnyTime ==
  /\ running' = FALSE
  /\ outcome' = "ok"
  /\ UNCHANGED <<transport, clock, reading, reader, origin, held>>

Stop ==
  /\ Idle
  /\ running' = FALSE
  /\ outcome' = "ok"
  /\ UNCHANGED <<transport, clock, reading, reader, origin, held>>

-----------------------------------------------------------------------------
(* The loop of PipeTransport::start *)

\* start returns.  It leaves `running' set whatever it returns.
Returns(result) ==
  /\ reading' = FALSE
  /\ outcome' = result
  /\ UNCHANGED <<transport, running>>

NextIs(kind) == reading /\ source # <<>> /\ Head(source).kind = kind

\* What becomes of the line.
TakesLine == source' = Tail(source) /\ UNCHANGED <<input, cut>>

ReadsBlank ==
  /\ NextIs("blank")
  /\ TakesLine
  /\ UNCHANGED <<transport, running, clock, reading, outcome, origin, held>>

\* A command is enqueued, then the dispatcher ticks.  If that overflows the
\* clock start is left by a panic, with the command in the heap.
ReadsCommand(p) ==
  /\ NextIs("command")
  /\ TakesLine
  /\ origin' = Append(origin, LinesRead + 1)
  /\ DispatchAt(queue \cup {Command(Head(source).timestamp, p)},
                StepTimes(current, tickRate, 1))
  /\ IF StepsOverflow(current, tickRate, 1)
       THEN /\ Returns("panic")
            /\ held' = held \cup {Len(origin) + 1}
       ELSE /\ held' = {}
            /\ UNCHANGED <<transport, running, reading, outcome>>

ReadsGarbageAndBuffer ==
  /\ NextIs("garbage")
  /\ source' = <<>> \* with a buffer made anew by every call
  /\ UNCHANGED <<input, cut>>
  /\ Returns("parse error")
  /\ UNCHANGED <<clock, origin, held>>

\* A line that does not parse ends start with an error.
ReadsGarbage ==
  /\ NextIs("garbage")
  /\ TakesLine
  /\ Returns("parse error")
  /\ UNCHANGED <<clock, origin, held>>

\* read_line takes a line that is no UTF-8 from the reader and fails.
ReadsUndecodable ==
  /\ NextIs("undecodable")
  /\ TakesLine
  /\ Returns("read error")
  /\ UNCHANGED <<clock, origin, held>>

\* A read fails before the first byte of a line.
ReadFails ==
  /\ reading
  /\ Returns("read error")
  /\ UNCHANGED <<clock, reader, origin, held>>

\* A read fails inside a line.  What was read of it is in the line buffer,
\* which goes with the call; the rest of the line is still to be read, and
\* may mean anything.
ReadFailsInside(rest) ==
  /\ reading
  /\ source # <<>>
  /\ Cardinality(cut) < MaxCuts
  /\ source' = <<rest>> \o Tail(source)
  /\ cut' = cut \cup {LinesRead + 1}
  /\ Returns("read error")
  /\ UNCHANGED <<clock, input, origin, held>>

\* A read of no bytes.
SourceEnds ==
  /\ reading
  /\ source = <<>>
  /\ Returns("ok")
  /\ UNCHANGED <<clock, reader, origin, held>>

Next ==
  \/ \E r \in Rate : SetTickRate(r)
  \/ \E t \in Time, p \in Payload : EnqueueCommand(t, p)
  \/ Start
  \/ Stop
  \/ ReadsBlank
  \/ \E p \in Payload : ReadsCommand(p)
  \/ ReadsGarbage
  \/ ReadsUndecodable
  \/ ReadFails
  \/ \E rest \in Line : ReadFailsInside(rest)
  \/ SourceEnds

Spec == Init /\ [][Next]_vars

-----------------------------------------------------------------------------
(* read_pipe_commands (pipe.rs): the same lines read as a file *)

ReadPipeCommandsThatParse(lines) ==
  LET good == SelectSeq(lines, LAMBDA line : line.kind = "command")
  IN  [ok |-> TRUE, timestamps |-> [i \in DOMAIN good |-> good[i].timestamp]]

\* It gives the commands of a file in which every line is one, and nothing but
\* an error for any other; a blank line does not parse.
ReadPipeCommands(lines) ==
  IF \A i \in DOMAIN lines : lines[i].kind = "command"
    THEN [ok |-> TRUE, timestamps |-> [i \in DOMAIN lines |-> lines[i].timestamp]]
    ELSE [ok |-> FALSE]

-----------------------------------------------------------------------------
(* Properties *)

Done == {x.cmd : x \in executed}

TypeOK ==
  /\ transport \in {"memory", "pipe"}
  /\ running \in BOOLEAN
  /\ reading \in BOOLEAN
  /\ reading => transport = "pipe" /\ running
  /\ current \in Time
  /\ tickRate \in Rate
  /\ queue \cup Done \subseteq ScheduledCommand
  /\ source \in Seq(Line) /\ input \in Seq(Line)
  /\ outcome \in {"ok", "panic", "parse error", "read error"}
  /\ origin \in Seq(Nat)
  /\ held \subseteq DOMAIN origin

\* However often start fails and is called again, each line is applied at most
\* once and in its order, and of the lines that were read exactly those that
\* are commands have been applied, with their timestamps; only a line that a
\* failed read has cut in two may be lost or be taken for another
\* (PipeTransport::start: what one call leaves in the reader the next one gets).
LinesAppliedOnce ==
  /\ \A i, j \in DOMAIN origin :
       i < j /\ origin[j] # 0 => origin[i] < origin[j]
  /\ \A n \in 1 .. LinesRead : n \notin cut =>
       (input[n].kind = "command" <=> \E i \in DOMAIN origin : origin[i] = n)
  /\ \A c \in queue \cup Done : origin[c.id] \notin cut \cup {0} =>
       c.timestamp = input[origin[c.id]].timestamp

\* A command that is due and not executed was accepted after time was last
\* dispatched, by calls made while the client was stopped or by the line whose
\* tick overflowed.  In particular enqueue_command on a running client leaves
\* nothing due behind, its own command included.
DueMeansHeld == \A c \in queue : c.timestamp <= current => c.id \in held

\* In the in-memory transport time is moved by commands only, so a command is
\* executed after both its timestamp and its acceptance only because a command
\* enqueued after it asked for the very time it was executed at.
OvertakenByLater ==
  transport = "memory" =>
    \A x \in executed :
      \/ x.at \in {x.cmd.timestamp, x.cmd.accepted}
      \/ \E y \in executed : /\ y.cmd.id > x.cmd.id
                             /\ y.cmd.timestamp = x.at

\* A source that read_pipe_commands accepts as a file start never rejects, and
\* when start has come to its end it has applied what the file reader returns.
FileReaderAgrees ==
  LET file == ReadPipeCommands(input)
  IN  transport = "pipe" /\ file.ok /\ cut = {} =>
        /\ outcome # "parse error"
        /\ source = <<>> =>
             \A i \in DOMAIN input : \E c \in queue \cup Done :
               origin[c.id] = i /\ c.timestamp = file.timestamps[i]
=============================================================================
