----------------------------- MODULE Dispatcher -----------------------------
(***************************************************************************)
(* Dispatcher (dispatcher.rs): one owner calls its methods, one at a time. *)
(* A call that moves the clock is not one step: the clock moves, the sink  *)
(* is told the time, the heap is drained command by command into a vector, *)
(* the vector is executed command by command, and run_for_ticks does this  *)
(* again and again.  Two things can cut a call short.  The clock panics    *)
(* when it would overflow, and the sink, foreign code, may panic in        *)
(* publish_time or in execute (scale-time in the demo overflows, println!  *)
(* fails on a closed stdout).  Unwinding leaves the dispatcher in whatever *)
(* state it had, and an owner behind a tokio Mutex, which is not poisoned, *)
(* goes on calling it.                                                     *)
(***************************************************************************)
EXTENDS Scheduler, Sequences, FiniteSets, Functions

CONSTANTS
  StartTimes,   (* initial clock values *)
  MaxCommands,  (* bound on the enqueue calls *)
  MaxRun        (* bound on the argument of run_for_ticks *)

ASSUME DispatcherAssumption ==
  /\ StartTimes \subseteq Time
  /\ MaxCommands \in Nat
  /\ MaxRun \in Nat

VARIABLES
  current,    (* clock.current *)
  tickRate,   (* tick_rate *)
  queue,      (* scheduler.queue *)
  pc,         (* where the call in progress is; "idle" between calls *)
  ticksLeft,  (* iterations run_for_ticks has still to make *)
  ready,      (* the vector drain_ready returns *)
  published,  (* history: the last time the sink was told, or NoTime *)
  executed,   (* history: what the sink executed, with the time it knew *)
  lost,       (* history: drained commands a panic of the sink threw away *)
  nextId,     (* history: number of the next enqueue call *)
  settled     (* history: the last dispatch emptied the heap of due commands *)

vars == <<current, tickRate, queue, pc, ticksLeft, ready,
          published, executed, lost, nextId, settled>>

NoTime == -1

Execution == [cmd : ScheduledCommand, at : Time \cup {NoTime}]

Init ==
  /\ current \in StartTimes
  /\ tickRate \in Rate
  /\ queue = {}
  /\ pc = "idle"
  /\ ticksLeft = 0
  /\ ready = <<>>
  /\ published = NoTime
  /\ executed = <<>>
  /\ lost = {}
  /\ nextId = 1
  /\ settled = TRUE

-----------------------------------------------------------------------------
(* The owner's calls *)

\* enqueue, and enqueue_from_pipe on a line that parses.  Any timestamp is
\* taken, one in the past too.
Enqueue(t, p) ==
  /\ pc = "idle"
  /\ nextId <= MaxCommands
  /\ queue' = queue \cup
       {[timestamp |-> t, command |-> p, id |-> nextId, accepted |-> current]}
  /\ nextId' = nextId + 1
  /\ UNCHANGED <<current, tickRate, pc, ticksLeft, ready,
                 published, executed, lost, settled>>

SetTickRateUnchecked(r) ==
  /\ pc = "idle"
  /\ tickRate' = r
  /\ UNCHANGED <<current, queue, pc, ticksLeft, ready,
                 published, executed, lost, nextId, settled>>

\* set_tick_rate: zero panics before anything is written.
SetTickRate(r) ==
  /\ pc = "idle"
  /\ r > 0
  /\ tickRate' = r
  /\ UNCHANGED <<current, queue, pc, ticksLeft, ready,
                 published, executed, lost, nextId, settled>>

\* The clock has moved to t; publish_and_dispatch comes next.
ClockMoves(t) ==
  /\ current' = t
  /\ pc' = "publish"
  /\ settled' = FALSE
  /\ UNCHANGED <<tickRate, queue, ready, published, executed, lost, nextId>>

\* step(delta); tick() is step(tickRate).  An overflow panics before anything
\* is written.
Step(delta) ==
  /\ pc = "idle"
  /\ ~StepOverflows(current, delta)
  /\ ClockMoves(current + delta)
  /\ UNCHANGED ticksLeft

AdvanceTo(target) ==
  /\ pc = "idle"
  /\ ClockMoves(Forward(current, target))
  /\ UNCHANGED ticksLeft

RunForTicks(n) ==
  /\ pc = "idle"
  /\ n > 0
  /\ pc' = "tick"
  /\ ticksLeft' = n
  /\ UNCHANGED <<current, tickRate, queue, ready,
                 published, executed, lost, nextId, settled>>

-----------------------------------------------------------------------------
(* Inside a call *)

\* The call is over, by returning or by unwinding; its locals are gone.
CallEnds ==
  /\ pc' = "idle"
  /\ ticksLeft' = 0
  /\ ready' = <<>>

\* One iteration of run_for_ticks.
LoopTick ==
  /\ pc = "tick"
  /\ ~StepOverflows(current, tickRate)
  /\ ClockMoves(current + tickRate)
  /\ ticksLeft' = ticksLeft - 1

\* The ticks already made stand; the others are given up.
LoopTickOverflows ==
  /\ pc = "tick"
  /\ StepOverflows(current, tickRate)
  /\ CallEnds
  /\ UNCHANGED <<current, tickRate, queue,
                 published, executed, lost, nextId, settled>>

Publish ==
  /\ pc = "publish"
  /\ published' = current
  /\ pc' = "drain"
  /\ UNCHANGED <<current, tickRate, queue, ticksLeft, ready,
                 executed, lost, nextId, settled>>

\* publish_time panics: nothing was drained, due commands stay in the heap.
\* The sink may or may not have noted the time before it panicked.
PublishPanics ==
  /\ pc = "publish"
  /\ published' \in {published, current}
  /\ CallEnds
  /\ UNCHANGED <<current, tickRate, queue, executed, lost, nextId, settled>>

DrainPeeks ==
  /\ pc = "drain"
  /\ \E c \in ReadyTops(queue, current) : ready' = Append(ready, c)
  /\ pc' = "execute"
  /\ settled' = TRUE
  /\ UNCHANGED <<current, tickRate, queue, ticksLeft,
                 published, executed, lost, nextId>>

\* drain_ready: one turn of its loop.
DrainPop ==
  /\ pc = "drain"
  /\ \E c \in ReadyTops(queue, current) :
       /\ queue' = queue \ {c}
       /\ ready' = Append(ready, c)
  /\ UNCHANGED <<current, tickRate, pc, ticksLeft,
                 published, executed, lost, nextId, settled>>

\* drain_ready returns when the top of the heap is not due.
DrainReturns ==
  /\ pc = "drain"
  /\ ReadyTops(queue, current) = {}
  /\ pc' = "execute"
  /\ settled' = TRUE
  /\ UNCHANGED <<current, tickRate, queue, ticksLeft, ready,
                 published, executed, lost, nextId>>

ExecuteFromTheBack ==
  /\ pc = "execute"
  /\ ready # <<>>
  /\ executed' = Append(executed, [cmd |-> ready[Len(ready)], at |-> published])
  /\ ready' = SubSeq(ready, 1, Len(ready) - 1)
  /\ UNCHANGED <<current, tickRate, queue, pc, ticksLeft,
                 published, lost, nextId, settled>>

\* One turn of the loop over the drained vector.
Execute ==
  /\ pc = "execute"
  /\ ready # <<>>
  /\ executed' = Append(executed, [cmd |-> Head(ready), at |-> published])
  /\ ready' = Tail(ready)
  /\ UNCHANGED <<current, tickRate, queue, pc, ticksLeft,
                 published, lost, nextId, settled>>

\* execute panics: this command and every drained one behind it are gone.
ExecutePanics ==
  /\ pc = "execute"
  /\ ready # <<>>
  /\ lost' = lost \cup Range(ready)
  /\ CallEnds
  /\ UNCHANGED <<current, tickRate, queue,
                 published, executed, nextId, settled>>

DispatchEndsCall ==
  /\ pc = "execute"
  /\ ready = <<>>
  /\ pc' = "idle"
  /\ UNCHANGED <<current, tickRate, queue, ticksLeft, ready,
                 published, executed, lost, nextId, settled>>

\* The dispatch is over: back to run_for_ticks' loop, or to the owner.
DispatchEnds ==
  /\ pc = "execute"
  /\ ready = <<>>
  /\ pc' = IF ticksLeft > 0 THEN "tick" ELSE "idle"
  /\ UNCHANGED <<current, tickRate, queue, ticksLeft, ready,
                 published, executed, lost, nextId, settled>>

Next ==
  \/ \E t \in Time, p \in Payload : Enqueue(t, p)
  \/ \E r \in 0 .. MaxTime : SetTickRate(r)
  \/ \E delta \in Time : Step(delta)
  \/ \E target \in Time : AdvanceTo(target)
  \/ \E n \in 0 .. MaxRun : RunForTicks(n)
  \/ LoopTick
  \/ LoopTickOverflows
  \/ Publish
  \/ PublishPanics
  \/ DrainPop
  \/ DrainReturns
  \/ Execute
  \/ ExecutePanics
  \/ DispatchEnds

Spec == Init /\ [][Next]_vars

-----------------------------------------------------------------------------
(* Properties *)

Executed(i) == executed[i].cmd

\* Every variable has its type; in particular the tick rate is never zero
\* (the assertions of new_with_tick_rate and set_tick_rate).
TypeOK ==
  /\ current \in Time
  /\ tickRate \in Rate
  /\ queue \subseteq ScheduledCommand
  /\ pc \in {"idle", "tick", "publish", "drain", "execute"}
  /\ ticksLeft \in Nat
  /\ ready \in Seq(ScheduledCommand)
  /\ published \in Time \cup {NoTime}
  /\ executed \in Seq(Execution)
  /\ lost \subseteq ScheduledCommand
  /\ nextId \in Nat \ {0}
  /\ settled \in BOOLEAN

\* Every accepted command is in exactly one place: still in the heap, in the
\* drained vector, executed once, or lost to a panic of the sink.  Draining
\* and executing in two loops neither drops nor repeats a command, whatever
\* cut the call short.
ExactlyOnce ==
  \A id \in 1 .. nextId - 1 :
    LET inQueue == {c \in queue : c.id = id}
        inReady == {i \in DOMAIN ready : ready[i].id = id}
        inDone  == {i \in DOMAIN executed : Executed(i).id = id}
        inLost  == {c \in lost : c.id = id}
    IN  Cardinality(inQueue) + Cardinality(inReady)
          + Cardinality(inDone) + Cardinality(inLost) = 1

\* The sink knows a time at or after a command's timestamp when it executes
\* the command: publish_and_dispatch tells the time before it drains.
NeverEarly ==
  \A i \in DOMAIN executed : Executed(i).timestamp <= executed[i].at

\* Executions follow the timestamps over the whole life of the dispatcher,
\* equal timestamps the payloads from the greatest down.  The one exception
\* is a command that was accepted when the other's dispatch had already set
\* the clock.
InOrderUnlessLate ==
  \A i, j \in DOMAIN executed :
    LET a == Executed(i)
        b == Executed(j)
    IN  i < j /\ (\/ b.timestamp < a.timestamp
                  \/ b.timestamp = a.timestamp /\ b.command > a.command)
        => b.accepted >= executed[i].at

\* Once a dispatch has drained the heap, and until the clock moves again, a
\* command that is due and waiting was accepted at the present time: no
\* dispatch has passed one over, equal timestamps included.
DueOnlyIfLate ==
  settled =>
    \A c \in queue : c.timestamp <= current => c.accepted = current

\* Neither the clock nor the time the sink is told ever goes back, whatever
\* targets advance_to is given.
TimeNeverGoesBack ==
  [][current' >= current /\ published' >= published]_vars

-----------------------------------------------------------------------------
(* The dispatcher keeps its promise *)

Promise == INSTANCE EventSimulation WITH
  time        <- current,
  pending     <- queue \cup Range(ready),
  done        <- executed,
  dropped     <- lost,
  dispatching <- pc \in {"publish", "drain", "execute"}

\* The calls of the dispatcher, with their clock step, publication, drained
\* vector and loops, implement the promise: draining first and executing
\* afterwards shows no difference to executing due commands one by one.
KeepsPromise == Promise!Spec
=============================================================================
