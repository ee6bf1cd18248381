--------------------------- MODULE EventSimulation ---------------------------
(***************************************************************************)
(* What a dispatcher promises its users, without clock steps, heap, drained *)
(* vector or loops: simulated time only moves forward; each time it is set, *)
(* the accepted commands that are due are executed one after the other, in  *)
(* a fixed order; and only when none is left may time be set again.  A      *)
(* panic of the sink ends the dispatch early: it loses the commands that    *)
(* were due, or, when it comes before the first of them was taken, none.    *)
(***************************************************************************)
EXTENDS Scheduler, Sequences

VARIABLES
  time,         (* the simulated time *)
  pending,      (* commands accepted and not yet executed *)
  done,         (* the executions, each with the time it was made at *)
  dropped,      (* commands lost to a panic of the sink *)
  dispatching,  (* due commands are being executed *)
  nextId        (* number of the next command to be accepted *)

vars == <<time, pending, done, dropped, dispatching, nextId>>

Init ==
  /\ time \in Time
  /\ pending = {}
  /\ done = <<>>
  /\ dropped = {}
  /\ ~dispatching
  /\ nextId = 1

\* The order of executions: by timestamp, ties by descending payload.
Precedes(a, b) ==
  \/ a.timestamp < b.timestamp
  \/ a.timestamp = b.timestamp /\ a.command > b.command

Due == {c \in pending : c.timestamp <= time}

Accept(t, p) ==
  /\ ~dispatching
  /\ pending' = pending \cup
       {[timestamp |-> t, command |-> p, id |-> nextId, accepted |-> time]}
  /\ nextId' = nextId + 1
  /\ UNCHANGED <<time, done, dropped, dispatching>>

SetTime(t) ==
  /\ ~dispatching
  /\ t >= time
  /\ time' = t
  /\ dispatching' = TRUE
  /\ UNCHANGED <<pending, done, dropped, nextId>>

Execute(c) ==
  /\ dispatching
  /\ \A d \in Due : ~Precedes(d, c)
  /\ done' = Append(done, [cmd |-> c, at |-> time])
  /\ pending' = pending \ {c}
  /\ UNCHANGED <<time, dropped, dispatching, nextId>>

Finish ==
  /\ dispatching
  /\ Due = {}
  /\ dispatching' = FALSE
  /\ UNCHANGED <<time, pending, done, dropped, nextId>>

\* The sink panicked, having been handed none or all of the due commands.
Abort ==
  /\ dispatching
  /\ \E gone \in {{}, Due} :
       /\ pending' = pending \ gone
       /\ dropped' = dropped \cup gone
  /\ dispatching' = FALSE
  /\ UNCHANGED <<time, done, nextId>>

Next ==
  \/ \E t \in Time, p \in Payload : Accept(t, p)
  \/ \E t \in Time : SetTime(t)
  \/ \E c \in Due : Execute(c)
  \/ Finish
  \/ Abort

Spec == Init /\ [][Next]_vars
=============================================================================
