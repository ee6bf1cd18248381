----------------------------- MODULE Scheduler -----------------------------
(***************************************************************************)
(* The simulated clock (clock.rs) and the command queue (scheduler.rs) as  *)
(* operators: what one call computes.  The modules that own a clock and a  *)
(* queue keep them in variables and apply these operators.                 *)
(*                                                                         *)
(* A timestamp is a u64; MaxTime stands for u64::MAX.  A payload is a      *)
(* String; only the order of String matters to the scheduler, so a payload *)
(* is a number, its rank in that order.  `id' and `accepted' are history:  *)
(* the number of the enqueue call and the clock it was made at.  Two       *)
(* commands with equal timestamp and payload are equal for the program and *)
(* differ here only in their history.                                      *)
(***************************************************************************)
EXTENDS Integers

CONSTANTS
  MaxTime,  (* the largest timestamp, u64::MAX in the code *)
  Payload   (* the payloads in use, ranked by String's order *)

ASSUME MaxTimeAssumption == MaxTime \in Nat \ {0}
ASSUME PayloadAssumption == Payload \subseteq Nat

Time == 0 .. MaxTime

Rate == 1 .. MaxTime

ScheduledCommand ==
  [timestamp : Time, command : Payload, id : Nat \ {0}, accepted : Time]

-----------------------------------------------------------------------------
(* SimClock *)

\* step(delta) panics, leaving the clock as it was, when checked_add fails.
StepOverflows(now, delta) == now + delta > MaxTime

ForwardUnguarded(now, target) == target

\* advance_to(target): a target in the past leaves the clock alone.  The
\* step it makes, target - now, cannot overflow.
Forward(now, target) == IF target > now THEN target ELSE now

-----------------------------------------------------------------------------
(* CommandScheduler: a BinaryHeap of ScheduledCommand *)

PopsBeforeUnreversed(a, b) ==
  \/ a.timestamp > b.timestamp
  \/ a.timestamp = b.timestamp /\ a.command > b.command

\* a > b in ScheduledCommand's Ord, so the max-heap pops a before b: the
\* timestamps are compared in reverse, ties by payload, not reversed.
PopsBefore(a, b) ==
  \/ a.timestamp < b.timestamp
  \/ a.timestamp = b.timestamp /\ a.command > b.command

\* What peek() and pop() may return: a command no other one pops before.
Tops(queue) == {c \in queue : \A d \in queue : ~PopsBefore(d, c)}

ReadyTopsStrict(queue, now) == {c \in Tops(queue) : c.timestamp < now}

ReadyTopsOneAhead(queue, now) == {c \in Tops(queue) : c.timestamp <= now + 1}

\* The condition of has_ready and of drain_ready's loop: the top of the heap
\* is due.
ReadyTops(queue, now) == {c \in Tops(queue) : c.timestamp <= now}
=============================================================================
