--------------------------- MODULE DispatchCalls ---------------------------
(***************************************************************************)
(* A whole call of the dispatcher as one step, for the modules in which    *)
(* other tasks cannot see the inside of a call because the dispatcher is   *)
(* locked or owned, and the sink does not panic.  AtomicCalls checks these *)
(* operators against the detailed Dispatcher.                              *)
(*                                                                         *)
(* A call is given by the clock values it dispatches at: one for step,     *)
(* tick and advance_to, n for run_for_ticks(n).                            *)
(***************************************************************************)
EXTENDS Scheduler, FiniteSetsExt

\* The clock panics on the way: the last of n steps of delta is out of range.
StepsOverflow(now, delta, n) == now + n * delta > MaxTime

\* The times at which n steps of delta dispatch; the step that would overflow
\* panics before it, and the steps behind that one are given up.
StepTimes(now, delta, n) == {now + k * delta : k \in 1 .. n} \cap Time

ClockAfter(now, times) == IF times = {} THEN now ELSE Max(times)

QueueAfterStrict(queue, times) ==
  {c \in queue : \A t \in times : c.timestamp >= t}

\* What is left in the heap: commands due at none of the times.
QueueAfter(queue, times) ==
  {c \in queue : \A t \in times : c.timestamp > t}

\* A command is executed at the first of the times that is not before its
\* timestamp.
Executions(queue, times) ==
  {[cmd |-> c, at |-> Min({t \in times : t >= c.timestamp})] :
     c \in queue \ QueueAfter(queue, times)}
=============================================================================
