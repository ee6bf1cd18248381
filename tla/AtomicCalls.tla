---------------------------- MODULE AtomicCalls ----------------------------
(***************************************************************************)
(* The dispatcher with one history variable more: the last call that moves *)
(* the clock, as it began.  When such a call is over, and the sink has not *)
(* panicked, clock, heap and executions are what DispatchCalls computes in *)
(* one step.                                                               *)
(***************************************************************************)
EXTENDS Dispatcher, DispatchCalls

VARIABLE call  (* history: the call in progress or just over, or NoCall *)

NoCall == [times |-> {}, now |-> NoTime, queue |-> {}, executed |-> {}]

CallSpecVars == <<vars, call>>

CallInit == Init /\ call = NoCall

\* The clock values that the call beginning with this step will dispatch at.
TimesOfCall ==
  IF pc' = "tick" THEN StepTimes(current, tickRate, ticksLeft')
                  ELSE {current'}

SinkPanics == PublishPanics \/ ExecutePanics

CallNext ==
  /\ Next
  /\ call' = CASE pc = "idle" /\ pc' = "idle" -> NoCall
               [] pc = "idle" /\ pc' # "idle" ->
                    [times |-> TimesOfCall, now |-> current,
                     queue |-> queue, executed |-> Range(executed)]
               [] pc # "idle" -> IF SinkPanics THEN NoCall ELSE call

CallSpec == CallInit /\ [][CallNext]_CallSpecVars

\* A call behaves as one step, even one that the clock cut short: the loops of
\* run_for_ticks, drain_ready and publish_and_dispatch together execute each
\* command at the first dispatch that is due for it, and leave the clock and
\* the heap as the last dispatch had them.
CallIsOneStep ==
  pc = "idle" /\ call # NoCall =>
    /\ current = ClockAfter(call.now, call.times)
    /\ queue = QueueAfter(call.queue, call.times)
    /\ Range(executed) =
         call.executed \cup Executions(call.queue, call.times)
=============================================================================
