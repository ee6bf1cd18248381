-------------------------- MODULE DispatcherProofs --------------------------
(***************************************************************************)
(* Proofs about the dispatcher, for every MaxTime, every set of payloads   *)
(* and calls without bound.  The clock, the drained vector and the heap    *)
(* are tied together by Inv, which every action preserves; the properties  *)
(* that Dispatcher states follow from it.  Three parts build on it: every  *)
(* command is in exactly one place (PlaceInv), the dispatcher implements   *)
(* EventSimulation (PromiseInv), and a whole call is the one step that     *)
(* DispatchCalls computes (CallInv).                                       *)
(***************************************************************************)
EXTENDS AtomicCalls, DispatchCallsProofs, SequenceTheorems

-----------------------------------------------------------------------------
(* The parts of the inductive invariant *)

\* run_for_ticks never counts below zero.
TypeInv == TypeOK /\ (pc = "tick" => ticksLeft > 0)

\* What is known at each point of a call: the vector lives from the drain to
\* the end of the dispatch only, and from the drain on the sink has been told
\* the present time.
CallStructure ==
  /\ pc \notin {"drain", "execute"} => ready = <<>>
  /\ pc \in {"drain", "execute"} => published = current
  /\ published <= current
  /\ pc = "execute" => settled

\* The vector holds due commands only, in the order the heap gave them up,
\* and nothing still in the heap goes before any of them.
VectorInOrder ==
  /\ \A i \in DOMAIN ready : ready[i].timestamp <= current
  /\ \A i, j \in DOMAIN ready : i < j => ~PopsBefore(ready[j], ready[i])
  /\ \A i \in DOMAIN ready, c \in queue : ~PopsBefore(c, ready[i])

\* What is executed was executed at a time not after the present, and a
\* command that goes before it and still waits came too late for it.
WaitingIsLate ==
  \A i \in DOMAIN executed :
    /\ executed[i].at <= current
    /\ \A j \in DOMAIN ready :
         PopsBefore(ready[j], Executed(i)) => ready[j].accepted >= executed[i].at
    /\ \A c \in queue :
         PopsBefore(c, Executed(i)) => c.accepted >= executed[i].at

Inv ==
  /\ TypeInv
  /\ IsFiniteSet(queue)
  /\ CallStructure
  /\ VectorInOrder
  /\ WaitingIsLate
  /\ NeverEarly
  /\ InOrderUnlessLate
  /\ DueOnlyIfLate

-----------------------------------------------------------------------------
(* The heap *)

\* The fields of a command as numbers.
LEMMA CommandFields ==
  \A c \in ScheduledCommand :
    /\ c.timestamp \in Int
    /\ c.command \in Int
    /\ c.accepted \in Int
<1> SUFFICES ASSUME NEW c \in ScheduledCommand
             PROVE  c.timestamp \in Int /\ c.command \in Int /\ c.accepted \in Int
  OBVIOUS
<1>1. c.timestamp \in Time /\ c.command \in Payload /\ c.accepted \in Time
  BY DEF ScheduledCommand
<1>2. \A p \in Payload : p \in Int
  BY PayloadAssumption
<1>3. \A t \in Time : t \in Int
  BY MaxTimeAssumption DEF Time
<1> QED  BY <1>1, <1>2, <1>3

\* PopsBefore is a strict order on commands.
LEMMA PopsBeforeIsStrict ==
  ASSUME NEW a \in ScheduledCommand, NEW b \in ScheduledCommand,
         NEW c \in ScheduledCommand
  PROVE  /\ ~PopsBefore(a, a)
         /\ PopsBefore(a, b) /\ PopsBefore(b, c) => PopsBefore(a, c)
BY CommandFields DEF PopsBefore

\* A heap that is not empty has a top: the set of commands that pop before a
\* command shrinks from one command to a better one, and cannot do so forever.
LEMMA TopExists ==
  ASSUME NEW Q \in SUBSET ScheduledCommand, IsFiniteSet(Q), Q # {}
  PROVE  Tops(Q) # {}
<1> DEFINE Before(c) == {d \in Q : PopsBefore(d, c)}
           T == {Before(c) : c \in Q}
<1>1. T \subseteq FiniteSubsetsOf(Q) /\ T # {}
  <2>1. \A c \in Q : Before(c) \in SUBSET Q
    OBVIOUS
  <2>2. \A c \in Q : IsFiniteSet(Before(c))
    BY <2>1, FS_Subset
  <2> QED  BY <2>1, <2>2 DEF FiniteSubsetsOf
<1>2. PICK x \in T : \A y \in T : <<y, x>> \notin StrictSubsetOrdering(Q)
  <2> HIDE DEF T
  <2> QED  BY <1>1, FS_StrictSubsetOrderingWellFounded, WFMin
<1>3. PICK c \in Q : x = Before(c)
  BY <1>2
<1>4. ASSUME NEW d \in Q, PopsBefore(d, c)
      PROVE  FALSE
  <2>1. Before(d) \subseteq Before(c)
    BY <1>4, PopsBeforeIsStrict
  <2>2. d \in Before(c) /\ d \notin Before(d)
    BY <1>4, PopsBeforeIsStrict
  <2>3. <<Before(d), Before(c)>> \in StrictSubsetOrdering(Q)
    BY <2>1, <2>2 DEF StrictSubsetOrdering
  <2> QED  BY <1>2, <1>3, <2>3
<1> QED  BY <1>4 DEF Tops

\* When the loop of drain_ready stops, nothing in the heap is due: the top
\* has the least timestamp.
LEMMA DrainedDry ==
  ASSUME NEW Q \in SUBSET ScheduledCommand, IsFiniteSet(Q), NEW now \in Time,
         ReadyTops(Q, now) = {}
  PROVE  \A c \in Q : c.timestamp > now
<1> SUFFICES ASSUME NEW c \in Q, c.timestamp <= now  PROVE FALSE
  BY CommandFields, MaxTimeAssumption DEF Time
<1>1. PICK t \in Tops(Q) : TRUE
  BY TopExists
<1>2. t.timestamp <= now
  BY <1>1, CommandFields, MaxTimeAssumption DEF Tops, PopsBefore, Time
<1> QED  BY <1>1, <1>2 DEF ReadyTops

-----------------------------------------------------------------------------
(* Types *)

LEMMA InitType == Init => TypeInv
BY MaxTimeAssumption, DispatcherAssumption DEF Init, TypeInv, TypeOK, Rate

LEMMA EnqueuedType ==
  ASSUME TypeOK, NEW t \in Time, NEW p \in Payload
  PROVE  [timestamp |-> t, command |-> p, id |-> nextId, accepted |-> current]
           \in ScheduledCommand
BY DEF TypeOK, ScheduledCommand

\* The clock moves by a step that does not overflow, or to a target.
LEMMA ClockType ==
  /\ \A now, delta \in Time :
       ~StepOverflows(now, delta) => now + delta \in Time /\ now + delta >= now
  /\ \A now, target \in Time :
       Forward(now, target) \in Time /\ Forward(now, target) >= now
  /\ Rate \subseteq Time
BY MaxTimeAssumption DEF StepOverflows, Forward, Time, Rate

LEMMA NextType == TypeInv /\ [Next]_vars => TypeInv'
<1> SUFFICES ASSUME TypeInv, [Next]_vars  PROVE TypeInv'
  OBVIOUS
<1> USE DEF TypeInv, TypeOK
<1>1. ASSUME NEW t \in Time, NEW p \in Payload, Enqueue(t, p)
      PROVE  TypeInv'
  <2>1. queue' \subseteq ScheduledCommand
    BY <1>1, EnqueuedType DEF Enqueue
  <2> QED  BY <1>1, <2>1 DEF Enqueue
<1>2. ASSUME NEW r \in 0 .. MaxTime, SetTickRate(r)
      PROVE  TypeInv'
  BY <1>2, MaxTimeAssumption DEF SetTickRate, Rate
<1>3. ASSUME NEW delta \in Time, Step(delta)
      PROVE  TypeInv'
  <2>1. current' \in Time
    BY <1>3, ClockType DEF Step, ClockMoves
  <2> QED  BY <1>3, <2>1 DEF Step, ClockMoves
<1>4. ASSUME NEW target \in Time, AdvanceTo(target)
      PROVE  TypeInv'
  <2>1. current' \in Time
    BY <1>4, ClockType DEF AdvanceTo, ClockMoves
  <2> QED  BY <1>4, <2>1 DEF AdvanceTo, ClockMoves
<1>5. ASSUME NEW n \in 0 .. MaxRun, RunForTicks(n)
      PROVE  TypeInv'
  BY <1>5, DispatcherAssumption DEF RunForTicks
<1>6. CASE LoopTick
  <2>1. current' \in Time
    BY <1>6, ClockType DEF LoopTick, ClockMoves
  <2>2. ticksLeft' \in Nat
    BY <1>6 DEF LoopTick
  <2> QED  BY <1>6, <2>1, <2>2 DEF LoopTick, ClockMoves
<1>7. CASE LoopTickOverflows
  BY <1>7 DEF LoopTickOverflows, CallEnds
<1>8. CASE Publish
  BY <1>8 DEF Publish
<1>9. CASE PublishPanics
  BY <1>9 DEF PublishPanics, CallEnds
<1>10. CASE DrainPop
  <2>1. PICK c \in ReadyTops(queue, current) :
               queue' = queue \ {c} /\ ready' = Append(ready, c)
    BY <1>10 DEF DrainPop
  <2>2. c \in ScheduledCommand
    BY <2>1 DEF ReadyTops, Tops
  <2>3. ready' \in Seq(ScheduledCommand)
    BY <2>1, <2>2, AppendProperties
  <2>4. queue' \subseteq ScheduledCommand
    BY <2>1
  <2> QED  BY <1>10, <2>3, <2>4 DEF DrainPop
<1>11. CASE DrainReturns
  BY <1>11 DEF DrainReturns
<1>12. CASE Execute
  <2>1. Head(ready) \in ScheduledCommand /\ ready' \in Seq(ScheduledCommand)
    BY <1>12, HeadTailProperties DEF Execute
  <2>2. [cmd |-> Head(ready), at |-> published] \in Execution
    BY <2>1 DEF Execution
  <2>3. executed' \in Seq(Execution)
    BY <1>12, <2>2, AppendProperties DEF Execute
  <2> QED  BY <1>12, <2>1, <2>3 DEF Execute
<1>13. CASE ExecutePanics
  <2>1. Range(ready) \subseteq ScheduledCommand
    BY LenProperties DEF Range
  <2> QED  BY <1>13, <2>1 DEF ExecutePanics, CallEnds
<1>14. CASE DispatchEnds
  BY <1>14 DEF DispatchEnds
<1>15. CASE UNCHANGED vars
  BY <1>15 DEF vars
<1> QED
  BY <1>1, <1>2, <1>3, <1>4, <1>5, <1>6, <1>7, <1>8, <1>9, <1>10, <1>11,
     <1>12, <1>13, <1>14, <1>15 DEF Next

\* Whatever calls are made and however they are cut short, every variable of
\* the dispatcher has its type; the clock never leaves u64 and the tick rate
\* is never zero.
THEOREM TypeCorrect == Spec => []TypeOK
<1>1. TypeInv => TypeOK
  BY DEF TypeInv
<1> QED  BY <1>1, InitType, NextType, PTL DEF Spec

-----------------------------------------------------------------------------
(* The inductive invariant *)

LEMMA InitInv == Init => Inv
<1> SUFFICES ASSUME Init  PROVE Inv
  OBVIOUS
<1>1. TypeInv
  BY InitType
<1>2. IsFiniteSet(queue)
  BY FS_EmptySet DEF Init
<1>3. CallStructure
  BY <1>1, MaxTimeAssumption, DispatcherAssumption
     DEF Init, CallStructure, NoTime, Time, TypeInv, TypeOK
<1>4. /\ VectorInOrder /\ WaitingIsLate /\ NeverEarly
      /\ InOrderUnlessLate /\ DueOnlyIfLate
  BY DEF Init, VectorInOrder, WaitingIsLate, NeverEarly, InOrderUnlessLate,
         DueOnlyIfLate
<1> QED  BY <1>1, <1>2, <1>3, <1>4 DEF Inv

\* The numbers of an execution.
LEMMA ExecutedFields ==
  ASSUME TypeOK
  PROVE  \A i \in DOMAIN executed :
           executed[i].at \in Int /\ Executed(i) \in ScheduledCommand
<1> SUFFICES ASSUME NEW i \in DOMAIN executed
             PROVE  executed[i].at \in Int /\ Executed(i) \in ScheduledCommand
  OBVIOUS
<1>1. executed[i] \in Execution
  BY LenProperties DEF TypeOK
<1>2. executed[i].at \in Time \cup {NoTime} /\ Executed(i) \in ScheduledCommand
  BY <1>1 DEF Execution, Executed
<1> QED  BY <1>2, MaxTimeAssumption DEF Time, NoTime

LEMMA ReadyFields ==
  ASSUME TypeOK
  PROVE  /\ DOMAIN ready = 1 .. Len(ready)
         /\ \A i \in DOMAIN ready : ready[i] \in ScheduledCommand
BY LenProperties DEF TypeOK

LEMMA TimeIsInt == \A t \in Time : t \in Int
BY MaxTimeAssumption DEF Time

\* What a step does to the history when neither the vector nor the heap
\* gains a command and the clock does not go back.
LEMMA Quiet ==
  ASSUME Inv, TypeOK', current' >= current, queue' \subseteq queue,
         ready' \in {ready, <<>>}, executed' = executed
  PROVE  VectorInOrder' /\ WaitingIsLate' /\ NeverEarly' /\ InOrderUnlessLate'
<1> USE DEF Inv, TypeInv
<1>1. current \in Int /\ current' \in Int
  BY TimeIsInt DEF TypeOK
<1>2. VectorInOrder'
  BY <1>1, ReadyFields, CommandFields DEF VectorInOrder
<1>3. WaitingIsLate'
  BY <1>1, ExecutedFields DEF WaitingIsLate, Executed
<1>4. NeverEarly' /\ InOrderUnlessLate'
  BY DEF NeverEarly, InOrderUnlessLate, Executed
<1> QED  BY <1>2, <1>3, <1>4

\* The clock moves: nothing waiting gets late by it, for nothing is executed.
LEMMA ClockMovesInv ==
  ASSUME Inv, TypeInv', NEW t \in Time, t >= current, ClockMoves(t),
         pc \in {"idle", "tick"}
  PROVE  Inv'
<1> USE DEF Inv, TypeInv, ClockMoves
<1>1. current \in Int /\ t \in Int
  BY TimeIsInt DEF TypeOK
<1>2. VectorInOrder' /\ WaitingIsLate' /\ NeverEarly' /\ InOrderUnlessLate'
  BY <1>1, Quiet
<1>3. CallStructure'
  <2>1. published \in Int
    BY TimeIsInt DEF TypeOK, NoTime
  <2> QED  BY <1>1, <2>1 DEF CallStructure
<1>4. DueOnlyIfLate'
  BY DEF DueOnlyIfLate
<1> QED  BY <1>2, <1>3, <1>4

\* Anything that only ends a call.
LEMMA CallEndsInv ==
  ASSUME Inv, TypeInv', CallEnds, published' \in {published, current},
         UNCHANGED <<current, queue, executed, settled>>
  PROVE  Inv'
<1> USE DEF Inv, TypeInv, CallEnds
<1>1. current \in Int /\ published \in Int
  BY TimeIsInt DEF TypeOK, NoTime
<1>2. VectorInOrder' /\ WaitingIsLate' /\ NeverEarly' /\ InOrderUnlessLate'
  BY <1>1, Quiet
<1>3. CallStructure'
  BY <1>1 DEF CallStructure
<1>4. DueOnlyIfLate'
  BY DEF DueOnlyIfLate
<1> QED  BY <1>2, <1>3, <1>4

LEMMA EnqueueInv ==
  ASSUME Inv, TypeInv', NEW t \in Time, NEW p \in Payload, Enqueue(t, p)
  PROVE  Inv'
<1> DEFINE new == [timestamp |-> t, command |-> p, id |-> nextId,
                   accepted |-> current]
<1> USE DEF Inv, TypeInv, Enqueue
<1>1. new \in ScheduledCommand /\ new.accepted = current
  BY EnqueuedType
<1>2. queue' = queue \cup {new}
  OBVIOUS
<1> HIDE DEF new
<1>3. IsFiniteSet(queue')
  BY <1>2, FS_AddElement
<1>4. CallStructure'
  BY DEF CallStructure
<1>5. VectorInOrder'
  BY DEF VectorInOrder, CallStructure
<1>6. WaitingIsLate'
  <2> SUFFICES ASSUME NEW i \in DOMAIN executed, NEW c \in queue',
                      PopsBefore(c, Executed(i))
               PROVE  c.accepted >= executed[i].at
    BY DEF WaitingIsLate, Executed
  <2> QED  BY <1>1, <1>2, ExecutedFields, TimeIsInt DEF WaitingIsLate
<1>7. NeverEarly' /\ InOrderUnlessLate'
  BY DEF NeverEarly, InOrderUnlessLate, Executed
<1>8. DueOnlyIfLate'
  BY <1>1, <1>2 DEF DueOnlyIfLate
<1> QED  BY <1>3, <1>4, <1>5, <1>6, <1>7, <1>8

\* The command that is popped joins the vector behind those it does not go
\* before, and those left in the heap do not go before it.
LEMMA DrainPopInv ==
  ASSUME Inv, TypeInv', DrainPop
  PROVE  Inv'
<1> USE DEF Inv, TypeInv
<1>1. PICK c \in ReadyTops(queue, current) :
             queue' = queue \ {c} /\ ready' = Append(ready, c)
  BY DEF DrainPop
<1>2. /\ c \in queue /\ c \in ScheduledCommand /\ c.timestamp <= current
      /\ \A d \in queue : ~PopsBefore(d, c)
  BY <1>1 DEF ReadyTops, Tops, TypeOK
<1>3. /\ DOMAIN ready' = 1 .. Len(ready) + 1
      /\ \A i \in DOMAIN ready' :
           ready'[i] = IF i \in DOMAIN ready THEN ready[i] ELSE c
  BY <1>1, <1>2, AppendProperties, LenProperties DEF TypeOK
<1>4. /\ DOMAIN ready = 1 .. Len(ready) /\ Len(ready) \in Nat
      /\ \A i \in DOMAIN ready' \ DOMAIN ready : i = Len(ready) + 1
  BY <1>3, LenProperties DEF TypeOK
<1>5. UNCHANGED <<current, pc, published, executed, settled>> /\ pc = "drain"
  BY DEF DrainPop
<1>6. IsFiniteSet(queue')
  BY <1>1, FS_RemoveElement
<1>7. CallStructure'
  BY <1>5 DEF CallStructure
<1>8. VectorInOrder'
  <2>1. \A i \in DOMAIN ready' : ready'[i].timestamp <= current'
    BY <1>2, <1>3, <1>5 DEF VectorInOrder
  <2>2. ASSUME NEW i \in DOMAIN ready', NEW j \in DOMAIN ready', i < j
        PROVE  ~PopsBefore(ready'[j], ready'[i])
    <3>1. i \in DOMAIN ready
      BY <1>3, <1>4, <2>2
    <3> QED  BY <1>2, <1>3, <2>2, <3>1 DEF VectorInOrder
  <2>3. ASSUME NEW i \in DOMAIN ready', NEW d \in queue'
        PROVE  ~PopsBefore(d, ready'[i])
    BY <1>1, <1>2, <1>3 DEF VectorInOrder
  <2> QED  BY <2>1, <2>2, <2>3 DEF VectorInOrder
<1>9. WaitingIsLate'
  <2> SUFFICES ASSUME NEW i \in DOMAIN executed
               PROVE  /\ executed[i].at <= current
                      /\ \A j \in DOMAIN ready' :
                           PopsBefore(ready'[j], Executed(i))
                             => ready'[j].accepted >= executed[i].at
                      /\ \A d \in queue' :
                           PopsBefore(d, Executed(i))
                             => d.accepted >= executed[i].at
    BY <1>5 DEF WaitingIsLate, Executed
  <2> QED  BY <1>1, <1>2, <1>3 DEF WaitingIsLate
<1>10. NeverEarly' /\ InOrderUnlessLate' /\ DueOnlyIfLate'
  BY <1>1, <1>5 DEF NeverEarly, InOrderUnlessLate, DueOnlyIfLate, Executed
<1> QED  BY <1>6, <1>7, <1>8, <1>9, <1>10

\* The head of the vector is executed: it was not passed by anything behind
\* it or in the heap, and what passed it before came too late.
LEMMA ExecuteInv ==
  ASSUME Inv, TypeInv', Execute
  PROVE  Inv'
<1> USE DEF Inv, TypeInv, Execute
<1> DEFINE h == ready[1]
           n == Len(executed) + 1
<1>1. /\ h = Head(ready) /\ 1 \in DOMAIN ready /\ h \in ScheduledCommand
      /\ Len(ready) \in Nat /\ DOMAIN ready = 1 .. Len(ready)
  BY ReadyFields, HeadTailProperties, LenProperties DEF TypeOK
<1>2. /\ \A i \in DOMAIN ready' : i + 1 \in DOMAIN ready /\ ready'[i] = ready[i + 1]
      /\ \A i \in DOMAIN ready' : i \in Nat \ {0}
  BY <1>1, HeadTailProperties, LenProperties DEF TypeOK
<1>3. [cmd |-> Head(ready), at |-> published] \in Execution
  BY <1>1 DEF Execution, TypeOK
<1>4. /\ DOMAIN executed = 1 .. n - 1 /\ DOMAIN executed' = 1 .. n /\ n \in Nat
      /\ \A i \in 1 .. n - 1 : executed'[i] = executed[i]
      /\ executed'[n] = [cmd |-> h, at |-> published]
  BY <1>1, <1>3, AppendProperties, LenProperties DEF TypeOK
<1>5. /\ current \in Int /\ published = current
      /\ UNCHANGED <<current, pc, published, queue, settled>>
  BY TimeIsInt DEF CallStructure, TypeOK
<1> HIDE DEF h, n
<1>6. CallStructure'
  BY <1>5 DEF CallStructure
<1>7. VectorInOrder'
  BY <1>1, <1>2, <1>5 DEF VectorInOrder
<1>8. WaitingIsLate'
  <2> SUFFICES ASSUME NEW i \in 1 .. n
               PROVE  /\ executed'[i].at <= current
                      /\ \A j \in DOMAIN ready' :
                           PopsBefore(ready'[j], executed'[i].cmd)
                             => ready'[j].accepted >= executed'[i].at
                      /\ \A c \in queue :
                           PopsBefore(c, executed'[i].cmd)
                             => c.accepted >= executed'[i].at
    BY <1>4, <1>5 DEF WaitingIsLate, Executed
  <2>1. CASE i \in 1 .. n - 1
    BY <1>2, <1>4, <2>1 DEF WaitingIsLate, Executed
  <2>2. CASE i = n
    BY <1>1, <1>2, <1>4, <1>5, <2>2 DEF VectorInOrder
  <2> QED  BY <1>4, <2>1, <2>2
<1>9. NeverEarly'
  BY <1>1, <1>4, <1>5 DEF NeverEarly, VectorInOrder, Executed
<1>10. InOrderUnlessLate'
  <2> SUFFICES ASSUME NEW i \in 1 .. n, NEW j \in 1 .. n, i < j,
                      PopsBefore(executed'[j].cmd, executed'[i].cmd)
               PROVE  executed'[j].cmd.accepted >= executed'[i].at
    BY <1>4 DEF InOrderUnlessLate, Executed, PopsBefore
  <2>1. i \in 1 .. n - 1
    BY <1>4
  <2>2. CASE j \in 1 .. n - 1
    BY <1>4, <2>1, <2>2 DEF InOrderUnlessLate, Executed, PopsBefore
  <2>3. CASE j = n
    BY <1>1, <1>4, <2>1, <2>3 DEF WaitingIsLate, Executed
  <2> QED  BY <1>4, <2>2, <2>3
<1>11. DueOnlyIfLate'
  BY <1>5 DEF DueOnlyIfLate
<1> QED  BY <1>5, <1>6, <1>7, <1>8, <1>9, <1>10, <1>11

LEMMA NextInv == Inv /\ [Next]_vars => Inv'
<1> SUFFICES ASSUME Inv, [Next]_vars  PROVE Inv'
  OBVIOUS
<1> USE DEF Inv
<1>0. TypeInv' /\ TypeOK
  BY NextType DEF TypeInv
<1>1. ASSUME NEW t \in Time, NEW p \in Payload, Enqueue(t, p)
      PROVE  Inv'
  BY <1>0, <1>1, EnqueueInv
<1>2. ASSUME NEW r \in 0 .. MaxTime, SetTickRate(r)
      PROVE  Inv'
  BY <1>0, <1>2 DEF SetTickRate, CallStructure, VectorInOrder, WaitingIsLate,
     NeverEarly, InOrderUnlessLate, DueOnlyIfLate, Executed
<1>3. ASSUME NEW delta \in Time, Step(delta)
      PROVE  Inv'
  <2>1. current + delta \in Time /\ current + delta >= current
    BY <1>0, <1>3, ClockType DEF Step, TypeOK
  <2>2. ClockMoves(current + delta) /\ pc = "idle"
    BY <1>3 DEF Step
  <2> QED  BY <1>0, <2>1, <2>2, ClockMovesInv
<1>4. ASSUME NEW target \in Time, AdvanceTo(target)
      PROVE  Inv'
  <2>1. Forward(current, target) \in Time /\ Forward(current, target) >= current
    BY <1>0, ClockType DEF TypeOK
  <2>2. ClockMoves(Forward(current, target)) /\ pc = "idle"
    BY <1>4 DEF AdvanceTo
  <2> QED  BY <1>0, <2>1, <2>2, ClockMovesInv
<1>5. ASSUME NEW n \in 0 .. MaxRun, RunForTicks(n)
      PROVE  Inv'
  BY <1>0, <1>5 DEF RunForTicks, CallStructure, VectorInOrder, WaitingIsLate,
     NeverEarly, InOrderUnlessLate, DueOnlyIfLate, Executed
<1>6. CASE LoopTick
  <2>1. current + tickRate \in Time /\ current + tickRate >= current
    BY <1>0, <1>6, ClockType DEF LoopTick, TypeOK
  <2>2. ClockMoves(current + tickRate) /\ pc = "tick"
    BY <1>6 DEF LoopTick
  <2> QED  BY <1>0, <2>1, <2>2, ClockMovesInv
<1>7. CASE LoopTickOverflows
  BY <1>0, <1>7, CallEndsInv DEF LoopTickOverflows
<1>8. CASE Publish
  BY <1>0, <1>8, TimeIsInt
     DEF Publish, TypeOK, CallStructure, VectorInOrder, WaitingIsLate,
         NeverEarly, InOrderUnlessLate, DueOnlyIfLate, Executed
<1>9. CASE PublishPanics
  BY <1>0, <1>9, CallEndsInv DEF PublishPanics
<1>10. CASE DrainPop
  BY <1>0, <1>10, DrainPopInv
<1>11. CASE DrainReturns
  <2>1. \A c \in queue : c.timestamp > current
    BY <1>0, <1>11, DrainedDry DEF DrainReturns, TypeOK
  <2>2. DueOnlyIfLate'
    BY <1>0, <1>11, <2>1, CommandFields, TimeIsInt
       DEF DrainReturns, DueOnlyIfLate, TypeOK
  <2> QED
    BY <1>0, <1>11, <2>2
       DEF DrainReturns, CallStructure, VectorInOrder, WaitingIsLate,
           NeverEarly, InOrderUnlessLate, Executed
<1>12. CASE Execute
  BY <1>0, <1>12, ExecuteInv
<1>13. CASE ExecutePanics
  BY <1>0, <1>13, CallEndsInv DEF ExecutePanics
<1>14. CASE DispatchEnds
  BY <1>0, <1>14
     DEF DispatchEnds, CallStructure, VectorInOrder, WaitingIsLate,
         NeverEarly, InOrderUnlessLate, DueOnlyIfLate, Executed
<1>15. CASE UNCHANGED vars
  BY <1>0, <1>15
     DEF vars, CallStructure, VectorInOrder, WaitingIsLate,
         NeverEarly, InOrderUnlessLate, DueOnlyIfLate, Executed
<1> QED
  BY <1>1, <1>2, <1>3, <1>4, <1>5, <1>6, <1>7, <1>8, <1>9, <1>10, <1>11,
     <1>12, <1>13, <1>14, <1>15 DEF Next

LEMMA InvHolds == Spec => []Inv
BY InitInv, NextInv, PTL DEF Spec

-----------------------------------------------------------------------------
(* The properties *)

\* No command is executed before the sink has been told a time at or after
\* the command's timestamp.
THEOREM NotEarly == Spec => []NeverEarly
<1>1. Inv => NeverEarly
  BY DEF Inv
<1> QED  BY <1>1, InvHolds, PTL

\* Executions are in the scheduler's order over any number of dispatches,
\* with late commands as the only exception.
THEOREM OrderKept == Spec => []InOrderUnlessLate
<1>1. Inv => InOrderUnlessLate
  BY DEF Inv
<1> QED  BY <1>1, InvHolds, PTL

\* A dispatch that drained the heap passed no due command over.
THEOREM NoneOverlooked == Spec => []DueOnlyIfLate
<1>1. Inv => DueOnlyIfLate
  BY DEF Inv
<1> QED  BY <1>1, InvHolds, PTL

\* No call moves the clock, or the time the sink knows, backwards.
THEOREM TimeIsMonotonic == Spec => TimeNeverGoesBack
<1>1. Inv /\ [Next]_vars => [current' >= current /\ published' >= published]_vars
  <2> SUFFICES ASSUME Inv, Next
               PROVE  current' >= current /\ published' >= published
    OBVIOUS
  <2> USE DEF Inv, TypeInv, TypeOK
  <2>1. /\ current \in Int /\ published \in Int /\ published <= current
    BY TimeIsInt DEF NoTime, CallStructure
  <2>2. ASSUME NEW delta \in Time, Step(delta)
        PROVE  current' >= current /\ published' = published
    BY <2>1, <2>2, ClockType DEF Step, ClockMoves
  <2>3. ASSUME NEW target \in Time, AdvanceTo(target)
        PROVE  current' >= current /\ published' = published
    BY <2>1, <2>3, ClockType DEF AdvanceTo, ClockMoves
  <2>4. CASE LoopTick
    BY <2>1, <2>4, ClockType DEF LoopTick, ClockMoves
  <2>5. CASE Publish \/ PublishPanics
    BY <2>1, <2>5 DEF Publish, PublishPanics
  <2>6. CASE \/ \E t \in Time, p \in Payload : Enqueue(t, p)
             \/ \E r \in 0 .. MaxTime : SetTickRate(r)
             \/ \E n \in 0 .. MaxRun : RunForTicks(n)
             \/ LoopTickOverflows \/ DrainPop \/ DrainReturns
             \/ Execute \/ ExecutePanics \/ DispatchEnds
    BY <2>1, <2>6
       DEF Enqueue, SetTickRate, RunForTicks, LoopTickOverflows, DrainPop,
           DrainReturns, Execute, ExecutePanics, DispatchEnds
  <2> QED  BY <2>1, <2>2, <2>3, <2>4, <2>5, <2>6 DEF Next
<1> QED  BY <1>1, InvHolds, PTL DEF Spec, TimeNeverGoesBack

-----------------------------------------------------------------------------
(***************************************************************************)
(* Every accepted command is in exactly one place.  ExactlyOnce counts;    *)
(* the induction is on the places themselves: a command that one action    *)
(* moves leaves the place where it was the only one with its number.       *)
(***************************************************************************)

\* Exactly one member of S, exactly one entry of the sequence s, has the
\* number id.
OnceIn(S, id) == \E c \in S : c.id = id /\ \A d \in S : d.id = id => d = c

NotIn(S, id) == \A c \in S : c.id # id

OnceAt(s, id) ==
  \E i \in DOMAIN s : s[i].id = id /\ \A j \in DOMAIN s : s[j].id = id => j = i

NotAt(s, id) == \A i \in DOMAIN s : s[i].id # id

OnceDone(id) ==
  \E i \in DOMAIN executed :
    /\ Executed(i).id = id
    /\ \A j \in DOMAIN executed : Executed(j).id = id => j = i

NotDone(id) == \A i \in DOMAIN executed : Executed(i).id # id

InOnePlace(id) ==
  \/ OnceIn(queue, id) /\ NotAt(ready, id) /\ NotDone(id) /\ NotIn(lost, id)
  \/ NotIn(queue, id) /\ OnceAt(ready, id) /\ NotDone(id) /\ NotIn(lost, id)
  \/ NotIn(queue, id) /\ NotAt(ready, id) /\ OnceDone(id) /\ NotIn(lost, id)
  \/ NotIn(queue, id) /\ NotAt(ready, id) /\ NotDone(id) /\ OnceIn(lost, id)

\* A number that was not given to a command yet.
InNoPlace(id) ==
  NotIn(queue, id) /\ NotAt(ready, id) /\ NotDone(id) /\ NotIn(lost, id)

Places ==
  \A id \in Nat \ {0} :
    IF id < nextId THEN InOnePlace(id) ELSE InNoPlace(id)

PlaceInv == Inv /\ Places

-----------------------------------------------------------------------------
(* Counting *)

LEMMA OneInSet ==
  ASSUME NEW S, NEW id
  PROVE  /\ OnceIn(S, id) => Cardinality({c \in S : c.id = id}) = 1
         /\ NotIn(S, id) => Cardinality({c \in S : c.id = id}) = 0
<1>1. ASSUME OnceIn(S, id)
      PROVE  Cardinality({c \in S : c.id = id}) = 1
  <2>1. PICK c \in S : c.id = id /\ \A d \in S : d.id = id => d = c
    BY <1>1 DEF OnceIn
  <2>2. {d \in S : d.id = id} = {c}
    BY <2>1
  <2> QED  BY <2>2, FS_Singleton
<1>2. ASSUME NotIn(S, id)
      PROVE  Cardinality({c \in S : c.id = id}) = 0
  <2>1. {c \in S : c.id = id} = {}
    BY <1>2 DEF NotIn
  <2> QED  BY <2>1, FS_EmptySet
<1> QED  BY <1>1, <1>2

LEMMA OneInVector ==
  ASSUME NEW s, NEW id
  PROVE  /\ OnceAt(s, id) => Cardinality({i \in DOMAIN s : s[i].id = id}) = 1
         /\ NotAt(s, id) => Cardinality({i \in DOMAIN s : s[i].id = id}) = 0
<1>1. ASSUME OnceAt(s, id)
      PROVE  Cardinality({i \in DOMAIN s : s[i].id = id}) = 1
  <2>1. PICK i \in DOMAIN s :
               s[i].id = id /\ \A j \in DOMAIN s : s[j].id = id => j = i
    BY <1>1 DEF OnceAt
  <2>2. {j \in DOMAIN s : s[j].id = id} = {i}
    BY <2>1
  <2> QED  BY <2>2, FS_Singleton
<1>2. ASSUME NotAt(s, id)
      PROVE  Cardinality({i \in DOMAIN s : s[i].id = id}) = 0
  <2>1. {i \in DOMAIN s : s[i].id = id} = {}
    BY <1>2 DEF NotAt
  <2> QED  BY <2>1, FS_EmptySet
<1> QED  BY <1>1, <1>2

LEMMA OneDone ==
  ASSUME NEW id
  PROVE  /\ OnceDone(id)
              => Cardinality({i \in DOMAIN executed : Executed(i).id = id}) = 1
         /\ NotDone(id)
              => Cardinality({i \in DOMAIN executed : Executed(i).id = id}) = 0
<1>1. ASSUME OnceDone(id)
      PROVE  Cardinality({i \in DOMAIN executed : Executed(i).id = id}) = 1
  <2>1. PICK i \in DOMAIN executed :
               /\ Executed(i).id = id
               /\ \A j \in DOMAIN executed : Executed(j).id = id => j = i
    BY <1>1 DEF OnceDone
  <2>2. {j \in DOMAIN executed : Executed(j).id = id} = {i}
    BY <2>1
  <2> QED  BY <2>2, FS_Singleton
<1>2. ASSUME NotDone(id)
      PROVE  Cardinality({i \in DOMAIN executed : Executed(i).id = id}) = 0
  <2>1. {i \in DOMAIN executed : Executed(i).id = id} = {}
    BY <1>2 DEF NotDone
  <2> QED  BY <2>1, FS_EmptySet
<1> QED  BY <1>1, <1>2

LEMMA PlacesCounted == PlaceInv => ExactlyOnce
<1> SUFFICES ASSUME PlaceInv, NEW id \in 1 .. nextId - 1
             PROVE  Cardinality({c \in queue : c.id = id})
                      + Cardinality({i \in DOMAIN ready : ready[i].id = id})
                      + Cardinality({i \in DOMAIN executed : Executed(i).id = id})
                      + Cardinality({c \in lost : c.id = id}) = 1
  BY DEF ExactlyOnce
<1>1. nextId \in Nat
  BY DEF PlaceInv, Inv, TypeInv, TypeOK
<1>2. id \in Nat \ {0} /\ id < nextId
  BY <1>1
<1>3. InOnePlace(id)
  BY <1>2 DEF PlaceInv, Places
<1> DEFINE inQueue == Cardinality({c \in queue : c.id = id})
           inReady == Cardinality({i \in DOMAIN ready : ready[i].id = id})
           inDone  == Cardinality({i \in DOMAIN executed : Executed(i).id = id})
           inLost  == Cardinality({c \in lost : c.id = id})
<1>4. /\ OnceIn(queue, id) => inQueue = 1
      /\ NotIn(queue, id) => inQueue = 0
      /\ OnceIn(lost, id) => inLost = 1
      /\ NotIn(lost, id) => inLost = 0
  BY OneInSet
<1>5. (OnceAt(ready, id) => inReady = 1) /\ (NotAt(ready, id) => inReady = 0)
  BY OneInVector
<1>6. (OnceDone(id) => inDone = 1) /\ (NotDone(id) => inDone = 0)
  BY OneDone
<1> HIDE DEF inQueue, inReady, inDone, inLost
<1>7. inQueue + inReady + inDone + inLost = 1
  BY <1>3, <1>4, <1>5, <1>6 DEF InOnePlace
<1> QED  BY <1>7 DEF inQueue, inReady, inDone, inLost

-----------------------------------------------------------------------------
(* The actions that move a command *)

\* The new command takes the first number that no command has.
LEMMA EnqueuePlaces ==
  ASSUME PlaceInv, NEW t \in Time, NEW p \in Payload, Enqueue(t, p)
  PROVE  Places'
<1> DEFINE new == [timestamp |-> t, command |-> p, id |-> nextId,
                   accepted |-> current]
<1>1. /\ queue' = queue \cup {new} /\ nextId' = nextId + 1
      /\ UNCHANGED <<ready, executed, lost>>
  BY DEF Enqueue
<1>2. new.id = nextId /\ nextId \in Nat \ {0}
  BY DEF PlaceInv, Inv, TypeInv, TypeOK
<1> HIDE DEF new
<1> SUFFICES ASSUME NEW id \in Nat \ {0}
             PROVE  IF id < nextId' THEN InOnePlace(id)' ELSE InNoPlace(id)'
  BY DEF Places
<1>3. IF id < nextId THEN InOnePlace(id) ELSE InNoPlace(id)
  BY DEF PlaceInv, Places
<1>4. CASE id = nextId
  BY <1>1, <1>2, <1>3, <1>4
     DEF InNoPlace, InOnePlace, OnceIn, NotIn, NotAt, NotDone, Executed
<1>5. CASE id # nextId
  BY <1>1, <1>2, <1>3, <1>5
     DEF InNoPlace, InOnePlace, OnceIn, NotIn, OnceAt, NotAt, OnceDone, NotDone,
         Executed
<1> QED  BY <1>4, <1>5

LEMMA DrainPopPlaces ==
  ASSUME PlaceInv, DrainPop
  PROVE  Places'
<1>1. PICK c \in ReadyTops(queue, current) :
             queue' = queue \ {c} /\ ready' = Append(ready, c)
  BY DEF DrainPop
<1>2. /\ c \in queue /\ c.id \in Nat \ {0} /\ c \in ScheduledCommand
      /\ UNCHANGED <<executed, lost, nextId>>
  BY <1>1 DEF ReadyTops, Tops, DrainPop, PlaceInv, Inv, TypeInv, TypeOK,
              ScheduledCommand
<1> DEFINE n == Len(ready) + 1
<1>3. /\ DOMAIN ready = 1 .. n - 1 /\ DOMAIN ready' = 1 .. n /\ n \in Nat \ {0}
      /\ \A i \in 1 .. n - 1 : ready'[i] = ready[i]
      /\ ready'[n] = c
  BY <1>1, <1>2, AppendProperties, LenProperties
     DEF PlaceInv, Inv, TypeInv, TypeOK
<1> HIDE DEF n
<1> SUFFICES ASSUME NEW id \in Nat \ {0}
             PROVE  IF id < nextId THEN InOnePlace(id)' ELSE InNoPlace(id)'
  BY <1>2 DEF Places
<1>4. IF id < nextId THEN InOnePlace(id) ELSE InNoPlace(id)
  BY DEF PlaceInv, Places
<1>5. CASE id = c.id
  <2>1. /\ id < nextId /\ OnceIn(queue, id) /\ NotAt(ready, id)
        /\ NotDone(id) /\ NotIn(lost, id)
    BY <1>2, <1>4, <1>5 DEF InOnePlace, InNoPlace, NotIn
  <2>2. NotIn(queue', id)
    BY <1>1, <1>2, <1>5, <2>1 DEF OnceIn, NotIn
  <2>3. OnceAt(ready', id)
    <3>1. n \in DOMAIN ready' /\ ready'[n].id = id
      BY <1>3, <1>5
    <3>2. \A j \in DOMAIN ready' : ready'[j].id = id => j = n
      BY <1>3, <2>1 DEF NotAt
    <3> QED  BY <3>1, <3>2 DEF OnceAt
  <2>4. NotDone(id)' /\ NotIn(lost', id)
    BY <1>2, <2>1 DEF NotDone, Executed
  <2> QED  BY <2>1, <2>2, <2>3, <2>4 DEF InOnePlace
<1>6. CASE id # c.id
  <2>1. /\ NotIn(queue, id) => NotIn(queue', id)
        /\ OnceIn(queue, id) => OnceIn(queue', id)
    BY <1>1, <1>6 DEF NotIn, OnceIn
  <2>2. NotAt(ready, id) => NotAt(ready', id)
    BY <1>3, <1>6 DEF NotAt
  <2>3. OnceAt(ready, id) => OnceAt(ready', id)
    <3> SUFFICES ASSUME OnceAt(ready, id)  PROVE OnceAt(ready', id)
      OBVIOUS
    <3>1. PICK i \in DOMAIN ready :
                 ready[i].id = id /\ \A j \in DOMAIN ready : ready[j].id = id => j = i
      BY DEF OnceAt
    <3>2. i \in DOMAIN ready' /\ ready'[i].id = id
      BY <1>3, <3>1
    <3>3. ASSUME NEW j \in DOMAIN ready', ready'[j].id = id
          PROVE  j = i
      <4>1. j # n
        BY <1>3, <1>6, <3>3
      <4>2. j \in DOMAIN ready /\ ready'[j] = ready[j]
        BY <1>3, <3>3, <4>1
      <4> QED  BY <3>1, <3>3, <4>2
    <3> QED  BY <3>2, <3>3 DEF OnceAt
  <2>4. /\ NotDone(id) <=> NotDone(id)'
        /\ OnceDone(id) <=> OnceDone(id)'
        /\ lost' = lost
    BY <1>2 DEF NotDone, OnceDone, Executed
  <2> QED  BY <1>4, <2>1, <2>2, <2>3, <2>4 DEF InOnePlace, InNoPlace
<1> QED  BY <1>5, <1>6

LEMMA ExecutePlaces ==
  ASSUME PlaceInv, Execute
  PROVE  Places'
<1> DEFINE h == ready[1]
           n == Len(executed) + 1
           m == Len(ready)
<1>1. /\ h = Head(ready) /\ h \in ScheduledCommand /\ h.id \in Nat \ {0}
      /\ m \in Nat \ {0} /\ DOMAIN ready = 1 .. m
      /\ DOMAIN ready' = 1 .. m - 1
      /\ \A i \in 1 .. m - 1 : ready'[i] = ready[i + 1]
  BY ReadyFields, HeadTailProperties, LenProperties
     DEF Execute, PlaceInv, Inv, TypeInv, TypeOK, ScheduledCommand
<1>2. UNCHANGED <<queue, lost, nextId>>
  BY DEF Execute
<1>3. /\ DOMAIN executed = 1 .. n - 1 /\ DOMAIN executed' = 1 .. n
      /\ n \in Nat \ {0}
      /\ \A i \in 1 .. n - 1 : executed'[i] = executed[i]
      /\ executed'[n] = [cmd |-> h, at |-> published]
  <2>1. [cmd |-> Head(ready), at |-> published] \in Execution
    BY <1>1 DEF Execution, PlaceInv, Inv, TypeInv, TypeOK
  <2> QED
    BY <1>1, <2>1, AppendProperties, LenProperties
       DEF Execute, PlaceInv, Inv, TypeInv, TypeOK
<1> HIDE DEF h, n, m
<1>4. h = ready[1]
  BY DEF h
<1> SUFFICES ASSUME NEW id \in Nat \ {0}
             PROVE  IF id < nextId THEN InOnePlace(id)' ELSE InNoPlace(id)'
  BY <1>2 DEF Places
<1>5. IF id < nextId THEN InOnePlace(id) ELSE InNoPlace(id)
  BY DEF PlaceInv, Places
<1>6. CASE id = h.id
  <2>1. /\ id < nextId /\ NotIn(queue, id) /\ OnceAt(ready, id)
        /\ NotDone(id) /\ NotIn(lost, id)
    BY <1>1, <1>4, <1>5, <1>6 DEF InOnePlace, InNoPlace, NotAt
  <2>2. NotAt(ready', id)
    BY <1>1, <1>4, <1>6, <2>1 DEF OnceAt, NotAt
  <2>3. OnceDone(id)'
    <3>1. n \in DOMAIN executed' /\ executed'[n].cmd.id = id
      BY <1>3, <1>6
    <3>2. \A j \in DOMAIN executed' : executed'[j].cmd.id = id => j = n
      BY <1>3, <2>1 DEF NotDone, Executed
    <3> QED  BY <3>1, <3>2 DEF OnceDone, Executed
  <2>4. NotIn(queue', id) /\ NotIn(lost', id)
    BY <1>2, <2>1
  <2> QED  BY <2>1, <2>2, <2>3, <2>4 DEF InOnePlace
<1>7. CASE id # h.id
  <2>1. NotAt(ready, id) => NotAt(ready', id)
    BY <1>1 DEF NotAt
  <2>2. OnceAt(ready, id) => OnceAt(ready', id)
    <3> SUFFICES ASSUME OnceAt(ready, id)  PROVE OnceAt(ready', id)
      OBVIOUS
    <3>1. PICK i \in DOMAIN ready :
                 ready[i].id = id /\ \A j \in DOMAIN ready : ready[j].id = id => j = i
      BY DEF OnceAt
    <3>2. i \in 2 .. m
      BY <1>1, <1>4, <1>7, <3>1
    <3>3. i - 1 \in DOMAIN ready' /\ ready'[i - 1].id = id
      BY <1>1, <3>1, <3>2
    <3>4. ASSUME NEW j \in DOMAIN ready', ready'[j].id = id
          PROVE  j = i - 1
      <4>1. j \in 1 .. m - 1 /\ j + 1 \in DOMAIN ready
        BY <1>1
      <4>2. ready[j + 1].id = id
        BY <1>1, <3>4, <4>1
      <4>3. j + 1 = i
        BY <3>1, <4>1, <4>2
      <4> QED  BY <4>1, <4>3
    <3> QED  BY <3>3, <3>4 DEF OnceAt
  <2>3. NotDone(id) => NotDone(id)'
    BY <1>3, <1>7 DEF NotDone, Executed
  <2>4. OnceDone(id) => OnceDone(id)'
    BY <1>3, <1>7 DEF OnceDone, Executed
  <2> QED  BY <1>2, <1>5, <2>1, <2>2, <2>3, <2>4 DEF InOnePlace, InNoPlace
<1> QED  BY <1>6, <1>7

LEMMA ExecutePanicsPlaces ==
  ASSUME PlaceInv, ExecutePanics
  PROVE  Places'
<1>1. /\ lost' = lost \cup Range(ready) /\ ready' = <<>>
      /\ UNCHANGED <<queue, executed, nextId>>
  BY DEF ExecutePanics, CallEnds
<1>2. \A c : c \in Range(ready) <=> \E i \in DOMAIN ready : c = ready[i]
  BY DEF Range
<1> SUFFICES ASSUME NEW id \in Nat \ {0}
             PROVE  IF id < nextId THEN InOnePlace(id)' ELSE InNoPlace(id)'
  BY <1>1 DEF Places
<1>3. IF id < nextId THEN InOnePlace(id) ELSE InNoPlace(id)
  BY DEF PlaceInv, Places
<1>4. NotAt(ready', id)
  BY <1>1 DEF NotAt
<1>5. /\ NotAt(ready, id) /\ NotIn(lost, id) => NotIn(lost', id)
      /\ NotAt(ready, id) /\ OnceIn(lost, id) => OnceIn(lost', id)
      /\ OnceAt(ready, id) /\ NotIn(lost, id) => OnceIn(lost', id)
  <2>1. NotAt(ready, id) => NotIn(Range(ready), id)
    BY <1>2 DEF NotAt, NotIn
  <2>2. OnceAt(ready, id) => OnceIn(Range(ready), id)
    BY <1>2 DEF OnceAt, OnceIn
  <2> QED  BY <1>1, <2>1, <2>2 DEF NotIn, OnceIn
<1>6. /\ NotDone(id) <=> NotDone(id)'
      /\ OnceDone(id) <=> OnceDone(id)'
  BY <1>1 DEF NotDone, OnceDone, Executed
<1> QED  BY <1>1, <1>3, <1>4, <1>5, <1>6 DEF InOnePlace, InNoPlace

-----------------------------------------------------------------------------
(* The induction *)

LEMMA PlacesUnmoved ==
  ASSUME PlaceInv, UNCHANGED <<queue, ready, executed, lost, nextId>>
  PROVE  Places'
BY DEF PlaceInv, Places, InOnePlace, InNoPlace, OnceIn, NotIn, OnceAt, NotAt,
       OnceDone, NotDone, Executed

LEMMA InitPlaces == Init => PlaceInv
<1> SUFFICES ASSUME Init  PROVE Places
  BY InitInv DEF PlaceInv
<1> QED
  BY DEF Init, Places, InNoPlace, NotIn, NotAt, NotDone

LEMMA NextPlaces == PlaceInv /\ [Next]_vars => PlaceInv'
<1> SUFFICES ASSUME PlaceInv, [Next]_vars  PROVE Places'
  BY NextInv DEF PlaceInv
<1>1. ASSUME NEW t \in Time, NEW p \in Payload, Enqueue(t, p)
      PROVE  Places'
  BY <1>1, EnqueuePlaces
<1>2. CASE DrainPop
  BY <1>2, DrainPopPlaces
<1>3. CASE Execute
  BY <1>3, ExecutePlaces
<1>4. CASE ExecutePanics
  BY <1>4, ExecutePanicsPlaces
<1>5. CASE LoopTickOverflows \/ PublishPanics
  <2>1. ready = <<>> /\ ready' = <<>>
    BY <1>5 DEF LoopTickOverflows, PublishPanics, CallEnds, PlaceInv, Inv,
                CallStructure
  <2> QED
    BY <1>5, <2>1, PlacesUnmoved DEF LoopTickOverflows, PublishPanics
<1>6. CASE \/ \E r \in 0 .. MaxTime : SetTickRate(r)
           \/ \E delta \in Time : Step(delta)
           \/ \E target \in Time : AdvanceTo(target)
           \/ \E n \in 0 .. MaxRun : RunForTicks(n)
           \/ LoopTick \/ Publish \/ DrainReturns \/ DispatchEnds
           \/ UNCHANGED vars
  BY <1>6, PlacesUnmoved
     DEF SetTickRate, Step, AdvanceTo, RunForTicks, LoopTick, ClockMoves,
         Publish, DrainReturns, DispatchEnds, vars
<1> QED  BY <1>1, <1>2, <1>3, <1>4, <1>5, <1>6 DEF Next

\* Whatever calls are made and wherever a panic cuts them short, each accepted
\* command waits in the heap, waits in the drained vector, has been executed
\* once or was lost to a panic of the sink, and never two of these.
THEOREM OncePerCommand == Spec => []ExactlyOnce
<1>1. Spec => []PlaceInv
  BY InitPlaces, NextPlaces, PTL DEF Spec
<1> QED  BY <1>1, PlacesCounted, PTL

-----------------------------------------------------------------------------
(***************************************************************************)
(* The dispatcher implements EventSimulation: every step of a call is a    *)
(* step of the promise or none.  Two facts carry it.  A drained command is *)
(* in the vector only, and once there (PlaceInv), so that executing it is  *)
(* all it takes to be rid of it; and from the end of the drain on nothing  *)
(* due is left in the heap (Dry), so that the vector is what the promise   *)
(* calls due, also when a panic throws it away.                            *)
(***************************************************************************)

\* While the vector is executed, no command in the heap is due.
Dry == pc = "execute" => \A c \in queue : c.timestamp > current

PromiseInv == PlaceInv /\ Dry

LEMMA InitPromise == Init => PromiseInv
BY InitPlaces DEF PromiseInv, Dry, Init

LEMMA NextPromise == PromiseInv /\ [Next]_vars => PromiseInv'
<1> SUFFICES ASSUME PromiseInv, [Next]_vars  PROVE Dry'
  BY NextPlaces DEF PromiseInv
<1>1. CASE DrainReturns
  <2>1. \A c \in queue : c.timestamp > current
    BY <1>1, DrainedDry DEF DrainReturns, PromiseInv, PlaceInv, Inv, TypeInv, TypeOK
  <2> QED  BY <1>1, <2>1 DEF DrainReturns, Dry
<1>2. CASE Execute \/ UNCHANGED vars
  BY <1>2 DEF Execute, vars, PromiseInv, Dry
<1>3. ASSUME ~DrainReturns, ~Execute, Next
      PROVE  pc' # "execute"
  BY <1>3 DEF Next, Enqueue, SetTickRate, Step, AdvanceTo, RunForTicks, LoopTick,
              LoopTickOverflows, ClockMoves, CallEnds, Publish, PublishPanics,
              DrainPop, ExecutePanics, DispatchEnds
<1> QED  BY <1>1, <1>2, <1>3 DEF Dry

-----------------------------------------------------------------------------
(* The steps *)

Pending == queue \cup Range(ready)

Dispatching == pc \in {"publish", "drain", "execute"}

\* The vector as a set.
LEMMA VectorMembers ==
  ASSUME NEW s
  PROVE  \A c : c \in Range(s) <=> \E i \in DOMAIN s : c = s[i]
BY DEF Range

\* Steps that neither the heap and the vector together nor the promise's
\* other variables show.
LEMMA Hidden ==
  ASSUME Pending' = Pending, Dispatching' = Dispatching,
         UNCHANGED <<current, executed, lost, nextId>>
  PROVE  UNCHANGED Promise!vars
BY DEF Promise!vars, Pending, Dispatching

LEMMA EnqueueAccepts ==
  ASSUME NEW t \in Time, NEW p \in Payload, Enqueue(t, p)
  PROVE  Promise!Accept(t, p)
BY DEF Enqueue, Promise!Accept

\* A clock that does not go back is a time that may be set.
LEMMA ClockMovesSetsTime ==
  ASSUME NEW t \in Time, t >= current, ClockMoves(t), pc \in {"idle", "tick"}
  PROVE  Promise!SetTime(t)
BY DEF ClockMoves, Promise!SetTime

\* Popping moves a command from one part of what is pending to the other.
LEMMA DrainPopIsHidden ==
  ASSUME PromiseInv, DrainPop
  PROVE  UNCHANGED Promise!vars
<1>1. PICK c \in ReadyTops(queue, current) :
             queue' = queue \ {c} /\ ready' = Append(ready, c)
  BY DEF DrainPop
<1>2. c \in queue /\ c \in ScheduledCommand /\ ready \in Seq(ScheduledCommand)
  BY <1>1 DEF ReadyTops, Tops, PromiseInv, PlaceInv, Inv, TypeInv, TypeOK
<1>3. /\ DOMAIN ready = 1 .. Len(ready) /\ Len(ready) \in Nat
      /\ DOMAIN ready' = 1 .. Len(ready) + 1
      /\ \A i \in 1 .. Len(ready) : ready'[i] = ready[i]
      /\ ready'[Len(ready) + 1] = c
  BY <1>1, <1>2, AppendProperties, LenProperties
<1>4. Range(ready') = Range(ready) \cup {c}
  <2>1. ASSUME NEW d \in Range(ready')
        PROVE  d \in Range(ready) \cup {c}
    BY <1>3, <2>1, VectorMembers
  <2>2. ASSUME NEW d \in Range(ready) \cup {c}
        PROVE  d \in Range(ready')
    <3>1. CASE d = c
      BY <1>3, <3>1, VectorMembers
    <3>2. CASE d \in Range(ready)
      BY <1>3, <3>2, VectorMembers
    <3> QED  BY <2>2, <3>1, <3>2
  <2> QED  BY <2>1, <2>2
<1>5. Pending' = Pending
  BY <1>1, <1>2, <1>4 DEF Pending
<1> QED  BY <1>5, Hidden DEF DrainPop, Dispatching

\* The head of the vector is due, nothing due goes before it, and taking it
\* from the vector takes it from what is pending.
LEMMA ExecuteExecutes ==
  ASSUME PromiseInv, Execute
  PROVE  \E c \in Promise!Due : Promise!Execute(c)
<1> DEFINE h == ready[1]
           m == Len(ready)
<1>1. /\ h = Head(ready) /\ m \in Nat \ {0} /\ DOMAIN ready = 1 .. m
      /\ DOMAIN ready' = 1 .. m - 1
      /\ \A i \in 1 .. m - 1 : ready'[i] = ready[i + 1]
      /\ h.id \in Nat \ {0}
  BY ReadyFields, HeadTailProperties, LenProperties
     DEF Execute, PromiseInv, PlaceInv, Inv, TypeInv, TypeOK, ScheduledCommand
<1> HIDE DEF m
<1>2. 1 \in DOMAIN ready /\ h \in Range(ready)
  BY <1>1, VectorMembers
<1>3. NotIn(queue, h.id) /\ OnceAt(ready, h.id)
  <2>1. IF h.id < nextId THEN InOnePlace(h.id) ELSE InNoPlace(h.id)
    BY <1>1 DEF PromiseInv, PlaceInv, Places
  <2> QED  BY <1>2, <2>1 DEF InOnePlace, InNoPlace, NotAt
<1>4. h \notin queue
  BY <1>3 DEF NotIn
<1>5. \A i \in DOMAIN ready : ready[i] = h => i = 1
  BY <1>2, <1>3 DEF OnceAt
<1>6. Range(ready') = Range(ready) \ {h}
  <2>1. ASSUME NEW d \in Range(ready')
        PROVE  d \in Range(ready) \ {h}
    <3>1. PICK i \in DOMAIN ready' : d = ready'[i]
      BY VectorMembers
    <3>2. i + 1 \in DOMAIN ready /\ d = ready[i + 1] /\ i + 1 # 1
      BY <1>1, <3>1
    <3> QED  BY <1>5, <3>2, VectorMembers
  <2>2. ASSUME NEW d \in Range(ready) \ {h}
        PROVE  d \in Range(ready')
    <3>1. PICK i \in DOMAIN ready : d = ready[i]
      BY <2>2, VectorMembers
    <3>2. i - 1 \in DOMAIN ready' /\ ready'[i - 1] = ready[i]
      BY <1>1, <2>2, <3>1
    <3> QED  BY <3>1, <3>2, VectorMembers
  <2> QED  BY <2>1, <2>2
<1>7. h \in Promise!Due
  BY <1>2 DEF Promise!Due, PromiseInv, PlaceInv, Inv, VectorInOrder
<1>8. \A d \in Promise!Due : ~Promise!Precedes(d, h)
  <2>1. \A d \in queue \cup Range(ready) : ~PopsBefore(d, h)
    <3>1. \A d \in queue : ~PopsBefore(d, h)
      BY <1>2 DEF PromiseInv, PlaceInv, Inv, VectorInOrder
    <3>2. \A i \in DOMAIN ready : ~PopsBefore(ready[i], h)
      <4> SUFFICES ASSUME NEW i \in DOMAIN ready  PROVE ~PopsBefore(ready[i], h)
        OBVIOUS
      <4>1. CASE i = 1
        BY <1>2, <4>1, ReadyFields, PopsBeforeIsStrict
           DEF PromiseInv, PlaceInv, Inv, TypeInv
      <4>2. CASE i # 1
        BY <1>1, <1>2, <4>2 DEF PromiseInv, PlaceInv, Inv, VectorInOrder
      <4> QED  BY <4>1, <4>2
    <3> QED  BY <3>1, <3>2, VectorMembers
  <2> QED  BY <2>1 DEF Promise!Due, Promise!Precedes, PopsBefore
<1>9. published = current
  BY DEF Execute, PromiseInv, PlaceInv, Inv, CallStructure
<1>10. /\ executed' = Append(executed, [cmd |-> h, at |-> current])
       /\ pc = "execute"
       /\ UNCHANGED <<current, queue, pc, lost, nextId>>
  BY <1>1, <1>9 DEF Execute
<1> HIDE DEF h
<1>11. queue' \cup Range(ready') = (queue \cup Range(ready)) \ {h}
  BY <1>4, <1>6, <1>10
<1>12. Promise!Execute(h)
  BY <1>8, <1>10, <1>11 DEF Promise!Execute
<1> QED  BY <1>7, <1>12

\* The vector is all that is due, and a panic drops it.
LEMMA ExecutePanicsAborts ==
  ASSUME PromiseInv, ExecutePanics
  PROVE  Promise!Abort
<1>1. \A c \in Range(ready) : c.timestamp <= current
  BY VectorMembers DEF PromiseInv, PlaceInv, Inv, VectorInOrder
<1>2. pc = "execute" /\ \A c \in queue : c.timestamp > current /\ c.timestamp \in Int
  BY CommandFields
     DEF ExecutePanics, PromiseInv, Dry, PlaceInv, Inv, TypeInv, TypeOK
<1>3. current \in Int
  BY TimeIsInt DEF PromiseInv, PlaceInv, Inv, TypeInv, TypeOK
<1>4. Promise!Due = Range(ready) /\ queue \cap Range(ready) = {}
  BY <1>1, <1>2, <1>3 DEF Promise!Due
<1>5. Range(ready') = {}
  BY VectorMembers DEF ExecutePanics, CallEnds
<1>6. /\ queue' \cup Range(ready') = (queue \cup Range(ready)) \ Promise!Due
      /\ lost' = lost \cup Promise!Due
  BY <1>4, <1>5 DEF ExecutePanics
<1>7. UNCHANGED <<current, executed, nextId>> /\ pc' = "idle"
  BY DEF ExecutePanics, CallEnds
<1> QED  BY <1>2, <1>6, <1>7 DEF Promise!Abort

\* Nothing has been drained when publish_time panics.
LEMMA PublishPanicsAborts ==
  ASSUME PromiseInv, PublishPanics
  PROVE  Promise!Abort
<1>1. ready = <<>> /\ ready' = ready /\ pc = "publish" /\ pc' = "idle"
  BY DEF PublishPanics, CallEnds, PromiseInv, PlaceInv, Inv, CallStructure
<1>2. /\ queue' \cup Range(ready') = (queue \cup Range(ready)) \ {}
      /\ lost' = lost \cup {}
      /\ UNCHANGED <<current, executed, nextId>>
  BY <1>1 DEF PublishPanics
<1> QED  BY <1>1, <1>2 DEF Promise!Abort

\* The vector is empty and the heap dry: nothing is due.
LEMMA DispatchEndsFinishes ==
  ASSUME PromiseInv, DispatchEnds
  PROVE  Promise!Finish
<1>1. Range(ready) = {}
  BY VectorMembers DEF DispatchEnds
<1>2. \A c \in queue : c.timestamp > current /\ c.timestamp \in Int
  BY CommandFields
     DEF DispatchEnds, PromiseInv, Dry, PlaceInv, Inv, TypeInv, TypeOK
<1>3. current \in Int
  BY TimeIsInt DEF PromiseInv, PlaceInv, Inv, TypeInv, TypeOK
<1>4. Promise!Due = {}
  BY <1>1, <1>2, <1>3 DEF Promise!Due
<1>5. pc = "execute" /\ pc' \in {"idle", "tick"}
      /\ UNCHANGED <<current, queue, ready, executed, lost, nextId>>
  BY DEF DispatchEnds
<1> QED  BY <1>4, <1>5 DEF Promise!Finish

-----------------------------------------------------------------------------
(* The refinement *)

LEMMA InitRefines == Init => Promise!Init
<1> SUFFICES ASSUME Init  PROVE Promise!Init
  OBVIOUS
<1>1. Range(ready) = {}
  BY VectorMembers DEF Init
<1> QED  BY <1>1, DispatcherAssumption DEF Init, Promise!Init, Promise!Time, Time

LEMMA NextRefines ==
  PromiseInv /\ [Next]_vars => [Promise!Next]_Promise!vars
<1> SUFFICES ASSUME PromiseInv, [Next]_vars
             PROVE  Promise!Next \/ UNCHANGED Promise!vars
  OBVIOUS
<1> USE DEF Promise!Time, Time
<1>1. ASSUME NEW t \in Time, NEW p \in Payload, Enqueue(t, p)
      PROVE  Promise!Next
  BY <1>1, EnqueueAccepts DEF Promise!Next
<1>2. ASSUME NEW t \in Time, t >= current, ClockMoves(t), pc \in {"idle", "tick"}
      PROVE  Promise!Next
  BY <1>2, ClockMovesSetsTime DEF Promise!Next
<1>3. ASSUME NEW delta \in Time, Step(delta)
      PROVE  Promise!Next
  BY <1>2, <1>3, ClockType DEF Step, PromiseInv, PlaceInv, Inv, TypeInv, TypeOK
<1>4. ASSUME NEW target \in Time, AdvanceTo(target)
      PROVE  Promise!Next
  BY <1>2, <1>4, ClockType DEF AdvanceTo, PromiseInv, PlaceInv, Inv, TypeInv, TypeOK
<1>5. CASE LoopTick
  BY <1>2, <1>5, ClockType DEF LoopTick, PromiseInv, PlaceInv, Inv, TypeInv, TypeOK
<1>6. CASE \/ \E r \in 0 .. MaxTime : SetTickRate(r)
           \/ \E n \in 0 .. MaxRun : RunForTicks(n)
           \/ Publish \/ DrainReturns \/ UNCHANGED vars
  <2>1. Pending' = Pending
    BY <1>6 DEF SetTickRate, RunForTicks, Publish, DrainReturns, vars, Pending
  <2>2. Dispatching' = Dispatching
    BY <1>6 DEF SetTickRate, RunForTicks, Publish, DrainReturns, vars, Dispatching
  <2> QED
    BY <1>6, <2>1, <2>2, Hidden
       DEF SetTickRate, RunForTicks, Publish, DrainReturns, vars
<1>7. CASE LoopTickOverflows
  <2>1. ready = <<>> /\ ready' = <<>>
    BY <1>7 DEF LoopTickOverflows, CallEnds, PromiseInv, PlaceInv, Inv, CallStructure
  <2>2. Pending' = Pending /\ Dispatching' = Dispatching
    BY <1>7, <2>1 DEF LoopTickOverflows, CallEnds, Pending, Dispatching
  <2> QED  BY <1>7, <2>2, Hidden DEF LoopTickOverflows
<1>8. CASE PublishPanics
  BY <1>8, PublishPanicsAborts DEF Promise!Next
<1>9. CASE DrainPop
  BY <1>9, DrainPopIsHidden
<1>10. CASE Execute
  BY <1>10, ExecuteExecutes DEF Promise!Next
<1>11. CASE ExecutePanics
  BY <1>11, ExecutePanicsAborts DEF Promise!Next
<1>12. CASE DispatchEnds
  BY <1>12, DispatchEndsFinishes DEF Promise!Next
<1> QED
  BY <1>1, <1>3, <1>4, <1>5, <1>6, <1>7, <1>8, <1>9, <1>10, <1>11, <1>12 DEF Next

\* Through every call, loop and panic the dispatcher does what EventSimulation
\* promises: draining a batch and executing it afterwards cannot be told from
\* executing the due commands one at a time.
THEOREM Refinement == Spec => KeepsPromise
<1>1. Spec => []PromiseInv
  BY InitPromise, NextPromise, PTL DEF Spec
<1> QED
  BY <1>1, InitRefines, NextRefines, PTL DEF Spec, KeepsPromise, Promise!Spec

-----------------------------------------------------------------------------
(***************************************************************************)
(* A call is one step (AtomicCalls).  Passed are the times of the call     *)
(* that it has come to; what DispatchCalls computes for them is in place   *)
(* between two dispatches, and during a dispatch it is once the commands   *)
(* that are due or in the vector are counted as executed.                  *)
(***************************************************************************)

Passed == {t \in call.times : t <= current}

NotDue == {c \in queue : c.timestamp > current}

DueNow == (queue \ NotDue) \cup Range(ready)

CallInv ==
  /\ pc = "idle" => ticksLeft = 0
  /\ pc # "idle" =>
       /\ call.times \subseteq Time
       /\ call.queue \subseteq ScheduledCommand
       /\ {t \in call.times : t > current} = StepTimes(current, tickRate, ticksLeft)
       /\ current = ClockAfter(call.now, Passed)
  /\ pc = "tick" =>
       /\ queue = QueueAfter(call.queue, Passed)
       /\ Range(executed) = call.executed \cup Executions(call.queue, Passed)
  /\ pc \in {"publish", "drain", "execute"} =>
       /\ current \in call.times
       /\ NotDue = QueueAfter(call.queue, Passed)
       /\ Range(executed) \cup {[cmd |-> c, at |-> current] : c \in DueNow}
            = call.executed \cup Executions(call.queue, Passed)
  /\ CallIsOneStep

LEMMA RangeFacts ==
  ASSUME NEW S, NEW s \in Seq(S), NEW x \in S
  PROVE  /\ Range(<<>>) = {}
         /\ Range(Append(s, x)) = Range(s) \cup {x}
         /\ s # <<>> => Range(s) = {Head(s)} \cup Range(Tail(s))
<1>1. Range(<<>>) = {}
  BY DEF Range
<1>2. Range(Append(s, x)) = Range(s) \cup {x}
  <2>1. /\ Len(s) \in Nat
        /\ DOMAIN s = 1 .. Len(s) /\ DOMAIN Append(s, x) = 1 .. Len(s) + 1
        /\ \A k \in 1 .. Len(s) : Append(s, x)[k] = s[k]
        /\ Append(s, x)[Len(s) + 1] = x
    OBVIOUS
  <2>2. DOMAIN Append(s, x) = DOMAIN s \cup {Len(s) + 1}
    BY <2>1
  <2> QED  BY <2>1, <2>2 DEF Range
<1>3. ASSUME s # <<>>
      PROVE  Range(s) = {Head(s)} \cup Range(Tail(s))
  <2>1. /\ Len(s) \in Nat \ {0} /\ Head(s) = s[1]
        /\ DOMAIN s = 1 .. Len(s) /\ DOMAIN Tail(s) = 1 .. Len(s) - 1
        /\ \A k \in 1 .. Len(s) - 1 : Tail(s)[k] = s[k + 1]
    BY <1>3
  <2>2. ASSUME NEW k \in DOMAIN s PROVE s[k] \in {Head(s)} \cup Range(Tail(s))
    <3>1. k # 1 => k - 1 \in DOMAIN Tail(s) /\ Tail(s)[k - 1] = s[k]
      BY <2>1
    <3> QED  BY <2>1, <3>1 DEF Range
  <2>3. ASSUME NEW k \in DOMAIN Tail(s) PROVE Tail(s)[k] \in Range(s)
    <3>1. k + 1 \in DOMAIN s /\ Tail(s)[k] = s[k + 1]
      BY <2>1
    <3> QED  BY <3>1 DEF Range
  <2>4. Head(s) \in Range(s)
    BY <2>1 DEF Range
  <2> QED  BY <2>2, <2>3, <2>4 DEF Range
<1> QED  BY <1>1, <1>2, <1>3

LEMMA NoTimes ==
  ASSUME NEW Q
  PROVE  QueueAfter(Q, {}) = Q /\ Executions(Q, {}) = {}
BY DEF QueueAfter, Executions

\* The next dispatch of a call begins: the clock has moved to t, the times
\* before it are done.
LEMMA ClockMovesCall ==
  ASSUME PromiseInv, NEW t \in Time, ClockMoves(t), ready = <<>>,
         NEW done \in SUBSET Time, \A u \in done : u < t,
         Passed' = done \cup {t},
         call'.queue \subseteq ScheduledCommand,
         queue = QueueAfter(call'.queue, done),
         Range(executed) = call'.executed \cup Executions(call'.queue, done)
  PROVE  /\ current' = t /\ pc' = "publish"
         /\ current' = ClockAfter(call'.now, Passed')
         /\ current' \in call'.times
         /\ NotDue' = QueueAfter(call'.queue, Passed')
         /\ Range(executed') \cup {[cmd |-> c, at |-> current'] : c \in DueNow'}
              = call'.executed \cup Executions(call'.queue, Passed')
<1>1. /\ current' = t /\ pc' = "publish"
      /\ queue' = queue /\ ready' = ready /\ executed' = executed
  BY DEF ClockMoves
<1>2. \A u \in done \cup {t} : u <= t
  BY MaxTimeAssumption DEF Time
<1>3. current' = ClockAfter(call'.now, Passed')
  BY <1>1, <1>2, ClockAfterLast
<1>4. t \in call'.times
  BY DEF Passed
<1> DEFINE left == {c \in queue : c.timestamp > t}
           due == {c \in queue : ~(c.timestamp > t)}
<1>5. /\ QueueAfter(call'.queue, Passed') = left
      /\ Executions(call'.queue, Passed')
           = Executions(call'.queue, done) \cup {[cmd |-> c, at |-> t] : c \in due}
  <2> DEFINE Q == call'.queue
  <2>1. Q \in SUBSET ScheduledCommand /\ queue = QueueAfter(Q, done)
    OBVIOUS
  <2> HIDE DEF Q
  <2>2. /\ QueueAfter(Q, done \cup {t}) = {c \in QueueAfter(Q, done) : c.timestamp > t}
        /\ Executions(Q, done \cup {t})
             = Executions(Q, done)
                 \cup {[cmd |-> c, at |-> t] :
                         c \in {d \in QueueAfter(Q, done) : ~(d.timestamp > t)}}
    <3>1. Q \in SUBSET ScheduledCommand /\ done \in SUBSET Time /\ t \in Time
          /\ \A u \in done : u < t
      BY <2>1
    <3> QED  BY <3>1, OneMoreTime
  <2>3. /\ left = {c \in QueueAfter(Q, done) : c.timestamp > t}
        /\ due = {c \in QueueAfter(Q, done) : ~(c.timestamp > t)}
    BY <2>1, Zenon
  <2> HIDE DEF left, due
  <2>4. /\ QueueAfter(Q, Passed') = left
        /\ Executions(Q, Passed')
             = Executions(Q, done) \cup {[cmd |-> c, at |-> t] : c \in due}
    BY <2>2, <2>3, Zenon
  <2> QED  BY <2>4 DEF Q
<1>6. NotDue' = left
  BY <1>1 DEF NotDue
<1>7. DueNow' = due
  <2>1. Range(ready') = {}
    BY <1>1 DEF Range
  <2>2. queue \ left = due
    OBVIOUS
  <2> QED  BY <1>1, <1>6, <2>1, <2>2 DEF DueNow
<1> HIDE DEF left, due
<1> QED  BY <1>1, <1>3, <1>4, <1>5, <1>6, <1>7

\* When no time is left the call has been one step.
LEMMA CallReturns ==
  ASSUME call.times \subseteq Time, current \in Time,
         {t \in call.times : t > current} = {},
         current = ClockAfter(call.now, Passed),
         queue = QueueAfter(call.queue, Passed),
         Range(executed) = call.executed \cup Executions(call.queue, Passed)
  PROVE  /\ current = ClockAfter(call.now, call.times)
         /\ queue = QueueAfter(call.queue, call.times)
         /\ Range(executed) = call.executed \cup Executions(call.queue, call.times)
<1>1. \A t \in call.times : t \in Int /\ current \in Int
  BY MaxTimeAssumption DEF Time
<1>2. \A t \in call.times : ~(t > current)
  OBVIOUS
<1>3. \A t \in call.times : t <= current
  BY <1>1, <1>2
<1>4. Passed = call.times
  BY <1>3 DEF Passed
<1> QED  BY <1>4

\* A dispatch at its end: the heap and the executions are those of the call.
LEMMA DispatchDone ==
  ASSUME PromiseInv, CallInv, pc = "execute", ready = <<>>
  PROVE  /\ queue = QueueAfter(call.queue, Passed)
         /\ Range(executed) = call.executed \cup Executions(call.queue, Passed)
<1>1. NotDue = queue
  BY DEF PromiseInv, Dry, NotDue
<1>2. DueNow = {}
  BY <1>1 DEF DueNow, Range
<1> QED  BY <1>1, <1>2 DEF CallInv

LEMMA InitCall == CallInit => PromiseInv /\ CallInv
<1> SUFFICES ASSUME CallInit PROVE PromiseInv /\ CallInv
  OBVIOUS
<1>1. pc = "idle" /\ ticksLeft = 0 /\ call = NoCall
  BY DEF CallInit, Init
<1>2. CallInv
  BY <1>1 DEF CallInv, CallIsOneStep
<1> QED  BY <1>2, InitPromise DEF CallInit

LEMMA CallBegins ==
  ASSUME PromiseInv, PromiseInv', CallInv, CallNext, pc = "idle", pc' # "idle"
  PROVE  CallInv'
<1>1. /\ call'.times = TimesOfCall /\ call'.now = current
      /\ call'.queue = queue /\ call'.executed = Range(executed)
  BY DEF CallNext
<1>2. /\ current \in Time /\ tickRate \in Rate /\ queue \subseteq ScheduledCommand
      /\ current' \in Time /\ ready = <<>> /\ ticksLeft = 0
  BY DEF PromiseInv, PlaceInv, Inv, TypeInv, TypeOK, CallStructure, CallInv
<1>3. QueueAfter(queue, {}) = queue /\ Executions(queue, {}) = {}
  BY NoTimes
<1>4. ASSUME NEW t, ClockMoves(t), UNCHANGED ticksLeft
      PROVE  CallInv'
  <2>1. /\ current' = t /\ pc' = "publish" /\ tickRate' = tickRate
        /\ call'.times = {t} /\ t \in Time
    BY <1>1, <1>2, <1>4 DEF ClockMoves, TimesOfCall
  <2>2. t \in Int
    BY <2>1, MaxTimeAssumption DEF Time
  <2>3. Passed' = {} \cup {t} /\ {u \in call'.times : u > current'} = {}
    BY <2>1, <2>2 DEF Passed
  <2>4. StepTimes(current', tickRate', ticksLeft') = {}
    BY <1>2, <1>4, <2>1, StepByStep
  <2>5. /\ current' = ClockAfter(call'.now, Passed')
        /\ current' \in call'.times
        /\ NotDue' = QueueAfter(call'.queue, Passed')
        /\ Range(executed') \cup {[cmd |-> c, at |-> current'] : c \in DueNow'}
             = call'.executed \cup Executions(call'.queue, Passed')
    BY <1>1, <1>2, <1>3, <1>4, <2>1, <2>3, ClockMovesCall
  <2> QED
    BY <1>1, <1>2, <2>1, <2>3, <2>4, <2>5 DEF CallInv, CallIsOneStep
<1>5. ASSUME NEW n \in 0 .. MaxRun, RunForTicks(n)
      PROVE  CallInv'
  <2>1. /\ pc' = "tick" /\ ticksLeft' = n /\ n \in Nat
        /\ current' = current /\ tickRate' = tickRate
        /\ queue' = queue /\ executed' = executed
    BY <1>5 DEF RunForTicks
  <2>2. call'.times = StepTimes(current, tickRate, n) /\ call'.times \subseteq Time
    BY <1>1, <2>1 DEF TimesOfCall, StepTimes
  <2>3. \A t \in call'.times : t >= current + tickRate /\ t \in Time
    BY <1>2, <2>1, <2>2, StepByStep
  <2>4. \A t \in call'.times : t > current /\ ~(t <= current)
    BY <1>2, <2>3, MaxTimeAssumption DEF Time, Rate
  <2>5. Passed' = {} /\ {t \in call'.times : t > current'} = call'.times
    BY <2>1, <2>4 DEF Passed
  <2>6. current' = ClockAfter(call'.now, Passed')
    BY <1>1, <2>1, <2>5 DEF ClockAfter
  <2> QED
    BY <1>1, <1>2, <1>3, <2>1, <2>2, <2>5, <2>6 DEF CallInv, CallIsOneStep
<1> QED
  BY <1>4, <1>5 DEF CallNext, Next, Enqueue, SetTickRate, Step, AdvanceTo, LoopTick,
     LoopTickOverflows, Publish, PublishPanics, DrainPop, DrainReturns, Execute,
     ExecutePanics, DispatchEnds

LEMMA CallGoesOn ==
  ASSUME PromiseInv, PromiseInv', CallInv, Next, call' = call, pc # "idle",
         ~PublishPanics, ~ExecutePanics
  PROVE  CallInv'
<1>1. /\ current \in Time /\ tickRate \in Rate /\ ticksLeft \in Nat
      /\ ready \in Seq(ScheduledCommand) /\ current' \in Time
      /\ pc = "tick" => ticksLeft # 0 /\ ready = <<>>
  BY DEF PromiseInv, PlaceInv, Inv, TypeInv, TypeOK, CallStructure
<1>2. /\ call.times \subseteq Time
      /\ call.queue \subseteq ScheduledCommand
      /\ {t \in call.times : t > current} = StepTimes(current, tickRate, ticksLeft)
      /\ current = ClockAfter(call.now, Passed)
  BY DEF CallInv
<1>3. /\ \A t \in Time : t \in Nat /\ t <= MaxTime
      /\ tickRate \in Nat \ {0} /\ MaxTime \in Nat
  BY <1>1, MaxTimeAssumption DEF Time, Rate
<1>4. CASE LoopTick
  <2> DEFINE t == current + tickRate
             rest == StepTimes(t, tickRate, ticksLeft - 1)
  <2>1. /\ pc = "tick" /\ t <= MaxTime /\ ClockMoves(t) /\ ticksLeft' = ticksLeft - 1
        /\ current' = t /\ pc' = "publish" /\ tickRate' = tickRate
    BY <1>1, <1>3, <1>4 DEF LoopTick, StepOverflows, ClockMoves
  <2>2. ticksLeft - 1 \in Nat
    BY <1>1, <2>1
  <2>3. t \in Time /\ t > current
    BY <1>1, <1>3, <2>1 DEF Time
  <2>4. {u \in call.times : u > current} = {t} \cup rest
    BY <1>1, <1>2, <2>1, StepByStep
  <2>5. \A u \in rest : u >= t + tickRate
    BY <1>1, <2>2, <2>3, StepByStep
  <2>6. \A u \in call.times : u \in Nat
    BY <1>2, <1>3
  <2>7. \A u \in rest : u > t
    BY <1>3, <2>3, <2>4, <2>5, <2>6
  <2>8. {u \in call.times : u > t} = rest
    <3>1. \A u \in call.times : u > t => u > current /\ u # t
      BY <1>1, <1>3, <2>3, <2>6
    <3>2. \A u \in rest : u \in call.times
      BY <2>4
    <3> HIDE DEF t, rest
    <3> QED  BY <2>4, <2>7, <3>1, <3>2
  <2>9. Passed' = Passed \cup {t}
    <3>1. \A u \in call.times : u <= t <=> u <= current \/ u = t
      <4> SUFFICES ASSUME NEW u \in call.times PROVE u <= t <=> u <= current \/ u = t
        OBVIOUS
      <4>1. u > current => u = t \/ u > t
        BY <2>4, <2>7
      <4> QED  BY <1>1, <1>3, <2>3, <2>6, <4>1
    <3>2. t \in call.times
      BY <2>4
    <3> HIDE DEF t
    <3> QED  BY <2>1, <3>1, <3>2 DEF Passed
  <2>10. Passed \in SUBSET Time /\ \A u \in Passed : u < t
    <3>1. Passed \in SUBSET Time
      BY <1>2 DEF Passed
    <3>2. ASSUME NEW u \in Passed PROVE u < t
      <4>1. u \in call.times /\ u <= current
        BY DEF Passed
      <4>2. u \in Nat /\ current \in Nat /\ t \in Nat /\ t > current
        BY <1>1, <1>3, <2>3, <2>6, <4>1
      <4> HIDE DEF t
      <4> QED  BY <4>1, <4>2
    <3> QED  BY <3>1, <3>2
  <2>11. /\ queue = QueueAfter(call.queue, Passed)
         /\ Range(executed) = call.executed \cup Executions(call.queue, Passed)
    BY <2>1 DEF CallInv
  <2> HIDE DEF t, rest
  <2>12. /\ current' = ClockAfter(call'.now, Passed')
         /\ current' \in call'.times
         /\ NotDue' = QueueAfter(call'.queue, Passed')
         /\ Range(executed') \cup {[cmd |-> c, at |-> current'] : c \in DueNow'}
              = call'.executed \cup Executions(call'.queue, Passed')
    BY <1>1, <1>2, <2>1, <2>3, <2>9, <2>10, <2>11, ClockMovesCall
  <2>13. {u \in call'.times : u > current'} = StepTimes(current', tickRate', ticksLeft')
    BY <2>1, <2>8 DEF rest
  <2> QED
    BY <1>2, <2>1, <2>12, <2>13 DEF CallInv, CallIsOneStep
<1>5. CASE LoopTickOverflows
  <2>1. /\ pc = "tick" /\ current + tickRate > MaxTime
        /\ pc' = "idle" /\ ticksLeft' = 0
        /\ current' = current /\ queue' = queue /\ executed' = executed
    BY <1>5 DEF LoopTickOverflows, StepOverflows, CallEnds
  <2>2. {t \in call.times : t > current} = {}
    BY <1>1, <1>2, <2>1, StepByStep
  <2>3. /\ queue = QueueAfter(call.queue, Passed)
        /\ Range(executed) = call.executed \cup Executions(call.queue, Passed)
    BY <2>1 DEF CallInv
  <2>4. /\ current = ClockAfter(call.now, call.times)
        /\ queue = QueueAfter(call.queue, call.times)
        /\ Range(executed) = call.executed \cup Executions(call.queue, call.times)
    BY <1>1, <1>2, <2>2, <2>3, CallReturns
  <2> QED  BY <2>1, <2>4 DEF CallInv, CallIsOneStep
\* Inside a dispatch the clock stands, and what is not due and what is done
\* or due stay the same.
<1>6. ASSUME /\ pc \in {"publish", "drain", "execute"}
             /\ pc' \in {"publish", "drain", "execute"}
             /\ UNCHANGED <<current, tickRate, ticksLeft>>
             /\ NotDue' = NotDue
             /\ Range(executed') \cup {[cmd |-> c, at |-> current] : c \in DueNow'}
                  = Range(executed) \cup {[cmd |-> c, at |-> current] : c \in DueNow}
      PROVE  CallInv'
  <2>1. Passed' = Passed
    BY <1>6 DEF Passed
  <2>2. current \in call.times /\ NotDue = QueueAfter(call.queue, Passed)
    BY <1>6 DEF CallInv
  <2>3. Range(executed) \cup {[cmd |-> c, at |-> current] : c \in DueNow}
          = call.executed \cup Executions(call.queue, Passed)
    BY <1>6 DEF CallInv
  <2>4. (Range(executed) \cup {[cmd |-> c, at |-> current] : c \in DueNow}
           = call.executed \cup Executions(call.queue, Passed))'
    BY <1>6, <2>1, <2>3
  <2> QED  BY <1>2, <1>6, <2>1, <2>2, <2>4 DEF CallInv, CallIsOneStep
<1>7. CASE Publish \/ DrainReturns
  <2>1. /\ pc \in {"publish", "drain", "execute"} /\ pc' \in {"publish", "drain", "execute"}
        /\ UNCHANGED <<current, tickRate, ticksLeft, queue, ready, executed>>
    BY <1>7 DEF Publish, DrainReturns
  <2>2. NotDue' = NotDue /\ DueNow' = DueNow
    BY <2>1 DEF NotDue, DueNow
  <2> QED  BY <1>6, <2>1, <2>2
<1>8. CASE DrainPop
  <2>1. PICK c \in ReadyTops(queue, current) :
               queue' = queue \ {c} /\ ready' = Append(ready, c)
    BY <1>8 DEF DrainPop
  <2>2. c \in queue /\ c.timestamp <= current /\ c \in ScheduledCommand
    BY <2>1 DEF ReadyTops, Tops, PromiseInv, PlaceInv, Inv, TypeInv, TypeOK
  <2>3. ~(c.timestamp > current)
    BY <1>1, <2>2, CommandNumbers, MaxTimeAssumption DEF Time
  <2>4. /\ pc = "drain" /\ pc' = "drain" /\ executed' = executed
        /\ UNCHANGED <<current, tickRate, ticksLeft>>
    BY <1>8 DEF DrainPop
  <2>5. NotDue' = NotDue
    BY <2>1, <2>3, <2>4 DEF NotDue
  <2>6. Range(ready') = Range(ready) \cup {c}
    BY <1>1, <2>1, <2>2, RangeFacts
  <2>7. DueNow' = DueNow
    <3>1. c \notin NotDue
      BY <2>3 DEF NotDue
    <3> QED  BY <2>1, <2>2, <2>5, <2>6, <3>1 DEF DueNow
  <2> QED  BY <1>6, <2>4, <2>5, <2>7
<1>9. CASE Execute
  <2>1. /\ pc = "execute" /\ pc' = "execute" /\ ready # <<>>
        /\ executed' = Append(executed, [cmd |-> Head(ready), at |-> published])
        /\ ready' = Tail(ready) /\ queue' = queue
        /\ UNCHANGED <<current, tickRate, ticksLeft>>
    BY <1>9 DEF Execute
  <2>2. published = current
    BY <2>1 DEF PromiseInv, PlaceInv, Inv, CallStructure
  <2>3. Range(ready) = {Head(ready)} \cup Range(ready')
    BY <1>1, <2>1, RangeFacts
  <2>4. Range(executed') = Range(executed) \cup {[cmd |-> Head(ready), at |-> current]}
    <3>1. Head(ready) \in ScheduledCommand
      BY <1>1, <2>1
    <3>2. [cmd |-> Head(ready), at |-> current] \in Execution
      BY <1>1, <3>1 DEF Execution
    <3>3. executed \in Seq(Execution)
      BY DEF PromiseInv, PlaceInv, Inv, TypeInv, TypeOK
    <3> QED  BY <2>1, <2>2, <3>2, <3>3, RangeFacts
  <2>5. NotDue' = NotDue /\ queue \ NotDue = {}
    BY <2>1 DEF NotDue, PromiseInv, Dry
  <2>6. DueNow = Range(ready) /\ DueNow' = Range(ready')
    BY <2>1, <2>5 DEF DueNow
  <2> QED  BY <1>6, <2>1, <2>3, <2>4, <2>5, <2>6
<1>10. CASE DispatchEnds
  <2>1. /\ pc = "execute" /\ ready = <<>>
        /\ pc' = IF ticksLeft > 0 THEN "tick" ELSE "idle"
        /\ UNCHANGED <<current, tickRate, ticksLeft, queue, executed>>
    BY <1>10 DEF DispatchEnds
  <2>2. /\ queue = QueueAfter(call.queue, Passed)
        /\ Range(executed) = call.executed \cup Executions(call.queue, Passed)
    BY <2>1, DispatchDone
  <2>3. Passed' = Passed
    BY <2>1 DEF Passed
  <2>4. CASE ticksLeft > 0
    <3>1. pc' = "tick"
      BY <2>1, <2>4
    <3> QED  BY <1>2, <2>1, <2>2, <2>3, <3>1 DEF CallInv, CallIsOneStep
  <2>5. CASE ~(ticksLeft > 0)
    <3>1. ticksLeft = 0 /\ pc' = "idle"
      BY <1>1, <2>1, <2>5
    <3>2. {t \in call.times : t > current} = {}
      BY <1>1, <1>2, <3>1, StepByStep
    <3>3. /\ current = ClockAfter(call.now, call.times)
          /\ queue = QueueAfter(call.queue, call.times)
          /\ Range(executed) = call.executed \cup Executions(call.queue, call.times)
      BY <1>1, <1>2, <2>2, <3>2, CallReturns
    <3> QED  BY <2>1, <3>1, <3>3 DEF CallInv, CallIsOneStep
  <2> QED  BY <2>4, <2>5
<1> QED
  BY <1>4, <1>5, <1>7, <1>8, <1>9, <1>10 DEF Next, Enqueue, SetTickRate, Step,
     AdvanceTo, RunForTicks

LEMMA NextCall ==
  PromiseInv /\ CallInv /\ [CallNext]_CallSpecVars => PromiseInv' /\ CallInv'
<1> SUFFICES ASSUME PromiseInv, CallInv, [CallNext]_CallSpecVars
             PROVE  PromiseInv' /\ CallInv'
  OBVIOUS
<1>1. PromiseInv'
  BY NextPromise DEF CallNext, CallSpecVars
<1>2. CASE UNCHANGED CallSpecVars
  <2>1. UNCHANGED <<current, tickRate, queue, pc, ticksLeft, ready, executed, call>>
    BY <1>2 DEF CallSpecVars, vars
  <2>2. Passed' = Passed /\ NotDue' = NotDue /\ DueNow' = DueNow
    BY <2>1 DEF Passed, NotDue, DueNow
  <2>3. CallIsOneStep'
    BY <2>1 DEF CallInv, CallIsOneStep
  <2> QED  BY <1>1, <2>1, <2>2, <2>3 DEF CallInv
<1>3. ASSUME CallNext, pc' = "idle", call' = NoCall, ticksLeft' = 0
      PROVE  CallInv'
  BY <1>3 DEF CallInv, CallIsOneStep
<1>4. CASE CallNext /\ pc = "idle" /\ pc' = "idle"
  <2>1. call' = NoCall
    BY <1>4 DEF CallNext
  <2>2. ticksLeft = 0
    BY <1>4 DEF CallInv
  <2>3. ticksLeft' = ticksLeft
    BY <1>4 DEF CallNext, Next, Enqueue, SetTickRate, Step, AdvanceTo, ClockMoves,
       RunForTicks, LoopTick, LoopTickOverflows, Publish, PublishPanics, DrainPop,
       DrainReturns, Execute, ExecutePanics, DispatchEnds
  <2> QED  BY <1>1, <1>3, <1>4, <2>1, <2>2, <2>3
<1>5. CASE CallNext /\ pc = "idle" /\ pc' # "idle"
  BY <1>1, <1>5, CallBegins
<1>6. CASE CallNext /\ pc # "idle" /\ SinkPanics
  <2>1. call' = NoCall
    BY <1>6 DEF CallNext
  <2>2. pc' = "idle" /\ ticksLeft' = 0
    BY <1>6 DEF SinkPanics, PublishPanics, ExecutePanics, CallEnds
  <2> QED  BY <1>1, <1>3, <1>6, <2>1, <2>2
<1>7. CASE CallNext /\ pc # "idle" /\ ~SinkPanics
  <2>1. call' = call /\ Next
    BY <1>7 DEF CallNext
  <2> QED  BY <1>1, <1>7, <2>1, CallGoesOn DEF SinkPanics
<1> QED  BY <1>2, <1>4, <1>5, <1>6, <1>7

\* A call of the dispatcher, however many ticks it makes and even if the
\* clock cuts it short, has the effect that DispatchCalls computes for it in
\* one step, as LocalClient, DemoServer, PipeListener and SimulationClient
\* take it to have (publish_and_dispatch under a lock or an owner).
THEOREM CallsAreAtomic == CallSpec => []CallIsOneStep
<1>1. CallInv => CallIsOneStep
  BY DEF CallInv
<1> QED  BY <1>1, InitCall, NextCall, PTL DEF CallSpec

=============================================================================
