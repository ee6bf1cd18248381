-------------------------- MODULE DispatchCallsProofs --------------------------
(***************************************************************************)
(* Lemmas about a call of the dispatcher as one step, for the proofs of    *)
(* the programs that make such calls.                                      *)
(***************************************************************************)
EXTENDS DispatchCalls, FiniteSetTheorems, WellFoundedInduction, TLAPS

\* A set of times has a first and a last one.
LEMMA ExtremeTimes ==
  ASSUME NEW S \in SUBSET Time, S # {}
  PROVE  /\ Min(S) \in S /\ \A t \in S : Min(S) <= t
         /\ Max(S) \in S /\ \A t \in S : Max(S) >= t
<1>1. IsFiniteSet(S)
  <2>1. IsFiniteSet(Time)
    BY FS_Interval, MaxTimeAssumption DEF Time
  <2> QED  BY <2>1, FS_Subset
<1>2. \A t \in S : t \in Int
  BY MaxTimeAssumption DEF Time
<1> DEFINE Below(t) == {u \in S : u < t}
           Above(t) == {u \in S : u > t}
<1>3. ASSUME NEW T \in SUBSET SUBSET S, T # {}
      PROVE  \E x \in T : \A y \in T : <<y, x>> \notin StrictSubsetOrdering(S)
  <2>1. T \subseteq FiniteSubsetsOf(S)
    BY <1>1, FS_Subset DEF FiniteSubsetsOf
  <2> QED  BY <1>1, <1>3, <2>1, FS_StrictSubsetOrderingWellFounded, WFMin
<1>4. PICK t \in S : \A u \in S : <<Below(u), Below(t)>> \notin StrictSubsetOrdering(S)
  <2> DEFINE T == {Below(u) : u \in S}
  <2>1. T \in SUBSET SUBSET S /\ T # {}
    OBVIOUS
  <2>2. PICK x \in T : \A y \in T : <<y, x>> \notin StrictSubsetOrdering(S)
    <3> HIDE DEF T
    <3> QED  BY <1>3, <2>1
  <2> QED  BY <2>2
<1>5. PICK v \in S : \A u \in S : <<Above(u), Above(v)>> \notin StrictSubsetOrdering(S)
  <2> DEFINE T == {Above(u) : u \in S}
  <2>1. T \in SUBSET SUBSET S /\ T # {}
    OBVIOUS
  <2>2. PICK x \in T : \A y \in T : <<y, x>> \notin StrictSubsetOrdering(S)
    <3> HIDE DEF T
    <3> QED  BY <1>3, <2>1
  <2> QED  BY <2>2
<1>6. \A u \in S : t <= u
  <2> SUFFICES ASSUME NEW u \in S, u < t  PROVE FALSE
    BY <1>2
  <2>1. Below(u) \subseteq Below(t) /\ u \in Below(t) /\ u \notin Below(u)
    BY <1>2
  <2> QED  BY <1>4, <2>1 DEF StrictSubsetOrdering
<1>7. \A u \in S : v >= u
  <2> SUFFICES ASSUME NEW u \in S, u > v  PROVE FALSE
    BY <1>2
  <2>1. Above(u) \subseteq Above(v) /\ u \in Above(v) /\ u \notin Above(u)
    BY <1>2
  <2> QED  BY <1>5, <2>1 DEF StrictSubsetOrdering
<1> QED  BY <1>6, <1>7 DEF Min, Max

LEMMA CommandNumbers ==
  \A c \in ScheduledCommand :
    c.timestamp \in Int /\ c.id \in Int /\ c.accepted \in Int
<1> SUFFICES ASSUME NEW c \in ScheduledCommand
             PROVE  c.timestamp \in Int /\ c.id \in Int /\ c.accepted \in Int
  OBVIOUS
<1>1. c.timestamp \in Time /\ c.id \in Nat \ {0} /\ c.accepted \in Time
  BY DEF ScheduledCommand
<1> QED  BY <1>1, MaxTimeAssumption DEF Time

\* The clock ends at one of the times, or stays.
LEMMA ClockAfterType ==
  ASSUME NEW now \in Time, NEW times \in SUBSET Time
  PROVE  ClockAfter(now, times) \in Time
BY ExtremeTimes DEF ClockAfter

\* The times of a call are times; so is the target of advance_to.
LEMMA CallTimes ==
  /\ \A now, delta, n : StepTimes(now, delta, n) \subseteq Time
  /\ \A now, target \in Time : {Forward(now, target)} \subseteq Time
BY DEF StepTimes, Forward

\* What leaves the heap is executed, at a time of the call at which nothing
\* that stays was due.
LEMMA ExecutionsAreDue ==
  ASSUME NEW Q \in SUBSET ScheduledCommand, NEW times \in SUBSET Time
  PROVE  /\ QueueAfter(Q, times) \subseteq Q
         /\ \A e \in Executions(Q, times) :
              /\ e.cmd \in Q \ QueueAfter(Q, times)
              /\ e.at \in times
              /\ e.cmd.timestamp <= e.at
              /\ \A c \in QueueAfter(Q, times) : c.timestamp > e.at
         /\ \A c \in Q \ QueueAfter(Q, times) :
              \E e \in Executions(Q, times) : e.cmd = c
<1>1. QueueAfter(Q, times) \subseteq Q
  BY DEF QueueAfter
<1>2. ASSUME NEW e \in Executions(Q, times)
      PROVE  /\ e.cmd \in Q \ QueueAfter(Q, times)
             /\ e.at \in times
             /\ e.cmd.timestamp <= e.at
             /\ \A c \in QueueAfter(Q, times) : c.timestamp > e.at
  <2>1. PICK c \in Q \ QueueAfter(Q, times) :
               e = [cmd |-> c, at |-> Min({t \in times : t >= c.timestamp})]
    BY DEF Executions
  <2> DEFINE S == {t \in times : t >= c.timestamp}
  <2>2. S \subseteq Time /\ S # {}
    <3>1. PICK t \in times : ~(c.timestamp > t)
      BY <2>1 DEF QueueAfter
    <3>2. t \in Int /\ c.timestamp \in Int
      <4>1. t \in Time /\ c \in ScheduledCommand
        OBVIOUS
      <4> QED  BY <4>1, CommandNumbers, MaxTimeAssumption DEF Time
    <3>3. t \in S
      BY <3>1, <3>2
    <3> QED  BY <3>3
  <2> HIDE DEF S
  <2>3. e.cmd = c /\ e.at = Min(S)
    BY <2>1 DEF S
  <2>4. Min(S) \in S
    BY <2>2, ExtremeTimes
  <2>5. Min(S) \in times /\ Min(S) >= c.timestamp
    BY <2>4 DEF S
  <2>6. Min(S) \in Int /\ c.timestamp \in Int
    <3>1. Min(S) \in Time /\ c \in ScheduledCommand
      BY <2>5
    <3> QED  BY <3>1, CommandNumbers, MaxTimeAssumption DEF Time
  <2>7. \A d \in QueueAfter(Q, times) : d.timestamp > Min(S)
    BY <2>5 DEF QueueAfter
  <2> QED  BY <2>3, <2>5, <2>6, <2>7
<1>3. ASSUME NEW c \in Q \ QueueAfter(Q, times)
      PROVE  \E e \in Executions(Q, times) : e.cmd = c
  <2>1. [cmd |-> c, at |-> Min({t \in times : t >= c.timestamp})]
          \in Executions(Q, times)
    BY DEF Executions
  <2> QED  BY <2>1
<1> QED  BY <1>1, <1>2, <1>3

\* The clock is where the last of the times has left it.
LEMMA ClockAfterLast ==
  ASSUME NEW now, NEW times \in SUBSET Time,
         NEW t \in times, \A u \in times : u <= t
  PROVE  ClockAfter(now, times) = t
<1>1. Max(times) \in times /\ \A u \in times : Max(times) >= u
  BY ExtremeTimes
<1>2. \A u \in times : u \in Int
  BY MaxTimeAssumption DEF Time
<1>3. Max(times) = t
  BY <1>1, <1>2
<1> QED  BY <1>3 DEF ClockAfter

\* The steps of run_for_ticks one by one: the first that overflows ends them.
LEMMA StepByStep ==
  ASSUME NEW now \in Time, NEW delta \in Rate, NEW n \in Nat
  PROVE  /\ \A t \in StepTimes(now, delta, n) : t >= now + delta
         /\ n = 0 \/ now + delta > MaxTime => StepTimes(now, delta, n) = {}
         /\ n # 0 /\ now + delta <= MaxTime =>
              StepTimes(now, delta, n)
                = {now + delta} \cup StepTimes(now + delta, delta, n - 1)
<1>1. now \in Nat /\ delta \in Nat \ {0} /\ MaxTime \in Nat
  BY MaxTimeAssumption DEF Time, Rate
<1>2. \A k \in Nat : k # 0 => k * delta >= delta
  <2>1. ASSUME NEW k \in Nat, k # 0 PROVE k * delta >= delta
    <3>1. k * delta = (k - 1) * delta + delta /\ (k - 1) * delta \in Nat
      BY <1>1, <2>1
    <3> QED  BY <1>1, <3>1
  <2> QED  BY <2>1
<1>3. \A t \in StepTimes(now, delta, n) : t >= now + delta
  <2> SUFFICES ASSUME NEW k \in 1 .. n PROVE now + k * delta >= now + delta
    BY DEF StepTimes
  <2>1. k * delta >= delta /\ k * delta \in Nat
    BY <1>1, <1>2
  <2> QED  BY <1>1, <2>1
<1>4. ASSUME n = 0 PROVE StepTimes(now, delta, n) = {}
  BY <1>4 DEF StepTimes
<1>5. ASSUME now + delta > MaxTime PROVE StepTimes(now, delta, n) = {}
  <2>1. \A t \in StepTimes(now, delta, n) : t \in Nat /\ t <= MaxTime
    BY <1>1 DEF StepTimes, Time
  <2> QED  BY <1>1, <1>3, <1>5, <2>1
<1>6. ASSUME n # 0, now + delta <= MaxTime
      PROVE  StepTimes(now, delta, n)
               = {now + delta} \cup StepTimes(now + delta, delta, n - 1)
  <2>1. now + delta \in Time
    BY <1>1, <1>6 DEF Time
  <2>2. \A k \in Nat : (now + delta) + k * delta = now + (k + 1) * delta
    <3>1. \A k \in Nat : (k + 1) * delta = k * delta + delta /\ k * delta \in Nat
      BY <1>1
    <3> QED  BY <1>1, <3>1
  <2>3. ASSUME NEW t \in StepTimes(now, delta, n)
        PROVE  t \in {now + delta} \cup StepTimes(now + delta, delta, n - 1)
    <3>1. PICK k \in 1 .. n : t = now + k * delta /\ t \in Time
      BY DEF StepTimes
    <3>2. CASE k = 1
      BY <1>1, <3>1, <3>2
    <3>3. CASE k # 1
      <4>1. k - 1 \in 1 .. n - 1 /\ k - 1 \in Nat /\ (k - 1) + 1 = k
        BY <3>3
      <4>2. t = (now + delta) + (k - 1) * delta
        BY <2>2, <3>1, <4>1
      <4> QED  BY <3>1, <4>1, <4>2 DEF StepTimes
    <3> QED  BY <3>2, <3>3
  <2>4. ASSUME NEW t \in StepTimes(now + delta, delta, n - 1)
        PROVE  t \in StepTimes(now, delta, n)
    <3>1. PICK k \in 1 .. n - 1 : t = (now + delta) + k * delta /\ t \in Time
      BY DEF StepTimes
    <3>2. k + 1 \in 1 .. n /\ t = now + (k + 1) * delta
      BY <2>2, <3>1
    <3> QED  BY <3>1, <3>2 DEF StepTimes
  <2>5. now + delta \in StepTimes(now, delta, n)
    <3>1. 1 \in 1 .. n /\ now + delta = now + 1 * delta
      BY <1>1, <1>6
    <3> QED  BY <2>1, <3>1 DEF StepTimes
  <2> QED  BY <2>3, <2>4, <2>5
<1> QED  BY <1>3, <1>4, <1>5, <1>6

\* A call is the same as its dispatches one after another: a last time more
\* takes what is due at it and has not been executed before.
LEMMA OneMoreTime ==
  ASSUME NEW Q \in SUBSET ScheduledCommand, NEW times \in SUBSET Time,
         NEW t \in Time, \A u \in times : u < t
  PROVE  /\ QueueAfter(Q, times \cup {t}) = {c \in QueueAfter(Q, times) : c.timestamp > t}
         /\ Executions(Q, times \cup {t})
              = Executions(Q, times)
                  \cup {[cmd |-> c, at |-> t] :
                          c \in {d \in QueueAfter(Q, times) : ~(d.timestamp > t)}}
<1>1. QueueAfter(Q, times \cup {t}) = {c \in QueueAfter(Q, times) : c.timestamp > t}
  BY DEF QueueAfter
<1>2. /\ \A u \in times \cup {t} : u \in Int
      /\ \A c \in Q : c.timestamp \in Int
  BY CommandNumbers, MaxTimeAssumption DEF Time
<1> DEFINE From(T, c) == {u \in T : u >= c.timestamp}
           first(T, c) == [cmd |-> c, at |-> Min(From(T, c))]
           stays == QueueAfter(Q, times)
           due == {d \in stays : ~(d.timestamp > t)}
\* A command that was executed before is executed at the same time.
<1>3. ASSUME NEW c \in Q \ stays
      PROVE  c \notin QueueAfter(Q, times \cup {t}) /\ first(times \cup {t}, c) = first(times, c)
  <2>1. PICK u \in times : ~(c.timestamp > u)
    BY <1>3 DEF QueueAfter
  <2>2. u \in From(times, c) /\ From(times, c) \subseteq Time
    BY <1>2, <2>1
  <2>3. Min(From(times, c)) \in From(times, c)
        /\ \A v \in From(times, c) : Min(From(times, c)) <= v
    BY <2>2, ExtremeTimes
  <2>4. From(times \cup {t}, c) \subseteq Time /\ u \in From(times \cup {t}, c)
    BY <2>2
  <2>5. Min(From(times \cup {t}, c)) \in From(times \cup {t}, c)
        /\ \A v \in From(times \cup {t}, c) : Min(From(times \cup {t}, c)) <= v
    BY <2>4, ExtremeTimes
  <2>6. Min(From(times \cup {t}, c)) = Min(From(times, c))
    <3> DEFINE x == Min(From(times, c))
               y == Min(From(times \cup {t}, c))
    <3>1. x \in times /\ x >= c.timestamp /\ x < t
      BY <2>3
    <3>2. x \in From(times \cup {t}, c)
      BY <3>1
    <3>3. y <= x
      BY <2>5, <3>2
    <3>4. y \in times \cup {t} /\ y >= c.timestamp /\ y \in Int /\ x \in Int /\ t \in Int
      BY <1>2, <2>5, <3>1
    <3>5. y # t
      BY <3>1, <3>3, <3>4
    <3>6. y \in From(times, c)
      BY <3>4, <3>5
    <3>7. x <= y
      BY <2>3, <3>6
    <3> QED  BY <3>3, <3>4, <3>7
  <2> QED  BY <1>1, <1>3, <2>6
\* A command that was not and is due now is executed now.
<1>4. ASSUME NEW c \in due
      PROVE  c \notin QueueAfter(Q, times \cup {t})
             /\ first(times \cup {t}, c) = [cmd |-> c, at |-> t]
  <2>1. c \in Q /\ \A u \in times : c.timestamp > u
    BY DEF QueueAfter
  <2>2. From(times \cup {t}, c) = {t}
    BY <1>2, <1>4, <2>1
  <2>3. {t} \in SUBSET Time /\ {t} # {}
    OBVIOUS
  <2>4. Min({t}) \in {t}
    BY <2>3, ExtremeTimes
  <2> QED  BY <1>1, <1>4, <2>2, <2>4
<1>5. Q \ QueueAfter(Q, times \cup {t}) = (Q \ stays) \cup due
  <2>1. stays \subseteq Q
    BY DEF QueueAfter
  <2>2. QueueAfter(Q, times \cup {t}) = stays \ due
    BY <1>1
  <2>3. due \subseteq stays
    OBVIOUS
  <2> HIDE DEF stays, due
  <2> QED  BY <2>1, <2>2, <2>3
<1>6. /\ Executions(Q, times) = {first(times, c) : c \in Q \ stays}
      /\ Executions(Q, times \cup {t})
           = {first(times \cup {t}, c) : c \in Q \ QueueAfter(Q, times \cup {t})}
  BY DEF Executions
<1> HIDE DEF first, stays, due
<1>7. Executions(Q, times \cup {t})
        = {first(times, c) : c \in Q \ stays} \cup {[cmd |-> c, at |-> t] : c \in due}
  BY <1>3, <1>4, <1>5, <1>6
<1> QED  BY <1>1, <1>6, <1>7 DEF stays, due
=============================================================================
