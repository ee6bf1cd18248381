--------------------------- MODULE OutputForwarder ---------------------------
(***************************************************************************)
(* The output pipe of the demo (demo/src/main.rs): the sink of the         *)
(* dispatcher sends every line it prints into an unbounded channel too,    *)
(* and a task of its own, forward_output_to_pipe, carries the channel to   *)
(* whoever is attached to the output pipe, one client after the other.     *)
(*                                                                         *)
(* A line is its number.  The task takes a line from the channel before it *)
(* knows whether its client is still there.  The pipe holds what has been  *)
(* written and not been read, and loses it when the client goes.  A write  *)
(* to a client that has gone fails, or is still taken by the runtime, as a *)
(* write that completes later, and then the next one fails.                *)
(*                                                                         *)
(* What the main loop does to the channel are the actions Emits, Drops and *)
(* Stops; DemoServer has the main loop itself.                             *)
(***************************************************************************)
EXTENDS Integers, Sequences, FiniteSets

CONSTANTS
  WireCap,     (* lines that fit into the output pipe *)
  MaxSessions  (* bound on the clients of the output pipe *)

ASSUME OutputAssumption ==
  /\ WireCap \in Nat \ {0}
  /\ MaxSessions \in Nat

VARIABLES
  emitted,    (* history: how many lines the sink has sent *)
  sender,     (* the sink still lives *)
  channel,    (* the channel: numbers of lines *)
  forwarder,  (* the task: "creating", "listening", "receiving", "writing",
                 or "ended" *)
  hand,       (* the line it has taken, <<>> or just it *)
  session,    (* history: the number of clients that have attached *)
  attached,   (* the last of them has not left *)
  doomed,     (* a write that the runtime took will have failed *)
  wire,       (* what the pipe holds *)
  read,       (* history: the lines read, each with its session *)
  lost        (* history: lines nobody will read *)

task == <<forwarder, hand, doomed>>
pipe == <<session, attached, wire, read>>
output == <<emitted, sender, channel, task, pipe, lost>>

\* The task is spawned before anything is sent; a program without an output
\* pipe has none.
OutputInit ==
  /\ emitted = 0
  /\ sender = TRUE
  /\ channel = <<>>
  /\ forwarder \in {"creating", "ended"}
  /\ hand = <<>>
  /\ session = 0
  /\ attached = FALSE
  /\ doomed = FALSE
  /\ wire = <<>>
  /\ read = <<>>
  /\ lost = {}

LinesOf(s) == {s[i] : i \in DOMAIN s}

-----------------------------------------------------------------------------
(* The sink *)

EmitsWhenRoom(n) ==
  /\ channel = <<>>
  /\ emitted' = emitted + n
  /\ IF forwarder = "ended"
       THEN /\ lost' = lost \cup (emitted + 1 .. emitted + n)
            /\ UNCHANGED channel
       ELSE /\ channel' = channel \o [i \in 1 .. n |-> emitted + i]
            /\ UNCHANGED lost
  /\ UNCHANGED <<sender, task, pipe>>

\* LoggingSink::emit, n times.  Nothing makes it wait; without a receiver the
\* send fails, which it ignores.
Emits(n) ==
  /\ emitted' = emitted + n
  /\ IF forwarder = "ended"
       THEN /\ lost' = lost \cup (emitted + 1 .. emitted + n)
            /\ UNCHANGED channel
       ELSE /\ channel' = channel \o [i \in 1 .. n |-> emitted + i]
            /\ UNCHANGED lost
  /\ UNCHANGED <<sender, task, pipe>>

\* The dispatcher is dropped, and the sink with it.
Drops ==
  /\ sender
  /\ sender' = FALSE
  /\ UNCHANGED <<emitted, channel, task, pipe, lost>>

\* The task comes to its end, by itself or otherwise: the receiver goes, and
\* what was in the channel.
Ends ==
  /\ forwarder' = "ended"
  /\ channel' = <<>>
  /\ hand' = <<>>
  /\ lost' = lost \cup LinesOf(channel) \cup LinesOf(hand)
  /\ UNCHANGED doomed

\* The runtime is dropped.  The pipe closes, but what it holds can be read.
Stops ==
  /\ ~sender
  /\ Ends
  /\ UNCHANGED <<emitted, sender, pipe>>

-----------------------------------------------------------------------------
(* The task *)

Creates ==
  /\ forwarder = "creating"
  /\ forwarder' = "listening"
  /\ UNCHANGED <<emitted, sender, channel, hand, doomed, pipe, lost>>

\* create or connect fails, for one because somebody else has a pipe of this
\* name (first_pipe_instance); the task returns the error.
ForwarderFails ==
  /\ forwarder \in {"creating", "listening"}
  /\ Ends
  /\ UNCHANGED <<emitted, sender, pipe>>

TakesLinePeeks ==
  /\ forwarder = "receiving"
  /\ channel # <<>>
  /\ hand' = <<Head(channel)>>
  /\ forwarder' = "writing"
  /\ UNCHANGED <<emitted, sender, channel, doomed, pipe, lost>>

TakesLine ==
  /\ forwarder = "receiving"
  /\ channel # <<>>
  /\ hand' = <<Head(channel)>>
  /\ channel' = Tail(channel)
  /\ forwarder' = "writing"
  /\ UNCHANGED <<emitted, sender, doomed, pipe, lost>>

\* recv returns None, and is_closed says that this is final.
ReceivesNone ==
  /\ forwarder = "receiving"
  /\ channel = <<>>
  /\ ~sender
  /\ Ends
  /\ UNCHANGED <<emitted, sender, pipe>>

\* The line, its newline and the flush: it waits for room in the pipe.
Writes ==
  /\ forwarder = "writing"
  /\ attached
  /\ Len(wire) < WireCap
  /\ wire' = wire \o hand
  /\ hand' = <<>>
  /\ forwarder' = "receiving"
  /\ UNCHANGED <<emitted, sender, channel, doomed, session, attached, read, lost>>

\* The client has gone, which the runtime has not noticed.
WritesInVain ==
  /\ forwarder = "writing"
  /\ ~attached
  /\ ~doomed
  /\ lost' = lost \cup LinesOf(hand)
  /\ hand' = <<>>
  /\ doomed' = TRUE
  /\ forwarder' = "receiving"
  /\ UNCHANGED <<emitted, sender, channel, pipe>>

WriteFailsAndGoesOn ==
  /\ forwarder = "writing"
  /\ ~attached
  /\ lost' = lost \cup LinesOf(hand)
  /\ hand' = <<>>
  /\ forwarder' = "receiving"
  /\ UNCHANGED <<emitted, sender, channel, doomed, pipe>>

WriteFailsAndResends ==
  /\ forwarder = "writing"
  /\ ~attached
  /\ sender
  /\ channel' = channel \o hand
  /\ hand' = <<>>
  /\ forwarder' = "creating"
  /\ UNCHANGED <<emitted, sender, doomed, pipe, lost>>

WriteFailsDrainingChannel ==
  /\ forwarder = "writing"
  /\ ~attached
  /\ lost' = lost \cup LinesOf(hand) \cup LinesOf(channel)
  /\ hand' = <<>>
  /\ channel' = <<>>
  /\ forwarder' = IF sender THEN "creating" ELSE "ended"
  /\ UNCHANGED <<emitted, sender, doomed, pipe>>

\* The write fails: the line is lost.  With the sink gone is_closed ends the
\* task, whatever the channel still holds; otherwise a new pipe is made.
WriteFails ==
  /\ forwarder = "writing"
  /\ ~attached
  /\ IF sender
       THEN /\ lost' = lost \cup LinesOf(hand)
            /\ hand' = <<>>
            /\ forwarder' = "creating"
            /\ UNCHANGED <<channel, doomed>>
       ELSE Ends
  /\ UNCHANGED <<emitted, sender, pipe>>

-----------------------------------------------------------------------------
(* The clients of the output pipe *)

OutputConnects ==
  /\ forwarder = "listening"
  /\ session < MaxSessions
  /\ session' = session + 1
  /\ attached' = TRUE
  /\ doomed' = FALSE
  /\ forwarder' = "receiving"
  /\ UNCHANGED <<emitted, sender, channel, hand, wire, read, lost>>

OutputReads ==
  /\ attached
  /\ wire # <<>>
  /\ read' = Append(read, [line |-> Head(wire), session |-> session])
  /\ wire' = Tail(wire)
  /\ UNCHANGED <<emitted, sender, channel, task, session, attached, lost>>

OutputLeaves ==
  /\ attached
  /\ attached' = FALSE
  /\ wire' = <<>>
  /\ lost' = lost \cup LinesOf(wire)
  /\ UNCHANGED <<emitted, sender, channel, task, session, read>>

\* All but Creates, which depends on who else has the name of the pipe.
OutputSteps ==
  \/ ForwarderFails
  \/ TakesLine
  \/ ReceivesNone
  \/ Writes
  \/ WritesInVain
  \/ WriteFails
  \/ OutputConnects
  \/ OutputReads
  \/ OutputLeaves

\* With any main loop.
OutputNext ==
  \/ Creates
  \/ OutputSteps
  \/ \E n \in Nat : Emits(n)
  \/ Drops
  \/ Stops

OutputSpec == OutputInit /\ [][OutputNext]_output

-----------------------------------------------------------------------------
(* Properties *)

OutputTypeOK ==
  /\ emitted \in Nat
  /\ sender \in BOOLEAN
  /\ channel \in Seq(Nat)
  /\ forwarder \in {"creating", "listening", "receiving", "writing", "ended"}
  /\ hand \in Seq(Nat)
  /\ Len(hand) = IF forwarder = "writing" THEN 1 ELSE 0
  /\ session \in 0 .. MaxSessions
  /\ attached \in BOOLEAN
  /\ doomed \in BOOLEAN
  /\ wire \in Seq(Nat) /\ Len(wire) <= WireCap
  /\ read \in Seq([line : Nat, session : Nat])
  /\ lost \subseteq Nat

LinesRead == {read[i].line : i \in DOMAIN read}

\* A line the sink has sent is in exactly one place: the channel, the task's
\* hand, the pipe, a reader, or lost; none is delivered twice, to one client
\* or to two, and none disappears unaccounted for (forward_output_to_pipe).
NoneVanishes ==
  LET places == <<LinesOf(channel), LinesOf(hand), LinesOf(wire), LinesRead, lost>>
  IN  /\ UNION {places[i] : i \in DOMAIN places} = 1 .. emitted
      /\ \A i, j \in DOMAIN places : i # j => places[i] \cap places[j] = {}
      /\ \A i, j \in DOMAIN read : read[i].line = read[j].line => i = j

\* Clients read the lines in the order they were printed in.  While a client
\* is attached it misses none: a gap in what is read lies between two clients,
\* and what is in the gap is lost, not late.
ReadInOrder ==
  \A i, j \in DOMAIN read : i < j =>
    /\ read[i].line < read[j].line
    /\ read[i].session <= read[j].session
    /\ \A n \in read[i].line + 1 .. read[j].line - 1 :
         \/ \E k \in i + 1 .. j - 1 : read[k].line = n
         \/ n \in lost /\ read[i].session < read[j].session

\* As long as the task lives, a client that leaves costs no more lines than
\* the pipe holds and two: one that the runtime took for it and the one that
\* failed.  What is printed while nobody is attached is kept for the next.
LossIsBounded ==
  forwarder # "ended" => Cardinality(lost) <= session * (WireCap + 2)
=============================================================================
