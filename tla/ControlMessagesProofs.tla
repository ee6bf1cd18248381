------------------------ MODULE ControlMessagesProofs ------------------------
(***************************************************************************)
(* Proofs about ControlMessages, for every u64::MAX.  What the handler     *)
(* makes of a message is a case of its syntax; the invariant says that the *)
(* message is one that can be, and the outcome what the handler makes of   *)
(* it.                                                                     *)
(***************************************************************************)
EXTENDS ControlMessages, TLAPS

-----------------------------------------------------------------------------
(* The parsers *)

LEMMA VerbsApart ==
  /\ \A verb \in PlainVerbs : verb \notin NumberVerbs /\ verb \notin {"other", "note", "rate"}
  /\ \A verb \in NumberVerbs : verb \notin PlainVerbs /\ verb \notin {"other", "note"}
  /\ \A verb \in {"other", "note"} : verb \notin Verbs
  /\ Verbs = PlainVerbs \cup NumberVerbs
BY DEF PlainVerbs, NumberVerbs, Verbs

\* What a parser may return as an event: none, an instruction, a note, or a
\* scheduled command, and no rate of zero.
IsEvent(event) ==
  \/ event = NoEvent
  \/ \E kind \in PlainVerbs \cup {"note"} : event = Event(kind)
  \/ \E kind \in NumberVerbs \cup {"scheduled"}, n \in Number :
       /\ event = EventWith(kind, n)
       /\ n # Bad
       /\ kind = "rate" => n # 0

LEMMA WordsParse ==
  ASSUME NEW verb \in Verbs \cup {"other"}, NEW n \in Number
  PROVE  IsEvent(ParseWords(verb, n).event) /\ IsEvent(ParseTyped(verb, n).event)
<1> USE DEF Is, Fails
<1>1. CASE verb \in PlainVerbs
  BY <1>1 DEF ParseWords, ParseTyped, IsEvent
<1>2. CASE verb = "other"
  BY <1>2, VerbsApart DEF ParseWords, ParseTyped, IsEvent
<1>3. CASE verb \in NumberVerbs
  BY <1>3, VerbsApart DEF ParseWords, ParseTyped, IsEvent
<1>4. QED BY <1>1, <1>2, <1>3, VerbsApart

\* A method means what the shorthand of the same verb means.
LEMMA MethodParses ==
  ASSUME NEW m, m.method \in Methods, NumberIn(m.params) \in Number
  PROVE  /\ IsEvent(ParseMethod(m).event)
         /\ ParseMethod(m).event.kind \in Verbs \cup {"note"} \/ ParseMethod(m).event = NoEvent
         /\ m.method \in Verbs =>
              /\ ParseMethod(m).event = ParseWords(m.method, NumberIn(m.params)).event
              /\ ParseMethod(m).event = ParseTyped(m.method, NumberIn(m.params)).event
<1> DEFINE n == NumberIn(m.params)
<1> USE DEF Is, Fails
<1>1. CASE m.method \in PlainVerbs
  <2>1. ParseMethod(m) = Is(Event(m.method))
    <3>1. m.method \notin NumberVerbs /\ m.method \notin {"note", "other"}
      BY <1>1, VerbsApart
    <3>2. QED BY <1>1, <3>1 DEF ParseMethod
  <2>2. QED BY <1>1, <2>1, VerbsApart DEF ParseWords, ParseTyped, IsEvent, Event
<1>2. CASE m.method \in NumberVerbs
  <2>1. ParseMethod(m) = IF n = Bad THEN Fails(InvalidParams)
                         ELSE IF m.method = "rate" /\ n = 0 THEN Fails(InvalidParams)
                         ELSE Is(EventWith(m.method, n))
    <3>1. m.method \notin PlainVerbs /\ m.method \notin {"note", "other"}
      BY <1>2, VerbsApart
    <3>2. QED BY <1>2, <3>1 DEF ParseMethod
  <2>2. QED BY <1>2, <2>1, VerbsApart DEF ParseWords, ParseTyped, IsEvent, EventWith
<1>3. CASE m.method \in {"note", "other"}
  <2>1. m.method \notin Verbs /\ m.method \notin PlainVerbs /\ m.method \notin NumberVerbs
    BY <1>3, VerbsApart
  <2>2. ParseMethod(m).event \in {NoEvent, Event("note")}
    BY <1>3, <2>1 DEF ParseMethod
  <2>3. QED BY <2>1, <2>2 DEF IsEvent, Event
<1>4. QED BY <1>1, <1>2, <1>3, VerbsApart DEF Methods

LEMMA RpcFields ==
  ASSUME NEW m \in Message, m.syntax = "rpc"
  PROVE  m.method \in Methods /\ NumberIn(m.params) \in Number
<1>1. m \in [syntax : {"rpc"}, version : {"2.0", "other"}, wellFormed : BOOLEAN,
             method : Methods, params : Params, id : Ids]
  BY DEF Message
<1>2. m.method \in Methods /\ m.params \in Params
  BY <1>1
<1>3. QED BY <1>2 DEF NumberIn, Params, Number

LEMMA HandleRpcEvent ==
  ASSUME NEW m, NEW encodes
  PROVE  HandleRpc(m, encodes).event = ParseRpc(m).event
BY DEF HandleRpc

LEMMA HandleEvents ==
  ASSUME NEW m \in Message, NEW encodes
  PROVE  IsEvent(Handle(m, encodes).event)
<1>1. CASE m \in [syntax : {"words", "typed"}, verb : Verbs \cup {"other"}, number : Number]
  BY <1>1, WordsParse DEF Handle
<1>2. CASE m.syntax = "rpc"
  <2>1. IsEvent(ParseRpc(m).event)
    BY <1>2, RpcFields, MethodParses DEF ParseRpc, Fails, IsEvent
  <2>2. QED BY <1>2, <2>1, HandleRpcEvent DEF Handle
<1>3. CASE m \in [syntax : {"pipe"}, timestamp : Number]
  BY <1>3 DEF Handle, Nothing, IsEvent
<1>4. CASE m \in [syntax : {"json", "text"}]
  BY <1>4 DEF Handle, Nothing, IsEvent
<1>5. QED BY <1>1, <1>2, <1>3, <1>4 DEF Message

-----------------------------------------------------------------------------
(* The invariant *)

\* Where a message comes from, and what has become of it.
WrittenByClient ==
  /\ client \in {"reading", "closed"}
  /\ typed \in TypedLine
  /\ encoding = "line"
  /\ message = NotSent \/ message = SerializeReplCommand(Command)

MessageInv ==
  /\ (client = "other" /\ message \in Message) \/ WrittenByClient
  /\ outcome = Pending \/ (message # NotSent /\ outcome = Handle(message, encoding))

LEMMA NotSentIsNone ==
  NotSent \notin Message /\ NotSent.syntax = "none"
BY DEF NotSent, Message

\* What can come of a typed line, with the parts that it needs.
LEMMA CommandCases ==
  ASSUME NEW line \in TypedLine
  PROVE  LET command == ParseReplCommand(line)
         IN  \/ command.kind \in ReplVerbs
             \/ /\ command.kind \in NumberVerbs /\ command.n \in Number \ {Bad}
                /\ command.kind = "rate" => command.n # 0
             \/ command.kind = "enqueue" /\ command.n \in Number \ {Bad}
             \/ command.kind = "pipe" /\ command.line \in Message
             \/ command.kind \in {"help", "quit", "unparsed"}
<1>1. CASE line \in [word : Verbs \cup {"help", "quit", "other"}, number : Number]
  BY <1>1 DEF ParseReplCommand, ReplVerbs, NumberVerbs, PlainVerbs, Verbs, Unparsed
<1>2. CASE line \in [word : {"enqueue"}, number : Number, body : BOOLEAN]
  BY <1>2 DEF ParseReplCommand, ReplVerbs, NumberVerbs, PlainVerbs, Verbs, Unparsed
<1>3. CASE line \in [word : {"pipe"}, line : Message \cup {Empty}]
  BY <1>3 DEF ParseReplCommand, ReplVerbs, NumberVerbs, PlainVerbs, Verbs, Unparsed
<1>4. QED BY <1>1, <1>2, <1>3 DEF TypedLine

LEMMA MessageInvInit ==
  Init => MessageInv
<1> SUFFICES ASSUME Init PROVE MessageInv
  OBVIOUS
<1>1. outcome = Pending
  BY DEF Init
<1>2. (client = "other" /\ message \in Message) \/ WrittenByClient
  BY DEF Init, WrittenByClient
<1>3. QED BY <1>1, <1>2 DEF MessageInv

LEMMA MessageInvStep ==
  MessageInv /\ [Next]_vars => MessageInv'
<1> SUFFICES ASSUME MessageInv, [Next]_vars PROVE MessageInv'
  OBVIOUS
<1>1. CASE ForwardReplLine
  <2>1. Command' = Command
    BY <1>1 DEF ForwardReplLine, Command
  <2>2. outcome = Pending
    BY <1>1 DEF ForwardReplLine, MessageInv
  <2>3. client # "other"
    BY <1>1 DEF ForwardReplLine
  <2>4. client \in {"reading", "closed"} /\ typed \in TypedLine /\ encoding = "line"
    BY <2>3 DEF MessageInv, WrittenByClient
  <2>5. /\ message' = SerializeReplCommand(Command)
        /\ UNCHANGED <<typed, encoding, client, outcome>>
    BY <1>1 DEF ForwardReplLine
  <2>6. WrittenByClient'
    BY <2>1, <2>4, <2>5 DEF WrittenByClient
  <2>7. QED BY <2>2, <2>5, <2>6 DEF MessageInv
<1>2. CASE ClosesPipe
  BY <1>2 DEF ClosesPipe, MessageInv, WrittenByClient, Command
<1>3. CASE HandleMessage
  BY <1>3 DEF HandleMessage, MessageInv, WrittenByClient, Command
<1>4. CASE UNCHANGED vars
  BY <1>4 DEF vars, MessageInv, WrittenByClient, Command
<1>5. QED BY <1>1, <1>2, <1>3, <1>4 DEF Next, StaysSilent, Handled

\* Typing, writing and handling a message keep MessageInv
\* (run_pipe_client, forward_commands).
THEOREM MessageInvInvariant ==
  Spec => []MessageInv
BY MessageInvInit, MessageInvStep, PTL DEF Spec

-----------------------------------------------------------------------------
(* The theorems *)

LEMMA MessageIsMessage ==
  MessageInv => message = NotSent \/ message \in Message
<1> SUFFICES ASSUME MessageInv, client \in {"reading", "closed"},
                    message = SerializeReplCommand(Command), message # NotSent
             PROVE  message \in Message
  BY DEF MessageInv, WrittenByClient
<1>1. typed \in TypedLine
  BY DEF MessageInv, WrittenByClient
<1>2. /\ ReplVerbs \subseteq PlainVerbs
      /\ \A kind \in ReplVerbs : kind \notin NumberVerbs /\ kind \notin {"enqueue", "pipe"}
      /\ \A kind \in NumberVerbs : kind \notin {"enqueue", "pipe"}
      /\ \A kind \in {"enqueue", "pipe", "help", "quit", "unparsed"} :
           kind \notin ReplVerbs /\ kind \notin NumberVerbs
  BY DEF ReplVerbs, PlainVerbs, NumberVerbs
<1>3. CASE Command.kind \in ReplVerbs
  BY <1>2, <1>3 DEF SerializeReplCommand, Message, Verbs, Number
<1>4. CASE Command.kind \in NumberVerbs /\ Command.n \in Number
  BY <1>2, <1>4 DEF SerializeReplCommand, Message, Verbs
<1>5. CASE Command.kind = "enqueue" /\ Command.n \in Number
  BY <1>2, <1>5 DEF SerializeReplCommand, Message
<1>6. CASE Command.kind = "pipe" /\ Command.line \in Message
  BY <1>2, <1>6 DEF SerializeReplCommand
<1>7. CASE Command.kind \in {"help", "quit", "unparsed"}
  BY <1>2, <1>7 DEF SerializeReplCommand
<1>8. QED BY <1>1, <1>3, <1>4, <1>5, <1>6, <1>7, CommandCases DEF Command

\* No message in any syntax lets a zero tick rate through, so that the
\* dispatcher's assertion cannot fire (parse_control_instruction,
\* parse_control_value, parse_jsonrpc_request).
THEOREM RatesArePositive ==
  Spec => []NoZeroRate
<1>1. MessageInv => NoZeroRate
  <2> SUFFICES ASSUME MessageInv, outcome.event.kind = "rate"
               PROVE  outcome.event.n > 0
    BY DEF NoZeroRate
  <2>1. outcome # Pending
    BY DEF Pending
  <2>2. message \in Message /\ outcome = Handle(message, encoding)
    BY <2>1, MessageIsMessage DEF MessageInv
  <2>3. IsEvent(outcome.event)
    BY <2>2, HandleEvents
  <2>4. PICK n \in Number : outcome.event.n = n /\ n # Bad /\ n # 0
    <3>1. outcome.event # NoEvent
      BY DEF NoEvent
    <3>2. \A kind \in PlainVerbs \cup {"note"} : outcome.event # Event(kind)
      BY VerbsApart DEF Event
    <3>3. PICK kind \in NumberVerbs \cup {"scheduled"}, n \in Number :
                 outcome.event = EventWith(kind, n) /\ n # Bad /\ (kind = "rate" => n # 0)
      BY <2>3, <3>1, <3>2 DEF IsEvent
    <3>4. outcome.event.kind = kind /\ outcome.event.n = n
      BY <3>3 DEF EventWith
    <3>5. QED BY <3>3, <3>4
  <2>5. QED BY <2>4 DEF Number, Bad
<1>2. QED BY <1>1, MessageInvInvariant, PTL

\* Every instruction is understood alike as JSON-RPC, as JSON object and as
\* words, in a line and in a frame (forward_commands and its parsers).
THEOREM SyntaxesMeanTheSame ==
  Spec => []SyntaxesAgree
<1>1. MessageInv => SyntaxesAgree
  <2> SUFFICES ASSUME MessageInv, message.syntax = "rpc", message.wellFormed,
                      message.method \in Verbs, outcome # Pending,
                      NEW s \in {"words", "typed"}
               PROVE  outcome.event =
                        Handle([syntax |-> s, verb |-> message.method,
                                number |-> NumberIn(message.params)], "line").event
    BY DEF SyntaxesAgree
  <2>1. message \in Message /\ outcome = Handle(message, encoding)
    BY MessageIsMessage DEF MessageInv
  <2>2. outcome.event = ParseMethod(message).event
    BY <2>1, HandleRpcEvent DEF Handle, ParseRpc
  <2>3. /\ ParseMethod(message).event =
             ParseWords(message.method, NumberIn(message.params)).event
        /\ ParseMethod(message).event =
             ParseTyped(message.method, NumberIn(message.params)).event
    BY <2>1, RpcFields, MethodParses
  <2>4. QED BY <2>2, <2>3 DEF Handle
<1>2. QED BY <1>1, MessageInvInvariant, PTL

\* Every JSON-RPC request becomes an event or an error reply in the encoding
\* it came in (forward_commands, try_handle_messagepack_frame).
THEOREM RpcNeverIgnored ==
  Spec => []RpcIsAnswered
<1>1. MessageInv => RpcIsAnswered
  <2> SUFFICES ASSUME MessageInv, outcome # Pending, message.syntax = "rpc"
               PROVE  \/ outcome.event.kind \in Verbs \cup {"note"}
                      \/ /\ outcome.reply.result = "error"
                         /\ outcome.reply.encoding = encoding
    BY DEF RpcIsAnswered
  <2>1. message \in Message /\ outcome = Handle(message, encoding)
    BY MessageIsMessage DEF MessageInv
  <2>2. outcome = HandleRpc(message, encoding)
    BY <2>1 DEF Handle
  <2>3. ParseRpc(message).event = NoEvent
        \/ ParseRpc(message).event.kind \in Verbs \cup {"note"}
    BY <2>1, RpcFields, MethodParses DEF ParseRpc, Fails
  <2>4. CASE ParseRpc(message).event = NoEvent
    BY <2>2, <2>4 DEF HandleRpc
  <2>5. CASE ParseRpc(message).event.kind \in Verbs \cup {"note"}
    BY <2>2, <2>5, HandleRpcEvent
  <2>6. QED BY <2>3, <2>4, <2>5
<1>2. QED BY <1>1, MessageInvInvariant, PTL

\* What is typed at the pipe-mode client means at the server what it means in
\* local mode (serialize_repl_command and the listener's parsers).
THEOREM TypedRemotelyAsLocally ==
  Spec => []RemoteMeansLocal
<1>1. ASSUME NEW line \in TypedLine,
             NEW command, command = ParseReplCommand(line),
             NEW sent, sent = SerializeReplCommand(command)
      PROVE  /\ sent = NotSent => LocalEvent(command) = NoEvent
             /\ sent # NotSent =>
                  \/ command.kind = "pipe" /\ LocalEvent(command) = NoEvent
                  \/ Handle(sent, "line")
                       = [event |-> LocalEvent(command), reply |-> NoReply]
  <2>1. /\ \A kind \in ReplVerbs : /\ kind \in PlainVerbs /\ kind \notin NumberVerbs
                                   /\ kind \notin {"enqueue", "pipe"}
        /\ \A kind \in NumberVerbs : /\ kind \notin ReplVerbs /\ kind \notin PlainVerbs
                                     /\ kind \notin {"enqueue", "pipe", "other"}
        /\ \A kind \in {"enqueue", "pipe", "help", "quit", "unparsed"} :
             kind \notin ReplVerbs /\ kind \notin NumberVerbs
    BY DEF ReplVerbs, PlainVerbs, NumberVerbs
  <2>2. CASE command.kind \in ReplVerbs
    <3>1. /\ sent = [syntax |-> "words", verb |-> command.kind, number |-> Bad]
          /\ LocalEvent(command) = Event(command.kind)
      BY <1>1, <2>1, <2>2 DEF SerializeReplCommand, LocalEvent
    <3>2. QED BY <2>1, <2>2, <3>1, NotSentIsNone DEF Handle, ParseWords, Is
  <2>3. CASE /\ command.kind \in NumberVerbs /\ command.n \in Number \ {Bad}
             /\ command.kind = "rate" => command.n # 0
    <3>1. /\ sent = [syntax |-> "words", verb |-> command.kind, number |-> command.n]
          /\ LocalEvent(command) = EventWith(command.kind, command.n)
      BY <1>1, <2>1, <2>3 DEF SerializeReplCommand, LocalEvent
    <3>2. QED BY <2>1, <2>3, <3>1, NotSentIsNone DEF Handle, ParseWords, Is
  <2>4. CASE command.kind = "enqueue" /\ command.n \in Number \ {Bad}
    <3>1. /\ sent = [syntax |-> "pipe", timestamp |-> command.n]
          /\ LocalEvent(command) = EventWith("scheduled", command.n)
      BY <1>1, <2>1, <2>4 DEF SerializeReplCommand, LocalEvent
    <3>2. QED BY <2>4, <3>1, NotSentIsNone DEF Handle
  <2>5. CASE command.kind = "pipe" /\ command.line \in Message
    <3>1. /\ sent = command.line /\ sent # NotSent
      BY <1>1, <2>1, <2>5, NotSentIsNone DEF SerializeReplCommand
    <3>2. CASE sent.syntax = "pipe" /\ sent.timestamp # Bad
      <4>1. LocalEvent(command) = EventWith("scheduled", sent.timestamp)
        BY <2>1, <2>5, <3>1, <3>2 DEF LocalEvent
      <4>2. QED BY <3>1, <3>2, <4>1 DEF Handle
    <3>3. CASE ~(sent.syntax = "pipe" /\ sent.timestamp # Bad)
      <4>1. LocalEvent(command) = NoEvent
        BY <2>1, <2>5, <3>1, <3>3 DEF LocalEvent
      <4>2. QED BY <2>5, <3>1, <4>1
    <3>4. QED BY <3>2, <3>3
  <2>6. CASE command.kind \in {"help", "quit", "unparsed"}
    BY <1>1, <2>1, <2>6 DEF SerializeReplCommand, LocalEvent
  <2>7. QED BY <1>1, <2>2, <2>3, <2>4, <2>5, <2>6, CommandCases
<1>2. MessageInv => RemoteMeansLocal
  <2> SUFFICES ASSUME MessageInv, client # "other" PROVE RemoteMeansLocal
    BY DEF RemoteMeansLocal
  <2>1. /\ typed \in TypedLine /\ encoding = "line"
        /\ message \in {NotSent, SerializeReplCommand(Command)}
        /\ outcome # Pending => message # NotSent /\ outcome = Handle(message, encoding)
    BY DEF MessageInv, WrittenByClient
  <2>2. QED BY <1>1, <2>1 DEF Command, RemoteMeansLocal
<1>3. QED BY <1>2, MessageInvInvariant, PTL

=============================================================================
