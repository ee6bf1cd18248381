--------------------------- MODULE MCFrameDecoder ---------------------------
(* Messages for FrameDecoder, 10 is the newline. *)
EXTENDS FrameDecoder

AFrame(bytes) == [kind |-> "frame", bytes |-> bytes]
ALine(bytes) == [kind |-> "line", bytes |-> bytes]

\* Frames that hold newlines, whole prefixes or a newline as their length, and
\* lines that are empty, short, or longer than a prefix.
SafeMessages == {
  AFrame(<<10>>), AFrame(<<0, 0, 0, 1, 10>>), AFrame([i \in 1 .. 10 |-> 10]),
  ALine(<<>>), ALine(<<50>>), ALine(<<49, 0, 0, 0, 50>>) }

\* The prefix of a frame of 2560 bytes is 0 0 10 0: a newline before its end.
NewlineInPrefix == { AFrame([i \in 1 .. 2560 |-> 50]) }
=============================================================================
