-------------------------- MODULE MCSimulationClient --------------------------
(* An instance of SimulationClient. *)
EXTENDS SimulationClient, SequencesExt

\* All sources of two lines, and those of three in which start gets past the
\* first line in one call or needs another.
AllSources ==
  BoundedSeq(Line, 2)
    \cup {s \in SeqOf(Line, 3) : Len(s) = 3 /\ s[1].kind \in {"command", "garbage"}
                                            /\ s[2].kind \in {"command", "blank"}
                                            /\ s[3] = [kind |-> "command", timestamp |-> 1]}
=============================================================================
