---------------------------- MODULE MCAgentHost ----------------------------
(* Small instances of AgentHost for TLC.                                     *)
EXTENDS AgentHost, TLC

CONSTANTS w1, w2, p, r, a1, a2, c, p1, p2

Message(command, key, question) == [command |-> command, key |-> key, question |-> question]

\* Each command once; sent again, it is a repetition.
MCOnce == {Message("pause", p, 1), Message("resume", r, 1), Message("cancel", c, 1),
           Message("answer", a1, 1), Message("answer", a2, 2)}

\* Two clients pause the run, and one cancels it.
MCTwoPauses == {Message("pause", p1, 1), Message("pause", p2, 1), Message("cancel", c, 1)}

\* The slots for requests are interchangeable.
MCSymmetry == Permutations(Handlers)
=============================================================================
