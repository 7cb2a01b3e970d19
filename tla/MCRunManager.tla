---------------------------- MODULE MCRunManager ----------------------------
(* Small instances of RunManager for TLC: two runs of one conversation.      *)
EXTENDS RunManager, TLC

CONSTANTS r1, r2, c, s1, s2, s3

MCConversationOf == [r \in {r1, r2} |-> c]

\* Readers are interchangeable, and so are fresh run ids.
MCSymmetry == Permutations(Readers) \cup Permutations(Runs)
=============================================================================
