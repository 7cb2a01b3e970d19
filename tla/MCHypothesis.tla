---------------------------- MODULE MCHypothesis ----------------------------
(* A small instance of Hypothesis for TLC: up to two columns of each role,   *)
(* all doubtful ones or none, and a catalogue that allows all kinds or two.  *)
EXTENDS Hypothesis

MCProfiles ==
    {[sure |-> s, doubtful |-> [r \in DataRoles |-> d], allowed |-> a] :
        s \in [DataRoles -> 0..2], d \in 0..1, a \in {Kinds, {"trend", "anomaly"}}}
=============================================================================
