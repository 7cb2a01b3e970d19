---------------------------- MODULE MCReferences ----------------------------
(* Model values for the run on references that a plan is bound to.           *)
EXTENDS References

MCThis == {{Mention("this", "dataset", 0)}}
MCWordings ==
    {{}, {Mention("latest", "dataset", 0)}, {Mention("this", "dataset", 0)}, {Mention("file", "dataset", 1)},
     {Mention("first", "dataset", 0)},
     {Mention("latest", "chart", 0), Mention("this", "dataset", 0)}}
=============================================================================
