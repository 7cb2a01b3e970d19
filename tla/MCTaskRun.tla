----------------------------- MODULE MCTaskRun -----------------------------
(* Small instances of TaskRun for TLC.  A chain: a plan of two steps, the    *)
(* second needing the first, a read-only call and one that derives a data    *)
(* set.  A frontier: two independent steps and two read-only calls.          *)
EXTENDS TaskRun

CONSTANTS load, model,          \* steps
          profile, chart, derive \* calls

MCSteps == {load, model}
MCDeps == [s \in MCSteps |-> IF s = model THEN {load} ELSE {}]

\* Independent steps, so that a parallel frontier exists.
MCNoDeps == [s \in MCSteps |-> {}]

\* One call either step can use, one that derives a dataset for the second.
MCCalls == {profile, derive}
MCTool == [c \in MCCalls |-> c]
MCCapable == [c \in MCCalls |-> IF c = profile THEN {load, model} ELSE {model}]

\* Two calls of the frontier and one it must refuse.
MCBatchCalls == {profile, chart, derive}
MCBatchTool == [c \in MCBatchCalls |-> c]
MCBatchCapable == [c \in MCBatchCalls |-> IF c = derive THEN {model} ELSE {load, model}]
=============================================================================
