---------------------------- MODULE RunLifecycle ----------------------------
(* What a task run promises to the people and programs that watch it, before *)
(* any of the bookkeeping that keeps the promise: the status moves along the *)
(* table of packages/orchestration/state.py, work finishes once and for all, *)
(* a run rests (paused, waiting_user) only when nothing it started is open,  *)
(* and an outcome nobody knows ends the run without success.                 *)
EXTENDS Naturals

CONSTANT Work            \* names of the units of work a run can finish

VARIABLES status,        \* the run's status
          finished,      \* the work finished so far
          open,          \* some tool call is executing
          doubt          \* some tool call ended with an unknown outcome

lifecycleVars == <<status, finished, open, doubt>>

RunStatus == {"planning", "waiting_user", "running", "verifying", "paused",
              "completed", "blocked", "failed", "cancelled"}

Terminal == {"completed", "blocked", "failed", "cancelled"}

Resting == {"paused", "waiting_user"}

\* _TRANSITIONS
Successors(st) ==
    CASE st = "planning"     -> {"running", "waiting_user", "paused", "failed", "cancelled"}
      [] st = "waiting_user" -> {"planning", "running", "cancelled", "failed"}
      [] st = "running"      -> {"planning", "verifying", "waiting_user", "paused",
                                 "blocked", "failed", "cancelled"}
      [] st = "verifying"    -> {"planning", "running", "completed", "waiting_user",
                                 "blocked", "failed", "cancelled"}
      [] st = "paused"       -> {"running", "cancelled", "failed"}
      [] OTHER               -> {}

LifecycleInit ==
    /\ status = "planning"
    /\ finished = {}
    /\ open = FALSE
    /\ doubt = FALSE

(* Calls start and settle, work finishes, only while the run is running, and *)
(* nothing starts once an outcome is in doubt.                               *)
Progress ==
    /\ status = "running"
    /\ status' = status
    /\ finished \subseteq finished'
    /\ finished' \subseteq Work
    /\ open' \in BOOLEAN
    /\ doubt' \in BOOLEAN
    /\ doubt => doubt' /\ (open' => open)

(* The user marks work as skipped while the run is paused.                   *)
Revise ==
    /\ status = "paused"
    /\ finished \subseteq finished'
    /\ finished' \subseteq Work
    /\ UNCHANGED <<status, open, doubt>>

(* The run moves.  It comes to rest, is verified or completes only with      *)
(* nothing open and nothing in doubt; leaving for a terminal status turns    *)
(* what is still open into doubt.                                            *)
Move(st) ==
    /\ st \in Successors(status)
    /\ status' = st
    /\ finished \subseteq finished'
    /\ finished' \subseteq Work
    /\ open' = FALSE
    /\ doubt' = (doubt \/ open)
    /\ st \notin Terminal \/ st = "completed" => ~open /\ ~doubt

LifecycleNext ==
    \/ Progress
    \/ Revise
    \/ \E st \in RunStatus : Move(st)

Lifecycle == LifecycleInit /\ [][LifecycleNext]_lifecycleVars
=============================================================================
