----------------------------- MODULE ToolResult -----------------------------
(* The data set one call of transform_dataset or join_datasets derives: a    *)
(* file written by the tool's thread, a row registered by a second thread    *)
(* (finalize in execute_mcp, apps/orchestrator/agent_tools.py), and the      *)
(* invocation commit_tool_success binds it to in a third.  The host of the   *)
(* run waits for each in turn and may be stopped, by a timeout or by the     *)
(* cancellation of its task, while the thread goes on: whoever is last has   *)
(* to clean up.  The tool runs in process (_InProcessCallLease,              *)
(* mcp_servers/common/client_gateway.py).                                    *)
EXTENDS Naturals

CONSTANT MaxAttempts    \* _ABANDONED_CLEANUP_MAX_ATTEMPTS

ASSUME AttemptsAssumption == MaxAttempts \in Nat \ {0}

VARIABLES
    file, row, bound,   \* the Parquet file, the datasets row, the committed invocation
    host,               \* where the host of the run is
    worker,             \* the thread that runs the tool
    published,          \* _InProcessCallLease._result is set
    abandoned,          \* _InProcessCallLease._abandoned
    sweeping,           \* _InProcessCallLease._cleanup_started
    sweep, tries,       \* _cleanup_with_retry: the recorded state, failed attempts
    finalizer,          \* the thread that registers the row
    owned,              \* _derived_ownership has an entry for the invocation
    registered,         \* _DerivedResultOwnership.registered
    dropped,            \* the threading.Event abandoned of execute_mcp
    cleaner, seen,      \* _cleanup_derived_ownership: how far each caller is, what it read
    commit              \* the thread that commits

leaseVars == <<worker, published, abandoned, sweeping, sweep, tries>>
finalVars == <<finalizer, owned, registered, dropped, cleaner, seen>>
resultVars == <<file, row, bound, host, leaseVars, finalVars, commit>>
-----------------------------------------------------------------------------
(* call, finalize, commit: awaits that thread.                               *)
(* boundary: _controlled_run_boundary.  undo: in cleanup_uncommitted_result  *)
(* before it goes on to raise or return.  released: the result is committed  *)
(* and no longer owned.  leaving: in the finally that calls registry.aclose. *)
(* closing: aclose cleans up.                                                *)
Hosts == {"call", "finalize", "boundary", "commit", "undo", "released", "leaving", "closing",
          "ended", "closingReleased", "endedReleased"}
Cleaners == {"host", "finalizer"}
Cleaning == {"none", "read", "unlist", "unlink"}

ResultTypeOK ==
    /\ {file, row, bound, published, abandoned, sweeping, owned, registered, dropped}
           \subseteq BOOLEAN
    /\ host \in Hosts
    /\ worker \in {"running", "written", "done", "invalid"}
    /\ sweep \in {"none", "pending", "running", "completed", "failed"}
    /\ tries \in 0..MaxAttempts
    /\ finalizer \in {"none", "profile", "register", "mark", "finally", "done"}
    /\ cleaner \in [Cleaners -> Cleaning]
    /\ seen \in [Cleaners -> BOOLEAN]
    /\ commit \in {"none", "running", "done", "failed"}

ResultInit ==
    /\ file = FALSE /\ row = FALSE /\ bound = FALSE
    /\ host = "call"
    /\ worker = "running"
    /\ published = FALSE /\ abandoned = FALSE /\ sweeping = FALSE
    /\ sweep = "none" /\ tries = 0
    /\ finalizer = "none"
    /\ owned = FALSE /\ registered = FALSE /\ dropped = FALSE
    /\ cleaner = [c \in Cleaners |-> "none"]
    /\ seen = [c \in Cleaners |-> FALSE]
    /\ commit = "none"
-----------------------------------------------------------------------------
(* The tool's thread and its lease.                                          *)
WriteFile ==
    /\ worker = "running"
    /\ file' = TRUE
    /\ worker' = "written"
    /\ UNCHANGED <<row, bound, host, published, abandoned, sweeping, sweep, tries, finalVars,
                   commit>>

\* publish: whoever comes second, this thread or the one that abandons, cleans up.
PublishResult ==
    /\ worker = "written"
    /\ published' = TRUE
    /\ sweeping' = (sweeping \/ abandoned)
    /\ sweep' = IF abandoned /\ ~sweeping THEN "running" ELSE sweep
    /\ worker' = "done"
    /\ UNCHANGED <<file, row, bound, host, abandoned, tries, finalVars, commit>>

\* The tool raises; what it had written it has taken away.
ToolFails ==
    /\ worker = "running"
    /\ worker' = "done"
    /\ host' = IF host = "call" THEN "leaving" ELSE host
    /\ UNCHANGED <<file, row, bound, published, abandoned, sweeping, sweep, tries, finalVars,
                   commit>>

\* The adapter refuses what the tool returned (invalid_tool_output): the error names no
\* file, so nobody will look for the one that was written.
RefuseOutput ==
    /\ worker = "written"
    /\ worker' = "invalid"
    /\ host' = IF host = "call" THEN "leaving" ELSE host
    /\ UNCHANGED <<file, row, bound, published, abandoned, sweeping, sweep, tries, finalVars,
                   commit>>

\* abandon, when the await of the call times out or is cancelled.
AbandonCall ==
    /\ host = "call"
    /\ abandoned' = TRUE
    /\ sweeping' = published
    /\ sweep' = IF published THEN "running" ELSE "pending"
    /\ host' = "leaving"
    /\ UNCHANGED <<file, row, bound, worker, published, tries, finalVars, commit>>

\* One round of _cleanup_with_retry over _cleanup_abandoned_mcp_result.
Sweep ==
    /\ sweep = "running"
    /\ \/ file' = FALSE /\ sweep' = "completed" /\ UNCHANGED tries
       \/ /\ tries' = tries + 1
          /\ sweep' = IF tries + 1 < MaxAttempts THEN "running" ELSE "failed"
          /\ UNCHANGED file
    /\ UNCHANGED <<row, bound, host, worker, published, abandoned, sweeping, finalVars, commit>>
-----------------------------------------------------------------------------
(* _cleanup_derived_ownership, for the host and for the finalizer.           *)
CleanRead(c) ==
    /\ cleaner[c] = "read"
    /\ seen' = [seen EXCEPT ![c] = row]
    /\ cleaner' = [cleaner EXCEPT ![c] = "unlist"]
    /\ UNCHANGED <<file, row, bound, host, leaseVars, finalizer, owned, registered, dropped,
                   commit>>

CleanRow(c) ==
    /\ cleaner[c] = "unlist"
    /\ row' = (row /\ ~(registered /\ seen[c]))
    /\ cleaner' = [cleaner EXCEPT ![c] = "unlink"]
    /\ UNCHANGED <<file, bound, host, leaseVars, finalizer, owned, registered, dropped, seen,
                   commit>>

CleanFile(c) ==
    /\ cleaner[c] = "unlink"
    /\ file' = FALSE
    /\ cleaner' = [cleaner EXCEPT ![c] = "none"]
    /\ UNCHANGED <<row, bound, host, leaseVars, finalizer, owned, registered, dropped, seen,
                   commit>>

\* cleanup_uncommitted_result: the entry is popped by whoever comes first.
StartsCleanup ==
    /\ owned' = FALSE
    /\ cleaner' = [cleaner EXCEPT !["host"] = IF owned THEN "read" ELSE @]
-----------------------------------------------------------------------------
(* The finalizer's thread.                                                   *)
Finalizes(from, to) ==
    /\ finalizer = from
    /\ finalizer' = to
    /\ UNCHANGED <<file, bound, host, leaseVars, owned, dropped, seen, commit>>

\* infer_schema reads the file; without it, it raises.
ProfileFile ==
    /\ \/ file /\ Finalizes("profile", "register")
       \/ Finalizes("profile", "finally")
    /\ UNCHANGED <<row, registered, cleaner>>

\* store.register_dataset
RegisterRow ==
    /\ \/ row' = TRUE /\ Finalizes("register", "mark")
       \/ UNCHANGED row /\ Finalizes("register", "finally")
    /\ UNCHANGED <<registered, cleaner>>

MarkRegistered ==
    /\ Finalizes("mark", "finally")
    /\ registered' = TRUE
    /\ UNCHANGED <<row, cleaner>>

\* Mutant: an abandoned result is not cleaned up.
FinallyNothing ==
    /\ Finalizes("finally", "done")
    /\ UNCHANGED <<row, registered, cleaner>>

Finally ==
    /\ Finalizes("finally", "done")
    /\ cleaner' = [cleaner EXCEPT !["finalizer"] = IF dropped THEN "read" ELSE @]
    /\ UNCHANGED <<row, registered>>
-----------------------------------------------------------------------------
(* The host.                                                                 *)
\* _claim_derived_result, and the finalizer is started.
ClaimResult ==
    /\ host = "call" /\ published
    /\ owned' = TRUE
    /\ finalizer' = "profile"
    /\ host' = "finalize"
    /\ UNCHANGED <<file, row, bound, leaseVars, registered, dropped, cleaner, seen, commit>>

Finalized == finalizer = "done" /\ cleaner["finalizer"] = "none"

\* The finalizer is over: the result is registered, or the host cleans up.
GetFinalized ==
    /\ host = "finalize" /\ Finalized
    /\ \/ registered /\ host' = "boundary" /\ UNCHANGED <<owned, cleaner>>
       \/ ~registered /\ host' = "undo" /\ StartsCleanup
    /\ UNCHANGED <<file, row, bound, leaseVars, finalizer, registered, dropped, seen, commit>>

\* The await of the finalizer times out or is cancelled.
AbandonFinalizer ==
    /\ host = "finalize"
    /\ dropped' = TRUE
    /\ host' = "undo"
    /\ StartsCleanup
    /\ UNCHANGED <<file, row, bound, leaseVars, finalizer, registered, seen, commit>>

\* _controlled_run_boundary: the run goes on, or it is over and the result is dropped.
PassBoundary ==
    /\ host = "boundary"
    /\ \/ host' = "commit" /\ commit' = "running" /\ UNCHANGED <<owned, cleaner>>
       \/ host' = "undo" /\ StartsCleanup /\ UNCHANGED commit
    /\ UNCHANGED <<file, row, bound, leaseVars, finalizer, registered, dropped, seen>>

\* The thread of commit_tool_success.
CommitResult ==
    /\ commit = "running"
    /\ \/ commit' = "done" /\ bound' = TRUE
       \/ commit' = "failed" /\ UNCHANGED bound
    /\ UNCHANGED <<file, row, host, leaseVars, finalVars>>

\* Mutant: the host keeps owning what it has committed.
GetCommittedOwned ==
    /\ host = "commit"
    /\ \/ /\ commit = "done"
          /\ host' = "released"
          /\ UNCHANGED <<owned, cleaner>>
       \/ commit = "failed" /\ host' = "undo" /\ StartsCleanup
    /\ UNCHANGED <<file, row, bound, leaseVars, finalizer, registered, dropped, seen, commit>>

\* release_committed_result, or the cleanup after a failed commit.
GetCommitted ==
    /\ host = "commit"
    /\ \/ /\ commit = "done"
          /\ owned' = FALSE
          /\ host' = "released"
          /\ UNCHANGED cleaner
       \/ commit = "failed" /\ host' = "undo" /\ StartsCleanup
    /\ UNCHANGED <<file, row, bound, leaseVars, finalizer, registered, dropped, seen, commit>>

Undone ==
    /\ host \in {"undo", "closing", "closingReleased"} /\ cleaner["host"] = "none"
    /\ host' = CASE host = "undo" -> "leaving"
                 [] host = "closing" -> "ended"
                 [] OTHER -> "endedReleased"
    /\ UNCHANGED <<file, row, bound, leaseVars, finalVars, commit>>

\* AgentRunManager.shutdown cancels the task of the host at one of its awaits.
CancelHost ==
    /\ host \in {"boundary", "commit"}
    /\ host' = "leaving"
    /\ UNCHANGED <<file, row, bound, leaseVars, finalVars, commit>>

\* stream_agent_chat's finally: registry.aclose
CloseRegistry ==
    /\ host \in {"leaving", "released"}
    /\ host' = IF host = "released" THEN "closingReleased" ELSE "closing"
    /\ StartsCleanup
    /\ UNCHANGED <<file, row, bound, leaseVars, finalizer, registered, dropped, seen, commit>>

ResultNext ==
    \/ WriteFile \/ PublishResult \/ ToolFails \/ RefuseOutput \/ AbandonCall \/ Sweep
    \/ \E c \in Cleaners : CleanRead(c) \/ CleanRow(c) \/ CleanFile(c)
    \/ ProfileFile \/ RegisterRow \/ MarkRegistered \/ Finally
    \/ ClaimResult \/ GetFinalized \/ AbandonFinalizer \/ PassBoundary
    \/ CommitResult \/ GetCommitted \/ Undone \/ CancelHost \/ CloseRegistry

ResultSpec == ResultInit /\ [][ResultNext]_resultVars
-----------------------------------------------------------------------------
\* The host has left and no thread is under way.
Settled ==
    /\ host \in {"ended", "endedReleased"}
    /\ worker \in {"done", "invalid"} /\ sweep # "running"
    /\ finalizer \in {"none", "done"}
    /\ \A c \in Cleaners : cleaner[c] = "none"
    /\ commit # "running"

(* Nothing is left of a result that was not committed, neither row nor file, *)
(* in whatever order the host gave up and its threads ended.  Two things     *)
(* leave the file: a cleanup whose attempts all failed, which is recorded as *)
(* failed, and an output the adapter refused after the tool had written it.  *)
NothingLeft ==
    Settled /\ ~bound => ~row /\ (file => sweep = "failed" \/ worker = "invalid")

(* A result whose ownership was released with its commit stays: no thread    *)
(* that was given up before comes back for its row or its file.              *)
ReleasedStays ==
    host \in {"released", "closingReleased", "endedReleased"} => bound /\ row /\ file

(* Both halves of what becomes of a result.                                  *)
ResultSound == NothingLeft /\ ReleasedStays
=============================================================================
