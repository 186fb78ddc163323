----------------------------- MODULE AsyncJoin -----------------------------
(***************************************************************************)
(* What src/async_task.c promises to the rest of ucd, and nothing of how   *)
(* it keeps the promise: work is launched while the program runs, every    *)
(* piece of work ends at a moment of its own, and the join at the end      *)
(* (async_task_finish) returns only when no work is left.  A job is a      *)
(* function pushed to the thread pool or a command started with            *)
(* async_task_exec.                                                        *)
(***************************************************************************)
CONSTANT Jobs

VARIABLES
    job,      \* job[j]: "idle", "active" or "done"
    joined    \* TRUE once async_task_finish has returned

vars == <<job, joined>>

JobStates == {"idle", "active", "done"}

TypeOK ==
    /\ job \in [Jobs -> JobStates]
    /\ joined \in BOOLEAN

Init ==
    /\ job = [j \in Jobs |-> "idle"]
    /\ joined = FALSE

Active == {j \in Jobs : job[j] = "active"}

(* Work is accepted only before the join. *)
Launch(j) ==
    /\ ~joined
    /\ job[j] = "idle"
    /\ job' = [job EXCEPT ![j] = "active"]
    /\ UNCHANGED joined

Complete(j) ==
    /\ job[j] = "active"
    /\ job' = [job EXCEPT ![j] = "done"]
    /\ UNCHANGED joined

(* The join returns only when nothing is running. *)
Join ==
    /\ ~joined
    /\ Active = {}
    /\ joined' = TRUE
    /\ UNCHANGED job

Next ==
    \/ \E j \in Jobs : Launch(j) \/ Complete(j)
    \/ Join

Spec == Init /\ [][Next]_vars
=============================================================================
