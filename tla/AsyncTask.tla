----------------------------- MODULE AsyncTask -----------------------------
(***************************************************************************)
(* src/async_task.c: the thread pool, the commands started in the          *)
(* background, the counter of commands that have not been reported yet,    *)
(* and the join at the end of main().                                      *)
(*                                                                         *)
(* Three kinds of actors take steps.  The main thread pushes functions to  *)
(* the pool and then joins.  A pool thread runs a function, which may call *)
(* async_task_exec any number of times.  A command is a child process that *)
(* ends whenever it likes; GLib reports its end by calling                 *)
(* async_task_callback from the main loop, which runs only inside          *)
(* async_task_finish.                                                      *)
(*                                                                         *)
(* `++tasks' and `--tasks' are a load and a store each: only the first is  *)
(* done under G_LOCK(tasks).  G_LOCK(thread_pool) has no variable, since   *)
(* only the main thread ever takes it.                                     *)
(***************************************************************************)
EXTENDS Integers, FiniteSets

CONSTANTS
    Tasks,      \* functions that main() may push to the pool
    Commands,   \* commands those functions may start with async_task_exec
    NProcs,     \* get_nprocs(): the number of pool threads
    GuintMax,   \* largest value of the guint `tasks'
    Main,       \* the main thread, as the holder of a lock
    None        \* nobody, no command

ASSUME TasksAssumption == IsFiniteSet(Tasks) /\ Main \notin Tasks /\ None \notin Tasks
ASSUME CommandsAssumption == IsFiniteSet(Commands) /\ None \notin Commands
ASSUME DisjointAssumption == Tasks \cap Commands = {}
ASSUME NamesAssumption == Main # None
ASSUME NProcsAssumption == NProcs \in Nat \ {0}
ASSUME GuintAssumption == GuintMax \in Nat /\ Cardinality(Commands) < GuintMax

VARIABLES
    mainPC,     \* where the main thread is
    pool,       \* thread_pool: "null", "open", or "closing" inside g_thread_pool_free
    loop,       \* main_loop: "null", "idle", "running" or "quit"
    tasks,      \* the counter `tasks'
    tasksLock,  \* who holds G_LOCK(tasks)
    loaded,     \* the value of `tasks' a thread has loaded and not yet stored
    taskPC,     \* taskPC[t]: how far the function t has come
    command,    \* command[t]: the command t is starting inside async_task_exec
    child       \* child[c]: the process of the command c

vars == <<mainPC, pool, loop, tasks, tasksLock, loaded, taskPC, command, child>>

InExec == {"spawned", "watched", "counting"}
OnThread == {"running"} \cup InExec

MainStates == {"init", "work", "drain", "join", "loop", "callback", "reset", "done"}
TaskStates == {"new", "refused", "queued", "finished"} \cup OnThread
ChildStates == {"none", "failed", "alive", "exited", "reporting", "reported"}

TypeOK ==
    /\ mainPC \in MainStates
    /\ pool \in {"null", "open", "closing"}
    /\ loop \in {"null", "idle", "running", "quit"}
    /\ tasks \in 0..GuintMax
    /\ tasksLock \in Tasks \cup {Main, None}
    /\ loaded \in [Tasks \cup {Main} -> 0..GuintMax]
    /\ taskPC \in [Tasks -> TaskStates]
    /\ command \in [Tasks -> Commands \cup {None}]
    /\ child \in [Commands -> ChildStates]

Init ==
    /\ mainPC = "init"
    /\ pool = "null"
    /\ loop = "null"
    /\ tasks = 0
    /\ tasksLock = None
    /\ loaded = [a \in Tasks \cup {Main} |-> 0]
    /\ taskPC = [t \in Tasks |-> "new"]
    /\ command = [t \in Tasks |-> None]
    /\ child = [c \in Commands |-> "none"]

Threads == {t \in Tasks : taskPC[t] \in OnThread}

(* Unsigned arithmetic of the counter. *)
Increment(n) == IF n = GuintMax THEN 0 ELSE n + 1
Decrement(n) == IF n = 0 THEN GuintMax ELSE n - 1

-----------------------------------------------------------------------------
(* The main thread before the join.                                        *)

(* async_task_init: both objects are created, or neither is left behind;
   main() carries on in either case. *)
async_task_init ==
    /\ mainPC = "init"
    /\ \/ pool' = "open" /\ loop' = "idle"
       \/ UNCHANGED <<pool, loop>>
    /\ mainPC' = "work"
    /\ UNCHANGED <<tasks, tasksLock, loaded, taskPC, command, child>>

async_task_run(t) ==
    /\ mainPC = "work"
    /\ taskPC[t] = "new"
    /\ taskPC' = [taskPC EXCEPT ![t] = IF pool = "null" THEN "refused" ELSE "queued"]
    /\ UNCHANGED <<mainPC, pool, loop, tasks, tasksLock, loaded, command, child>>

-----------------------------------------------------------------------------
(* The pool threads.                                                       *)

(* A pool thread takes a function off the queue, also while the pool is
   being freed.  GLib's queue is first-in first-out; here any queued
   function may be next, which allows every order the threads can produce. *)
async_task_run_task(t) ==
    /\ taskPC[t] = "queued"
    /\ Cardinality(Threads) < NProcs
    /\ taskPC' = [taskPC EXCEPT ![t] = "running"]
    /\ UNCHANGED <<mainPC, pool, loop, tasks, tasksLock, loaded, command, child>>

task_return(t) ==
    /\ taskPC[t] = "running"
    /\ taskPC' = [taskPC EXCEPT ![t] = "finished"]
    /\ UNCHANGED <<mainPC, pool, loop, tasks, tasksLock, loaded, command, child>>

(* async_task_exec, 123-132: g_spawn_async starts the child or fails. *)
async_task_exec_spawn(t, c) ==
    /\ taskPC[t] = "running"
    /\ child[c] = "none"
    /\ \/ /\ child' = [child EXCEPT ![c] = "alive"]
          /\ taskPC' = [taskPC EXCEPT ![t] = "spawned"]
          /\ command' = [command EXCEPT ![t] = c]
       \/ /\ child' = [child EXCEPT ![c] = "failed"]
          /\ UNCHANGED <<taskPC, command>>
    /\ UNCHANGED <<mainPC, pool, loop, tasks, tasksLock, loaded>>

(* 134: from here on the main loop may report the end of the child. *)
async_task_exec_watch(t) ==
    /\ taskPC[t] = "spawned"
    /\ taskPC' = [taskPC EXCEPT ![t] = "watched"]
    /\ UNCHANGED <<mainPC, pool, loop, tasks, tasksLock, loaded, command, child>>

(* Fault: the counter is incremented without its lock. *)
async_task_exec_load_unlocked(t) ==
    /\ taskPC[t] = "watched"
    /\ loaded' = [loaded EXCEPT ![t] = tasks]
    /\ taskPC' = [taskPC EXCEPT ![t] = "counting"]
    /\ UNCHANGED <<mainPC, pool, loop, tasks, tasksLock, command, child>>

(* 140-141: take the lock and load the counter ... *)
async_task_exec_load(t) ==
    /\ taskPC[t] = "watched"
    /\ tasksLock = None
    /\ tasksLock' = t
    /\ loaded' = [loaded EXCEPT ![t] = tasks]
    /\ taskPC' = [taskPC EXCEPT ![t] = "counting"]
    /\ UNCHANGED <<mainPC, pool, loop, tasks, command, child>>

(* 141-144: ... and store it, release the lock, return to the function. *)
async_task_exec_store(t) ==
    /\ taskPC[t] = "counting"
    /\ tasks' = Increment(loaded[t])
    /\ tasksLock' = None
    /\ taskPC' = [taskPC EXCEPT ![t] = "running"]
    /\ command' = [command EXCEPT ![t] = None]
    /\ UNCHANGED <<mainPC, pool, loop, loaded, child>>

(* The child process ends: the kernel's doing. *)
child_exit(c) ==
    /\ child[c] = "alive"
    /\ child' = [child EXCEPT ![c] = "exited"]
    /\ UNCHANGED <<mainPC, pool, loop, tasks, tasksLock, loaded, taskPC, command>>

-----------------------------------------------------------------------------
(* The join: async_task_finish.                                            *)

(* 148-149: the pool takes no new work; g_thread_pool_free waits. *)
async_task_finish_begin ==
    /\ mainPC = "work"
    /\ mainPC' = "drain"
    /\ pool' = IF pool = "open" THEN "closing" ELSE pool
    /\ UNCHANGED <<loop, tasks, tasksLock, loaded, taskPC, command, child>>

(* Fault: g_thread_pool_free(thread_pool, false, false) does not wait. *)
async_task_finish_drained_nowait ==
    /\ mainPC = "drain"
    /\ mainPC' = "join"
    /\ pool' = "null"
    /\ UNCHANGED <<loop, tasks, tasksLock, loaded, taskPC, command, child>>

(* Fault: g_thread_pool_free(thread_pool, true, true) drops the queue. *)
async_task_finish_drained_immediate ==
    /\ mainPC = "drain"
    /\ Threads = {}
    /\ mainPC' = "join"
    /\ pool' = "null"
    /\ UNCHANGED <<loop, tasks, tasksLock, loaded, taskPC, command, child>>

(* 149-151: the wait ends when the queue is empty and every thread idle. *)
async_task_finish_drained ==
    /\ mainPC = "drain"
    /\ \A t \in Tasks : taskPC[t] \notin OnThread \cup {"queued"}
    /\ mainPC' = "join"
    /\ pool' = "null"
    /\ UNCHANGED <<loop, tasks, tasksLock, loaded, taskPC, command, child>>

(* 153-156: with the counter locked, run the main loop if it is not zero. *)
async_task_finish_join ==
    /\ mainPC = "join"
    /\ tasksLock = None
    /\ tasksLock' = Main
    /\ IF tasks > 0
       THEN mainPC' = "loop" /\ loop' = "running"
       ELSE mainPC' = "reset" /\ UNCHANGED loop
    /\ UNCHANGED <<pool, tasks, loaded, taskPC, command, child>>

Watched(c) == \A t \in Tasks : command[t] = c => taskPC[t] # "spawned"

(* Fault: the callback takes G_LOCK(tasks), which the main thread holds. *)
async_task_callback_load_locked(c) ==
    /\ mainPC = "loop"
    /\ tasksLock = None
    /\ child[c] = "exited"
    /\ Watched(c)
    /\ child' = [child EXCEPT ![c] = "reporting"]
    /\ loaded' = [loaded EXCEPT ![Main] = tasks]
    /\ mainPC' = "callback"
    /\ UNCHANGED <<pool, loop, tasks, tasksLock, taskPC, command>>

(* async_task_callback 60: the main loop reports a child that has ended
   (also one that is ready in the iteration in which quit was called) ... *)
async_task_callback_load(c) ==
    /\ mainPC = "loop"
    /\ child[c] = "exited"
    /\ Watched(c)
    /\ child' = [child EXCEPT ![c] = "reporting"]
    /\ loaded' = [loaded EXCEPT ![Main] = tasks]
    /\ mainPC' = "callback"
    /\ UNCHANGED <<pool, loop, tasks, tasksLock, taskPC, command>>

(* Fault: the loop is told to quit one command too early. *)
async_task_callback_store_early(c) ==
    /\ mainPC = "callback"
    /\ child[c] = "reporting"
    /\ tasks' = Decrement(loaded[Main])
    /\ child' = [child EXCEPT ![c] = "reported"]
    /\ loop' = IF loaded[Main] <= 2 THEN "quit" ELSE loop
    /\ mainPC' = "loop"
    /\ UNCHANGED <<pool, tasksLock, loaded, taskPC, command>>

(* Fault: a command is counted off twice, in signed arithmetic. *)
async_task_callback_store_twice(c) ==
    /\ mainPC = "callback"
    /\ child[c] = "reporting"
    /\ tasks' = loaded[Main] - 2
    /\ child' = [child EXCEPT ![c] = "reported"]
    /\ loop' = IF tasks' <= 0 THEN "quit" ELSE loop
    /\ mainPC' = "loop"
    /\ UNCHANGED <<pool, tasksLock, loaded, taskPC, command>>

(* 60-64: ... stores the counter and quits the loop at zero. *)
async_task_callback_store(c) ==
    /\ mainPC = "callback"
    /\ child[c] = "reporting"
    /\ tasks' = Decrement(loaded[Main])
    /\ child' = [child EXCEPT ![c] = "reported"]
    /\ loop' = IF tasks' = 0 THEN "quit" ELSE loop
    /\ mainPC' = "loop"
    /\ UNCHANGED <<pool, tasksLock, loaded, taskPC, command>>

(* g_main_loop_run returns to 156 once quit has been called. *)
main_loop_return ==
    /\ mainPC = "loop"
    /\ loop = "quit"
    /\ mainPC' = "reset"
    /\ UNCHANGED <<pool, loop, tasks, tasksLock, loaded, taskPC, command, child>>

(* 158-162. *)
async_task_finish_reset ==
    /\ mainPC = "reset"
    /\ tasks' = 0
    /\ tasksLock' = None
    /\ loop' = "null"
    /\ mainPC' = "done"
    /\ UNCHANGED <<pool, loaded, taskPC, command, child>>

-----------------------------------------------------------------------------
MainStep ==
    \/ async_task_init
    \/ \E t \in Tasks : async_task_run(t)
    \/ async_task_finish_begin
    \/ async_task_finish_drained
    \/ async_task_finish_join
    \/ \E c \in Commands : async_task_callback_load(c) \/ async_task_callback_store(c)
    \/ main_loop_return
    \/ async_task_finish_reset

ThreadStep(t) ==
    \/ async_task_run_task(t)
    \/ task_return(t)
    \/ \E c \in Commands : async_task_exec_spawn(t, c)
    \/ async_task_exec_watch(t)
    \/ async_task_exec_load(t)
    \/ async_task_exec_store(t)

(* main() goes on to openstack_finish and exit(): the model stops there. *)
Terminated == mainPC = "done" /\ UNCHANGED vars

Next ==
    \/ MainStep
    \/ \E t \in Tasks : ThreadStep(t)
    \/ \E c \in Commands : child_exit(c)
    \/ Terminated

Spec == Init /\ [][Next]_vars

(* The threads are scheduled, and every command ends by itself: both are
   needed, since the code puts no time limit on either. *)
Fairness ==
    /\ WF_vars(MainStep)
    /\ \A t \in Tasks : WF_vars(ThreadStep(t))
    /\ \A c \in Commands : WF_vars(child_exit(c))

FairSpec == Spec /\ Fairness

-----------------------------------------------------------------------------
(* Commands that have been started and are neither reported nor still      *)
(* inside the call of async_task_exec that started them.                   *)
Pending ==
    {c \in Commands : /\ child[c] \in {"alive", "exited", "reporting"}
                      /\ \A t \in Tasks : command[t] # c}

AfterDrain == {"join", "loop", "callback", "reset", "done"}

(* `tasks' is exactly the number of commands async_task_finish has to wait
   for, although it is loaded and stored by several threads and decremented
   without its lock: no update is lost and it never wraps below zero. *)
CounterExact == tasks = Cardinality(Pending)

(* async_task_callback may leave the lock alone because no thread is inside
   async_task_exec while the main loop runs: g_thread_pool_free has waited
   for all of them. *)
CallbackAlone ==
    mainPC \in AfterDrain => Threads = {}

(* The parts of the invariant that a step needs and that the properties
   above do not say.  A command is started by one function at a time and is
   not reported before that function is done with it. *)
OneStarter ==
    /\ \A t \in Tasks : (taskPC[t] \in InExec) <=> (command[t] # None)
    /\ \A t \in Tasks : command[t] # None => child[command[t]] \in {"alive", "exited"}
    /\ \A t, u \in Tasks : command[t] # None /\ command[t] = command[u] => t = u

(* The lock is held exactly between a load and the store that follows it, or
   by the main thread for the whole of 153-159; nobody changes the counter
   in between. *)
LockGuardsCounter ==
    /\ \A t \in Tasks : (taskPC[t] = "counting") <=> (tasksLock = t)
    /\ (mainPC \in {"loop", "callback", "reset"}) <=> (tasksLock = Main)
    /\ \A t \in Tasks : taskPC[t] = "counting" => loaded[t] = tasks
    /\ mainPC = "callback" => loaded[Main] = tasks

(* Once the pool has been drained no function is queued or running. *)
Drained ==
    mainPC \in AfterDrain => \A t \in Tasks : taskPC[t] \in {"new", "refused", "finished"}

(* The main loop is told to quit, or is not entered, only when no command is
   left to report. *)
QuitWhenReported ==
    /\ loop = "quit" => mainPC \in {"loop", "reset"}
    /\ loop = "quit" \/ mainPC \in {"reset", "done"} => Pending = {}

(* The inductive invariant: every step keeps the conjunction of the parts,
   and it implies CallbackAlone and JoinComplete.  It is what makes the
   unlocked decrement of async_task_callback correct. *)
IInv ==
    /\ TypeOK
    /\ OneStarter
    /\ LockGuardsCounter
    /\ Drained
    /\ CounterExact
    /\ QuitWhenReported

(* When async_task_finish returns, each function accepted by async_task_run
   has run to its end and each command that was started has been reported:
   what openstack_finish, called next, relies on. *)
JoinComplete ==
    mainPC = "done" =>
        /\ \A t \in Tasks : taskPC[t] \in {"new", "refused", "finished"}
        /\ \A c \in Commands : child[c] \in {"none", "failed", "reported"}

(* async_task_finish returns: no wake-up of the main loop is lost, and the
   main thread does not wait for a lock that it holds. *)
JoinReturns == <>(mainPC = "done")

(* The functions and the commands are the jobs of AsyncJoin, a function from
   the push to its return, a command from its start to its report. *)
JobOf ==
    [j \in Tasks \cup Commands |->
        IF j \in Tasks
        THEN CASE taskPC[j] \in {"new", "refused"} -> "idle"
               [] taskPC[j] = "finished" -> "done"
               [] OTHER -> "active"
        ELSE CASE child[j] \in {"none", "failed"} -> "idle"
               [] child[j] = "reported" -> "done"
               [] OTHER -> "active"]

J == INSTANCE AsyncJoin
        WITH Jobs <- Tasks \cup Commands, job <- JobOf, joined <- (mainPC = "done")

(* src/async_task.c implements the promise of AsyncJoin. *)
ImplementsJoin == J!Spec
=============================================================================
