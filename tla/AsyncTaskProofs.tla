-------------------------- MODULE AsyncTaskProofs --------------------------
(***************************************************************************)
(* The inductive invariant of AsyncTask holds in every reachable state,    *)
(* for any number of functions, commands and threads.  Consequences: the   *)
(* counter is exact, the callback is alone when it changes the counter     *)
(* without its lock, and the join is complete.                             *)
(***************************************************************************)
EXTENDS AsyncTask, FiniteSetTheorems, TLAPS

(* The pending commands can be counted, and there are fewer of them than a
   guint can hold. *)
LEMMA PendingCount ==
    /\ IsFiniteSet(Pending)
    /\ Cardinality(Pending) \in Nat
    /\ Cardinality(Pending) < GuintMax
<1>1. Pending \in SUBSET Commands
  BY DEF Pending
<1>2. IsFiniteSet(Pending) /\ Cardinality(Pending) <= Cardinality(Commands)
  BY <1>1, FS_Subset, CommandsAssumption
<1>3. Cardinality(Pending) \in Nat /\ Cardinality(Commands) \in Nat
  BY <1>2, FS_CardinalityType, CommandsAssumption
<1> QED
  BY <1>2, <1>3, GuintAssumption

(* A step that changes neither the children nor the calls of async_task_exec
   in progress leaves the pending commands as they are. *)
LEMMA PendingUnchanged ==
    ASSUME UNCHANGED <<child, command>>
    PROVE  Pending' = Pending
BY DEF Pending

(* Initially every part of the invariant holds. *)
LEMMA InitIInv == Init => IInv
<1> SUFFICES ASSUME Init PROVE IInv
  OBVIOUS
<1> USE DEF Init
<1>1. TypeOK
  BY GuintAssumption DEF TypeOK, MainStates, TaskStates, ChildStates, OnThread, InExec
<1>2. OneStarter
  BY DEF OneStarter, InExec
<1>3. LockGuardsCounter
  BY NamesAssumption, TasksAssumption DEF LockGuardsCounter
<1>4. Drained
  BY DEF Drained, AfterDrain
<1>5. Pending = {}
  BY DEF Pending
<1>6. CounterExact
  BY <1>5, FS_EmptySet DEF CounterExact
<1>7. QuitWhenReported
  BY DEF QuitWhenReported
<1> QED
  BY <1>1, <1>2, <1>3, <1>4, <1>6, <1>7 DEF IInv

(* Steps that touch neither the counter nor a command: the parts about
   commands, the lock and the counter are not disturbed. *)
LEMMA InitStep == IInv /\ async_task_init => IInv'
<1> SUFFICES ASSUME IInv, async_task_init PROVE IInv'
  OBVIOUS
<1> USE DEF IInv, async_task_init
<1>1. TypeOK'
  BY DEF TypeOK, MainStates
<1>2. OneStarter'
  BY DEF OneStarter
<1>3. LockGuardsCounter'
  BY DEF LockGuardsCounter
<1>4. Drained'
  BY DEF Drained, AfterDrain
<1>5. CounterExact'
  BY PendingUnchanged DEF CounterExact
<1>6. QuitWhenReported'
  BY DEF QuitWhenReported
<1> QED
  BY <1>1, <1>2, <1>3, <1>4, <1>5, <1>6

(* A push changes only how far one function has come, from "new". *)
LEMMA RunStep == ASSUME NEW t \in Tasks PROVE IInv /\ async_task_run(t) => IInv'
<1> SUFFICES ASSUME IInv, async_task_run(t) PROVE IInv'
  OBVIOUS
<1> USE DEF IInv, async_task_run
<1>1. TypeOK'
  BY DEF TypeOK, TaskStates
<1>2. OneStarter'
  BY DEF OneStarter, InExec, TypeOK
<1>3. LockGuardsCounter'
  BY DEF LockGuardsCounter, TypeOK
<1>4. Drained'
  BY DEF Drained, AfterDrain
<1>5. Pending' = Pending
  BY PendingUnchanged
<1>6. CounterExact' /\ QuitWhenReported'
  BY <1>5 DEF CounterExact, QuitWhenReported
<1> QED
  BY <1>1, <1>2, <1>3, <1>4, <1>6

(* A queued function starts: possible only before the pool is drained. *)
LEMMA RunTaskStep == ASSUME NEW t \in Tasks PROVE IInv /\ async_task_run_task(t) => IInv'
<1> SUFFICES ASSUME IInv, async_task_run_task(t) PROVE IInv'
  OBVIOUS
<1> USE DEF IInv, async_task_run_task
<1>1. TypeOK'
  BY DEF TypeOK, TaskStates, OnThread
<1>2. OneStarter'
  BY DEF OneStarter, InExec, TypeOK
<1>3. LockGuardsCounter'
  BY DEF LockGuardsCounter, TypeOK
<1>4. Drained'
  BY DEF Drained, AfterDrain
<1>5. Pending' = Pending
  BY PendingUnchanged
<1>6. CounterExact' /\ QuitWhenReported'
  BY <1>5 DEF CounterExact, QuitWhenReported
<1> QED
  BY <1>1, <1>2, <1>3, <1>4, <1>6

(* A function returns from outside async_task_exec. *)
LEMMA ReturnStep == ASSUME NEW t \in Tasks PROVE IInv /\ task_return(t) => IInv'
<1> SUFFICES ASSUME IInv, task_return(t) PROVE IInv'
  OBVIOUS
<1> USE DEF IInv, task_return
<1>1. TypeOK'
  BY DEF TypeOK, TaskStates
<1>2. OneStarter'
  BY DEF OneStarter, InExec, TypeOK
<1>3. LockGuardsCounter'
  BY DEF LockGuardsCounter, TypeOK
<1>4. Drained'
  BY DEF Drained, AfterDrain, TypeOK
<1>5. Pending' = Pending
  BY PendingUnchanged
<1>6. CounterExact' /\ QuitWhenReported'
  BY <1>5 DEF CounterExact, QuitWhenReported
<1> QED
  BY <1>1, <1>2, <1>3, <1>4, <1>6

(* A spawned command belongs to a call in progress, so it is not pending yet;
   one that failed never is. *)
LEMMA SpawnStep ==
    ASSUME NEW t \in Tasks, NEW c \in Commands
    PROVE  IInv /\ async_task_exec_spawn(t, c) => IInv'
<1> SUFFICES ASSUME IInv, async_task_exec_spawn(t, c) PROVE IInv'
  OBVIOUS
<1> USE DEF IInv, async_task_exec_spawn
<1>1. TypeOK'
  BY DEF TypeOK, TaskStates, ChildStates, OnThread, InExec
<1>2. OneStarter'
  BY CommandsAssumption DEF OneStarter, InExec, TypeOK
<1>3. LockGuardsCounter'
  BY DEF LockGuardsCounter, TypeOK
<1>4. Drained'
  BY DEF Drained, AfterDrain
<1>5. Pending' = Pending
  (* a new child belongs to the call that has started it *)
  BY CommandsAssumption DEF Pending, OneStarter, TypeOK, InExec
<1>6. CounterExact' /\ QuitWhenReported'
  BY <1>5 DEF CounterExact, QuitWhenReported
<1> QED
  BY <1>1, <1>2, <1>3, <1>4, <1>6

(* Adding the watch changes neither the counter nor what is pending. *)
LEMMA WatchStep == ASSUME NEW t \in Tasks PROVE IInv /\ async_task_exec_watch(t) => IInv'
<1> SUFFICES ASSUME IInv, async_task_exec_watch(t) PROVE IInv'
  OBVIOUS
<1> USE DEF IInv, async_task_exec_watch
<1>1. TypeOK'
  BY DEF TypeOK, TaskStates, OnThread, InExec
<1>2. OneStarter'
  BY DEF OneStarter, InExec, TypeOK
<1>3. LockGuardsCounter'
  BY DEF LockGuardsCounter, TypeOK
<1>4. Drained'
  BY DEF Drained, AfterDrain
<1>5. Pending' = Pending
  BY PendingUnchanged
<1>6. CounterExact' /\ QuitWhenReported'
  BY <1>5 DEF CounterExact, QuitWhenReported
<1> QED
  BY <1>1, <1>2, <1>3, <1>4, <1>6

(* The lock is taken, and the value loaded is the counter. *)
LEMMA LoadStep == ASSUME NEW t \in Tasks PROVE IInv /\ async_task_exec_load(t) => IInv'
<1> SUFFICES ASSUME IInv, async_task_exec_load(t) PROVE IInv'
  OBVIOUS
<1> USE DEF IInv, async_task_exec_load
<1>1. TypeOK'
  BY DEF TypeOK, TaskStates, OnThread, InExec
<1>2. OneStarter'
  BY DEF OneStarter, InExec, TypeOK
<1>3. LockGuardsCounter'
  BY TasksAssumption, NamesAssumption DEF LockGuardsCounter, TypeOK
<1>4. Drained'
  BY DEF Drained, AfterDrain
<1>5. Pending' = Pending
  BY PendingUnchanged
<1>6. CounterExact' /\ QuitWhenReported'
  BY <1>5 DEF CounterExact, QuitWhenReported
<1> QED
  BY <1>1, <1>2, <1>3, <1>4, <1>6

(* The store adds exactly the command that the call has started. *)
LEMMA StoreStep == ASSUME NEW t \in Tasks PROVE IInv /\ async_task_exec_store(t) => IInv'
<1> SUFFICES ASSUME IInv, async_task_exec_store(t) PROVE IInv'
  OBVIOUS
<1> USE DEF IInv, async_task_exec_store
<1>1. /\ command[t] \in Commands
      /\ child[command[t]] \in {"alive", "exited"}
      /\ \A u \in Tasks : command[u] = command[t] => u = t
  BY DEF OneStarter, InExec, TypeOK
<1>2. Pending' = Pending \cup {command[t]} /\ command[t] \notin Pending
  BY <1>1, CommandsAssumption DEF Pending, TypeOK
<1>3. Cardinality(Pending') = Cardinality(Pending) + 1
  BY <1>2, PendingCount, FS_AddElement
<1>4. loaded[t] = Cardinality(Pending)
  BY DEF LockGuardsCounter, CounterExact
<1>5. CounterExact' /\ tasks' \in 0..GuintMax
  BY <1>3, <1>4, PendingCount, GuintAssumption DEF CounterExact, Increment
<1>6. TypeOK'
  BY <1>5 DEF TypeOK, TaskStates, OnThread
<1>7. OneStarter'
  BY DEF OneStarter, InExec, TypeOK
<1>8. LockGuardsCounter'
  BY TasksAssumption, NamesAssumption DEF LockGuardsCounter, TypeOK
<1>9. mainPC \notin AfterDrain
  BY DEF Drained, AfterDrain
<1>10. Drained'
  BY <1>9 DEF Drained
<1>11. QuitWhenReported'
  BY <1>9 DEF QuitWhenReported, AfterDrain
<1> QED
  BY <1>5, <1>6, <1>7, <1>8, <1>10, <1>11

(* A child that ends stays pending until it is reported. *)
LEMMA ExitStep == ASSUME NEW c \in Commands PROVE IInv /\ child_exit(c) => IInv'
<1> SUFFICES ASSUME IInv, child_exit(c) PROVE IInv'
  OBVIOUS
<1> USE DEF IInv, child_exit
<1>1. TypeOK'
  BY DEF TypeOK, ChildStates
<1>2. OneStarter'
  BY DEF OneStarter, TypeOK
<1>3. LockGuardsCounter' /\ Drained'
  BY DEF LockGuardsCounter, Drained
<1>4. Pending' = Pending
  BY DEF Pending, TypeOK
<1>5. CounterExact' /\ QuitWhenReported'
  BY <1>4 DEF CounterExact, QuitWhenReported
<1> QED
  BY <1>1, <1>2, <1>3, <1>5

(* Before the pool is drained there is nothing to show about the join. *)
LEMMA BeginStep == IInv /\ async_task_finish_begin => IInv'
<1> SUFFICES ASSUME IInv, async_task_finish_begin PROVE IInv'
  OBVIOUS
<1> USE DEF IInv, async_task_finish_begin
<1>1. TypeOK'
  BY DEF TypeOK, MainStates
<1>2. OneStarter' /\ LockGuardsCounter' /\ Drained'
  BY DEF OneStarter, LockGuardsCounter, Drained, AfterDrain
<1>3. Pending' = Pending
  BY PendingUnchanged
<1>4. CounterExact' /\ QuitWhenReported'
  BY <1>3 DEF CounterExact, QuitWhenReported
<1> QED
  BY <1>1, <1>2, <1>4

(* The step that establishes Drained. *)
LEMMA DrainedStep == IInv /\ async_task_finish_drained => IInv'
<1> SUFFICES ASSUME IInv, async_task_finish_drained PROVE IInv'
  OBVIOUS
<1> USE DEF IInv, async_task_finish_drained
<1>1. TypeOK'
  BY DEF TypeOK, MainStates
<1>2. OneStarter' /\ LockGuardsCounter'
  BY DEF OneStarter, LockGuardsCounter
<1>3. Drained'
  BY DEF Drained, TypeOK, TaskStates
<1>4. Pending' = Pending
  BY PendingUnchanged
<1>5. CounterExact' /\ QuitWhenReported'
  BY <1>4 DEF CounterExact, QuitWhenReported
<1> QED
  BY <1>1, <1>2, <1>3, <1>5

(* The main loop is skipped only with a counter of zero, and an exact
   counter of zero means that nothing is pending. *)
LEMMA JoinStep == IInv /\ async_task_finish_join => IInv'
<1> SUFFICES ASSUME IInv, async_task_finish_join PROVE IInv'
  OBVIOUS
<1> USE DEF IInv, async_task_finish_join
<1>1. TypeOK'
  BY DEF TypeOK, MainStates
<1>2. OneStarter' /\ Drained'
  BY DEF OneStarter, Drained, AfterDrain
<1>3. \A t \in Tasks : taskPC[t] # "counting"
  BY NamesAssumption, TasksAssumption DEF LockGuardsCounter
<1>4. LockGuardsCounter'
  BY <1>3, TasksAssumption DEF LockGuardsCounter
<1>5. Pending' = Pending
  BY PendingUnchanged
<1>6. CounterExact'
  BY <1>5 DEF CounterExact
<1>7. mainPC' = "reset" => Pending = {}
  BY PendingCount, FS_EmptySet DEF CounterExact
<1>8. QuitWhenReported'
  BY <1>5, <1>7 DEF QuitWhenReported
<1> QED
  BY <1>1, <1>2, <1>4, <1>6, <1>8

(* The callback loads the counter while the main thread holds the lock, and
   the command stays pending. *)
LEMMA CallbackLoadStep ==
    ASSUME NEW c \in Commands
    PROVE  IInv /\ async_task_callback_load(c) => IInv'
<1> SUFFICES ASSUME IInv, async_task_callback_load(c) PROVE IInv'
  OBVIOUS
<1> USE DEF IInv, async_task_callback_load
<1>1. TypeOK'
  BY DEF TypeOK, MainStates, ChildStates
<1>2. \A t \in Tasks : command[t] = None
  BY DEF Drained, AfterDrain, OneStarter, InExec
<1>3. OneStarter'
  BY <1>2 DEF OneStarter
<1>4. LockGuardsCounter'
  BY TasksAssumption DEF LockGuardsCounter, TypeOK
<1>5. Drained'
  BY DEF Drained, AfterDrain
<1>6. Pending' = Pending
  BY DEF Pending, TypeOK
<1>7. CounterExact'
  BY <1>6 DEF CounterExact
<1>8. c \in Pending
  BY <1>2, CommandsAssumption DEF Pending
<1>9. QuitWhenReported'
  (* after quit nothing is pending, so no callback follows it *)
  BY <1>8 DEF QuitWhenReported
<1> QED
  BY <1>1, <1>3, <1>4, <1>5, <1>7, <1>9

(* The store takes away exactly the command that is being reported. *)
LEMMA CallbackStoreStep ==
    ASSUME NEW c \in Commands
    PROVE  IInv /\ async_task_callback_store(c) => IInv'
<1> SUFFICES ASSUME IInv, async_task_callback_store(c) PROVE IInv'
  OBVIOUS
<1> USE DEF IInv, async_task_callback_store
<1>1. \A t \in Tasks : command[t] = None
  BY DEF Drained, AfterDrain, OneStarter, InExec
<1>2. Pending' = Pending \ {c} /\ c \in Pending
  BY <1>1, CommandsAssumption DEF Pending, TypeOK
<1>3. Cardinality(Pending') = Cardinality(Pending) - 1 /\ Cardinality(Pending) # 0
  BY <1>2, PendingCount, FS_RemoveElement, FS_EmptySet
<1>4. loaded[Main] = Cardinality(Pending)
  BY DEF LockGuardsCounter, CounterExact
<1>5. CounterExact' /\ tasks' \in 0..GuintMax
  BY <1>3, <1>4, PendingCount, GuintAssumption DEF CounterExact, Decrement
<1>6. TypeOK'
  BY <1>5 DEF TypeOK, MainStates, ChildStates
<1>7. OneStarter'
  BY <1>1 DEF OneStarter
<1>8. \A t \in Tasks : taskPC[t] # "counting"
  BY DEF Drained, AfterDrain
<1>9. LockGuardsCounter'
  BY <1>8 DEF LockGuardsCounter
<1>10. Drained'
  BY DEF Drained, AfterDrain
<1>11. IsFiniteSet(Pending')
  BY <1>2, PendingCount, FS_RemoveElement
<1>12. tasks' = 0 => Pending' = {}
  BY <1>5, <1>11, FS_EmptySet DEF CounterExact
<1>13. loop # "quit"
  BY <1>2 DEF QuitWhenReported
<1>14. QuitWhenReported'
  BY <1>12, <1>13 DEF QuitWhenReported
<1> QED
  BY <1>5, <1>6, <1>7, <1>9, <1>10, <1>14

(* The loop returns only when it was told to quit: nothing is pending. *)
LEMMA LoopReturnStep == IInv /\ main_loop_return => IInv'
<1> SUFFICES ASSUME IInv, main_loop_return PROVE IInv'
  OBVIOUS
<1> USE DEF IInv, main_loop_return
<1>1. TypeOK'
  BY DEF TypeOK, MainStates
<1>2. OneStarter' /\ LockGuardsCounter' /\ Drained'
  BY DEF OneStarter, LockGuardsCounter, Drained, AfterDrain
<1>3. Pending' = Pending
  BY PendingUnchanged
<1>4. CounterExact' /\ QuitWhenReported'
  BY <1>3 DEF CounterExact, QuitWhenReported
<1> QED
  BY <1>1, <1>2, <1>4

(* The counter is reset to the zero that it already is. *)
LEMMA ResetStep == IInv /\ async_task_finish_reset => IInv'
<1> SUFFICES ASSUME IInv, async_task_finish_reset PROVE IInv'
  OBVIOUS
<1> USE DEF IInv, async_task_finish_reset
<1>1. TypeOK'
  BY GuintAssumption DEF TypeOK, MainStates
<1>2. OneStarter' /\ Drained'
  BY DEF OneStarter, Drained, AfterDrain
<1>3. \A t \in Tasks : taskPC[t] # "counting"
  BY DEF Drained, AfterDrain
<1>4. LockGuardsCounter'
  BY <1>3, NamesAssumption, TasksAssumption DEF LockGuardsCounter
<1>5. Pending = {} /\ Pending' = {}
  BY PendingUnchanged DEF QuitWhenReported
<1>6. CounterExact' /\ QuitWhenReported'
  BY <1>5, FS_EmptySet DEF CounterExact, QuitWhenReported
<1> QED
  BY <1>1, <1>2, <1>4, <1>6

(* A stuttering step. *)
LEMMA StutterStep == IInv /\ UNCHANGED vars => IInv'
BY DEF IInv, vars, TypeOK, OneStarter, LockGuardsCounter, Drained, CounterExact,
       QuitWhenReported, Pending

(* Every step keeps the invariant: one lemma for each action. *)
LEMMA NextIInv == IInv /\ [Next]_vars => IInv'
<1> SUFFICES ASSUME IInv, [Next]_vars PROVE IInv'
  OBVIOUS
<1>1. CASE MainStep
  BY <1>1, InitStep, RunStep, BeginStep, DrainedStep, JoinStep, CallbackLoadStep,
     CallbackStoreStep, LoopReturnStep, ResetStep DEF MainStep
<1>2. CASE \E t \in Tasks : ThreadStep(t)
  BY <1>2, RunTaskStep, ReturnStep, SpawnStep, WatchStep, LoadStep, StoreStep DEF ThreadStep
<1>3. CASE \E c \in Commands : child_exit(c)
  BY <1>3, ExitStep
<1>4. CASE Terminated \/ UNCHANGED vars
  BY <1>4, StutterStep DEF Terminated
<1> QED
  BY <1>1, <1>2, <1>3, <1>4 DEF Next

(* The inductive invariant holds in every reachable state of src/async_task.c. *)
THEOREM InductiveInvariant == Spec => []IInv
<1> QED
  BY InitIInv, NextIInv, PTL DEF Spec

(* Every variable keeps its type.  (That the unsigned counter does not wrap is
   CounterIsExact: its type admits a wrap.) *)
THEOREM TypeCorrect == Spec => []TypeOK
<1>1. IInv => TypeOK
  BY DEF IInv
<1> QED
  BY <1>1, InductiveInvariant, PTL

(* The counter of background commands is exact at every moment, whatever the
   interleaving of its unlocked and its locked updates. *)
THEOREM CounterIsExact == Spec => []CounterExact
<1>1. IInv => CounterExact
  BY DEF IInv
<1> QED
  BY <1>1, InductiveInvariant, PTL

(* No pool thread is running from the moment the pool is freed, so the
   callback's decrement is never concurrent with an increment. *)
THEOREM CallbackIsAlone == Spec => []CallbackAlone
<1>1. IInv => CallbackAlone
  BY DEF IInv, Drained, CallbackAlone, Threads, OnThread, InExec
<1> QED
  BY <1>1, InductiveInvariant, PTL

(* When async_task_finish returns, every accepted function has run and every
   command that was started has been reported. *)
THEOREM JoinIsComplete == Spec => []JoinComplete
<1>1. ASSUME IInv, mainPC = "done" PROVE JoinComplete
  <2>1. \A t \in Tasks : taskPC[t] \in {"new", "refused", "finished"} /\ command[t] = None
    BY <1>1 DEF IInv, Drained, AfterDrain, OneStarter, InExec
  <2>2. Pending = {}
    BY <1>1 DEF IInv, QuitWhenReported
  <2>3. \A c \in Commands : child[c] \notin {"alive", "exited", "reporting"}
    BY <2>1, <2>2, CommandsAssumption DEF Pending
  <2> QED
    BY <1>1, <2>1, <2>3 DEF JoinComplete, IInv, TypeOK, ChildStates
<1>2. IInv => JoinComplete
  BY <1>1 DEF JoinComplete
<1> QED
  BY <1>2, InductiveInvariant, PTL

(* Where each step goes in the abstract specification: the job that it
   launches or completes is the function or the command it is about; every
   other step is invisible. *)
LEMMA JobUnchanged ==
    ASSUME \A t \in Tasks : JobOf'[t] = JobOf[t],
           \A c \in Commands : JobOf'[c] = JobOf[c]
    PROVE  JobOf' = JobOf
BY DEF JobOf

(* A step that changes one job leaves every other one as it is. *)
LEMMA JobChanged ==
    ASSUME NEW j \in Tasks \cup Commands, NEW v, JobOf'[j] = v,
           \A i \in (Tasks \cup Commands) \ {j} : JobOf'[i] = JobOf[i]
    PROVE  JobOf' = [JobOf EXCEPT ![j] = v]
<1> DEFINE S == Tasks \cup Commands
<1>1. /\ JobOf = [i \in S |-> JobOf[i]] /\ JobOf' = [i \in S |-> JobOf'[i]]
  BY Zenon DEF JobOf
<1>2. [JobOf EXCEPT ![j] = v] = [i \in S |-> IF i = j THEN v ELSE JobOf[i]]
  BY <1>1
<1>3. \A i \in S : JobOf'[i] = IF i = j THEN v ELSE JobOf[i]
  OBVIOUS
<1> QED
  BY <1>1, <1>2, <1>3

(* Before the join, a push launches a job and a return completes it. *)
LEMMA FunctionRefines ==
    ASSUME NEW t \in Tasks, IInv,
           \/ async_task_run(t)
           \/ async_task_run_task(t)
           \/ task_return(t)
    PROVE  [J!Next]_J!vars
<1>1. t \in Tasks \cup Commands /\ \A c \in Commands : c \notin Tasks
  BY DisjointAssumption
<1>2. \A i \in (Tasks \cup Commands) \ {t} : JobOf'[i] = JobOf[i]
  BY <1>1 DEF IInv, TypeOK, JobOf, async_task_run, async_task_run_task, task_return
<1>3. mainPC # "done" /\ mainPC' = mainPC
  BY DEF IInv, Drained, AfterDrain, async_task_run, async_task_run_task, task_return, OnThread
<1>4. CASE async_task_run(t) /\ pool # "null"
  <2>1. JobOf[t] = "idle" /\ JobOf'[t] = "active"
    BY <1>4 DEF IInv, TypeOK, JobOf, async_task_run
  <2>2. JobOf' = [JobOf EXCEPT ![t] = "active"]
    BY <1>1, <1>2, <2>1, JobChanged
  <2> QED
    BY <1>1, <1>3, <2>1, <2>2 DEF J!Next, J!Launch
<1>5. CASE (async_task_run(t) /\ pool = "null") \/ async_task_run_task(t)
  <2>1. JobOf'[t] = JobOf[t]
    BY <1>5 DEF IInv, TypeOK, JobOf, async_task_run, async_task_run_task
  <2>2. JobOf' = JobOf
    BY <1>1, <1>2, <2>1, JobUnchanged
  <2> QED
    BY <1>3, <2>2 DEF J!vars
<1>6. CASE task_return(t)
  <2>1. JobOf[t] = "active" /\ JobOf'[t] = "done"
    BY <1>6 DEF IInv, TypeOK, JobOf, task_return
  <2>2. JobOf' = [JobOf EXCEPT ![t] = "done"]
    BY <1>1, <1>2, <2>1, JobChanged
  <2> QED
    BY <1>1, <1>3, <2>1, <2>2 DEF J!Next, J!Complete
<1> QED
  BY <1>4, <1>5, <1>6

(* A command is launched by its spawn, and completed by its report. *)
LEMMA SpawnRefines ==
    ASSUME NEW t \in Tasks, NEW c \in Commands, IInv, async_task_exec_spawn(t, c)
    PROVE  [J!Next]_J!vars
<1>1. c \in Tasks \cup Commands /\ c \notin Tasks
  BY DisjointAssumption
<1>2. \A i \in (Tasks \cup Commands) \ {c} : JobOf'[i] = JobOf[i]
  BY DEF IInv, TypeOK, JobOf, async_task_exec_spawn
<1>3. mainPC # "done" /\ mainPC' = mainPC
  BY DEF IInv, Drained, AfterDrain, async_task_exec_spawn
<1>4. JobOf[c] = "idle" /\ JobOf'[c] \in {"idle", "active"}
  BY <1>1 DEF IInv, TypeOK, JobOf, async_task_exec_spawn
<1>5. CASE JobOf'[c] = "active"
  <2>1. JobOf' = [JobOf EXCEPT ![c] = "active"]
    BY <1>1, <1>2, <1>5, JobChanged
  <2> QED
    BY <1>1, <1>3, <1>4, <2>1 DEF J!Next, J!Launch
<1>6. CASE JobOf'[c] = "idle"
  <2>1. JobOf' = JobOf
    BY <1>2, <1>4, <1>6, JobUnchanged
  <2> QED
    BY <1>3, <2>1 DEF J!vars
<1> QED
  BY <1>4, <1>5, <1>6

(* The steps inside async_task_exec after the spawn are invisible. *)
LEMMA CallRefines ==
    ASSUME NEW t \in Tasks, IInv,
           \/ async_task_exec_watch(t)
           \/ async_task_exec_load(t)
           \/ async_task_exec_store(t)
    PROVE  [J!Next]_J!vars
<1>1. \A u \in Tasks : JobOf'[u] = JobOf[u]
  BY DEF IInv, TypeOK, JobOf, async_task_exec_watch, async_task_exec_load, async_task_exec_store
<1>2. \A c \in Commands : JobOf'[c] = JobOf[c]
  BY DisjointAssumption
     DEF JobOf, async_task_exec_watch, async_task_exec_load, async_task_exec_store
<1>3. JobOf' = JobOf
  BY <1>1, <1>2, JobUnchanged
<1>4. mainPC' = mainPC
  BY DEF async_task_exec_watch, async_task_exec_load, async_task_exec_store
<1> QED
  BY <1>3, <1>4 DEF J!vars

(* The end of a child is invisible, its report completes a job. *)
LEMMA ChildRefines ==
    ASSUME NEW c \in Commands, IInv,
           \/ child_exit(c)
           \/ async_task_callback_load(c)
           \/ async_task_callback_store(c)
    PROVE  [J!Next]_J!vars
<1>1. c \in Tasks \cup Commands /\ c \notin Tasks
  BY DisjointAssumption
<1>2. \A i \in (Tasks \cup Commands) \ {c} : JobOf'[i] = JobOf[i]
  BY DEF IInv, TypeOK, JobOf, child_exit, async_task_callback_load, async_task_callback_store
<1>3. (mainPC = "done")' = (mainPC = "done")
  BY DEF child_exit, async_task_callback_load, async_task_callback_store
<1>4. CASE child_exit(c) \/ async_task_callback_load(c)
  <2>1. JobOf'[c] = JobOf[c]
    BY <1>1, <1>4 DEF IInv, TypeOK, JobOf, child_exit, async_task_callback_load
  <2>2. JobOf' = JobOf
    BY <1>2, <2>1, JobUnchanged
  <2> QED
    BY <1>3, <2>2 DEF J!vars
<1>5. CASE async_task_callback_store(c)
  <2>1. JobOf[c] = "active" /\ JobOf'[c] = "done"
    BY <1>1, <1>5 DEF IInv, TypeOK, JobOf, async_task_callback_store
  <2>2. JobOf' = [JobOf EXCEPT ![c] = "done"]
    BY <1>1, <1>2, <2>1, JobChanged
  <2> QED
    BY <1>1, <1>3, <2>1, <2>2 DEF J!Next, J!Complete
<1> QED
  BY <1>4, <1>5

(* The steps of the main thread that neither push, report nor return from the
   join are invisible. *)
LEMMA MainRefines ==
    ASSUME IInv,
           \/ async_task_init
           \/ async_task_finish_begin
           \/ async_task_finish_drained
           \/ async_task_finish_join
           \/ main_loop_return
    PROVE  [J!Next]_J!vars
<1> USE DEF async_task_init, async_task_finish_begin, async_task_finish_drained,
            async_task_finish_join, main_loop_return
<1>1. JobOf' = JobOf
  BY DEF JobOf
<1>2. mainPC # "done" /\ mainPC' # "done"
  OBVIOUS
<1> QED
  BY <1>1, <1>2 DEF J!vars

(* The last step of async_task_finish is the join of AsyncJoin. *)
LEMMA ResetRefines ==
    ASSUME IInv, async_task_finish_reset
    PROVE  J!Next
<1>1. JobOf' = JobOf
  BY DEF JobOf, async_task_finish_reset
<1>2. \A t \in Tasks : taskPC[t] \in {"new", "refused", "finished"} /\ command[t] = None
  BY DEF IInv, Drained, AfterDrain, OneStarter, InExec, async_task_finish_reset
<1>3. Pending = {}
  BY DEF IInv, QuitWhenReported, async_task_finish_reset
<1>4. \A c \in Commands : child[c] \in {"none", "failed", "reported"}
  BY <1>2, <1>3, CommandsAssumption DEF Pending, IInv, TypeOK, ChildStates
<1>5. J!Active = {}
  BY <1>2, <1>4 DEF J!Active, JobOf
<1> QED
  BY <1>1, <1>5 DEF J!Next, J!Join, async_task_finish_reset

(* Initially nothing is launched and nothing joined. *)
LEMMA InitRefines == Init => J!Init
BY DisjointAssumption DEF Init, J!Init, JobOf

(* Every step of src/async_task.c is a step of AsyncJoin or invisible there. *)
LEMMA NextRefines == IInv /\ [Next]_vars => [J!Next]_J!vars
<1> SUFFICES ASSUME IInv, [Next]_vars PROVE [J!Next]_J!vars
  OBVIOUS
<1>1. CASE MainStep
  BY <1>1, FunctionRefines, ChildRefines, MainRefines, ResetRefines DEF MainStep
<1>2. CASE \E t \in Tasks : ThreadStep(t)
  BY <1>2, FunctionRefines, SpawnRefines, CallRefines DEF ThreadStep
<1>3. CASE \E c \in Commands : child_exit(c)
  BY <1>3, ChildRefines
<1>4. CASE Terminated \/ UNCHANGED vars
  BY <1>4 DEF Terminated, vars, J!vars, JobOf
<1> QED
  BY <1>1, <1>2, <1>3, <1>4 DEF Next

(* src/async_task.c implements AsyncJoin: work is accepted only before the
   join, and the join happens only when no work is left. *)
THEOREM AsyncTaskImplementsJoin == Spec => ImplementsJoin
<1> QED
  BY InductiveInvariant, InitRefines, NextRefines, PTL DEF Spec, ImplementsJoin, J!Spec
=============================================================================
