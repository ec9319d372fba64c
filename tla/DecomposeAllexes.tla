-------------------------- MODULE DecomposeAllexes --------------------------
(***************************************************************************)
(* decomposeAllexes (DecomposeAllexes.cpp): the main thread queues one     *)
(* task per module, or with -extract-from-allexes one per allexe, on a     *)
(* ThreadPool; each worker decomposes into a tar file of its own and       *)
(* advances a shared progress display. A worker that meets an error exits  *)
(* the process (ExitOnErr) while the other threads go on until it ends.    *)
(***************************************************************************)
EXTENDS Naturals, Sequences, FiniteSets

CONSTANTS
  Workers,    \* the threads of the pool
  NMods,      \* the number of modules in the database
  NAllexes,   \* the number of allexes in the database
  NoWorker

ASSUME PoolAssumption ==
  /\ Workers # {} /\ NoWorker \notin Workers
  /\ NMods \in Nat /\ NAllexes \in Nat

VARIABLES
  extract,    \* ExtractModulesFromAllexes
  main,       \* where the main thread is
  next,       \* I, the number of tasks queued so far
  queue,      \* the tasks of the pool that no worker has taken
  enabled,    \* whether the pool accepts to go on (false in its destructor)
  at,         \* where each worker is
  task,       \* the task each worker is at
  tar,        \* the tar file of each task
  mutex,      \* the holder of ProgressMtx
  alive,      \* whether progress, a local of the main thread, is alive
  count,      \* progress.count()
  seen,       \* the value of count each worker has loaded
  process,    \* "running", "exiting" (in exit()) or "ended"
  status      \* the exit status, once it is known

poolVars == <<queue, enabled>>
fileVars == <<tar>>
progressVars == <<mutex, alive, count, seen>>
vars == <<extract, main, next, queue, enabled, at, task, tar, mutex, alive, count,
          seen, process, status>>

NTasks == IF extract THEN NAllexes ELSE NMods
MaxTasks == IF NAllexes > NMods THEN NAllexes ELSE NMods
Tasks == 1 .. MaxTasks

Init ==
  /\ extract \in BOOLEAN
  /\ main = "mkdir"
  /\ next = 0
  /\ queue = <<>>
  /\ enabled = TRUE
  /\ at = [w \in Workers |-> "unborn"]
  /\ task = [w \in Workers |-> 0]
  /\ tar = [t \in Tasks |-> "absent"]
  /\ mutex = NoWorker
  /\ alive = FALSE
  /\ count = 0
  /\ seen = [w \in Workers |-> 0]
  /\ process = "running"
  /\ status = "none"

-----------------------------------------------------------------------------
(***************************************************************************)
(* The main thread. It makes the output directory, which may fail; creates *)
(* the pool and the display; queues the tasks; waits until the queue is    *)
(* empty and no worker is at a task; and returns, which destroys the       *)
(* display, then joins the workers.                                        *)
(***************************************************************************)
MakeDirectory ==
  /\ process # "ended" /\ main = "mkdir"
  /\ \/ /\ main' = "async" /\ alive' = TRUE
        /\ at' = [w \in Workers |-> "idle"]
        /\ UNCHANGED <<process, status>>
     \/ /\ main' = "returned" /\ process' = "ended" /\ status' = "failure"
        /\ UNCHANGED <<alive, at>>
  /\ UNCHANGED <<extract, next, poolVars, task, fileVars, mutex, count, seen>>

AsyncOneMore ==   \* mutant: one task too many
  /\ process # "ended" /\ main = "async"
  /\ IF next <= NTasks
     THEN next' = next + 1 /\ queue' = Append(queue, next + 1) /\ main' = main
     ELSE main' = "wait" /\ UNCHANGED <<next, queue>>
  /\ UNCHANGED <<extract, enabled, at, task, fileVars, progressVars, process, status>>

Async ==
  /\ process # "ended" /\ main = "async"
  /\ IF next < NTasks
     THEN next' = next + 1 /\ queue' = Append(queue, next + 1) /\ main' = main
     ELSE main' = "wait" /\ UNCHANGED <<next, queue>>
  /\ UNCHANGED <<extract, enabled, at, task, fileVars, progressVars, process, status>>

Active(w) == at[w] \notin {"unborn", "idle", "stopped"}

WaitForQueue ==   \* mutant: the tasks being run are not waited for
  /\ process # "ended" /\ main = "wait"
  /\ queue = <<>>
  /\ main' = "leave"
  /\ alive' = FALSE
  /\ UNCHANGED <<extract, next, poolVars, at, task, fileVars, mutex, count, seen, process, status>>

Wait ==
  /\ process # "ended" /\ main = "wait"
  /\ queue = <<>> /\ \A w \in Workers : ~Active(w)
  /\ main' = "leave"
  /\ alive' = FALSE
  /\ UNCHANGED <<extract, next, poolVars, at, task, fileVars, mutex, count, seen, process, status>>

DestroyPool ==
  /\ process # "ended" /\ main = "leave"
  /\ enabled' = FALSE
  /\ main' = "join"
  /\ UNCHANGED <<extract, next, queue, at, task, fileVars, progressVars, process, status>>

ReturnSuccess ==
  /\ process = "running" /\ main = "join"
  /\ \A w \in Workers : at[w] = "stopped"
  /\ main' = "returned"
  /\ process' = "ended"
  /\ status' = "success"
  /\ UNCHANGED <<extract, next, poolVars, at, task, fileVars, progressVars>>

-----------------------------------------------------------------------------
(***************************************************************************)
(* A worker takes tasks in the order they were queued, and stops when the  *)
(* pool is being destroyed and there are none.                             *)
(***************************************************************************)
TakeTask(w) ==
  /\ process # "ended" /\ at[w] = "idle"
  /\ queue # <<>>
  /\ task' = [task EXCEPT ![w] = Head(queue)]
  /\ queue' = Tail(queue)
  /\ at' = [at EXCEPT ![w] = "load"]
  /\ UNCHANGED <<extract, main, next, enabled, fileVars, progressVars, process, status>>

Stop(w) ==
  /\ process # "ended" /\ at[w] = "idle"
  /\ ~enabled /\ queue = <<>>
  /\ at' = [at EXCEPT ![w] = "stopped"]
  /\ UNCHANGED <<extract, main, next, poolVars, task, fileVars, progressVars, process, status>>

(***************************************************************************)
(* The steps of a task: load the module (parseIRFile, or openForReading    *)
(* and getModule(0), and materializeAll), create the tar file, decompose   *)
(* into it and close it. Loading and creating may fail.                    *)
(***************************************************************************)
Load(w) ==
  /\ process # "ended" /\ at[w] = "load"
  /\ at' = [at EXCEPT ![w] = "create"]
  /\ UNCHANGED <<extract, main, next, poolVars, task, fileVars, progressVars, process, status>>

CreateTar(w) ==
  /\ process # "ended" /\ at[w] = "create"
  /\ tar' = [tar EXCEPT ![task[w]] = "open"]
  /\ at' = [at EXCEPT ![w] = "split"]
  /\ UNCHANGED <<extract, main, next, poolVars, task, progressVars, process, status>>

SplitIntoTar(w) ==
  /\ process # "ended" /\ at[w] = "split"
  /\ tar' = [tar EXCEPT ![task[w]] = "complete"]
  /\ at' = [at EXCEPT ![w] = "lock"]
  /\ UNCHANGED <<extract, main, next, poolVars, task, progressVars, process, status>>

(***************************************************************************)
(* In a build with assertions one of decompose's own may fail, for one     *)
(* when a module has no definitions: abort() ends the process at once,     *)
(* with the tar cut short and the other threads wherever they are.         *)
(***************************************************************************)
AssertFails(w) ==
  /\ process # "ended" /\ at[w] = "split"
  /\ process' = "ended"
  /\ status' = "failure"
  /\ UNCHANGED <<extract, main, next, poolVars, at, task, fileVars, progressVars>>

(***************************************************************************)
(* ExitOnErr: the first worker to fail calls exit(1). Another one that     *)
(* fails meanwhile waits in exit() for the end.                            *)
(***************************************************************************)
LogAndReturn(w) ==   \* mutant: a failed task is reported and given up
  /\ process # "ended" /\ at[w] \in {"load", "create"}
  /\ at' = [at EXCEPT ![w] = "idle"]
  /\ UNCHANGED <<extract, main, next, poolVars, task, fileVars, progressVars, process, status>>

ExitOnErr(w) ==
  /\ process # "ended" /\ at[w] \in {"load", "create"}
  /\ at' = [at EXCEPT ![w] = "exit"]
  /\ process' = "exiting"
  /\ status' = "failure"
  /\ UNCHANGED <<extract, main, next, poolVars, task, fileVars, progressVars>>

EndProcess ==
  /\ process = "exiting"
  /\ process' = "ended"
  /\ UNCHANGED <<extract, main, next, poolVars, at, task, fileVars, progressVars, status>>

(***************************************************************************)
(* Under ProgressMtx, ++progress: the count is loaded, then stored. Then   *)
(* the lock_guard releases the mutex and the task is over.                 *)
(***************************************************************************)
NoLock(w) ==   \* mutant: the mutex is not waited for
  /\ process # "ended" /\ at[w] = "lock"
  /\ mutex' = w
  /\ at' = [at EXCEPT ![w] = "read"]
  /\ UNCHANGED <<extract, main, next, poolVars, task, fileVars, alive, count, seen, process, status>>

Lock(w) ==
  /\ process # "ended" /\ at[w] = "lock"
  /\ mutex = NoWorker
  /\ mutex' = w
  /\ at' = [at EXCEPT ![w] = "read"]
  /\ UNCHANGED <<extract, main, next, poolVars, task, fileVars, alive, count, seen, process, status>>

ReadCount(w) ==
  /\ process # "ended" /\ at[w] = "read"
  /\ seen' = [seen EXCEPT ![w] = count]
  /\ at' = [at EXCEPT ![w] = "write"]
  /\ UNCHANGED <<extract, main, next, poolVars, task, fileVars, mutex, alive, count, process, status>>

WriteCount(w) ==
  /\ process # "ended" /\ at[w] = "write"
  /\ count' = seen[w] + 1
  /\ at' = [at EXCEPT ![w] = "unlock"]
  /\ UNCHANGED <<extract, main, next, poolVars, task, fileVars, mutex, alive, seen, process, status>>

NoUnlock(w) ==   \* mutant: the mutex is not released
  /\ process # "ended" /\ at[w] = "unlock"
  /\ at' = [at EXCEPT ![w] = "idle"]
  /\ UNCHANGED <<extract, main, next, poolVars, task, fileVars, progressVars, process, status>>

Unlock(w) ==
  /\ process # "ended" /\ at[w] = "unlock"
  /\ mutex' = NoWorker
  /\ at' = [at EXCEPT ![w] = "idle"]
  /\ UNCHANGED <<extract, main, next, poolVars, task, fileVars, alive, count, seen, process, status>>

MainStep == MakeDirectory \/ Async \/ Wait \/ DestroyPool \/ ReturnSuccess

Step(w) ==
  \/ TakeTask(w) \/ Stop(w)
  \/ Load(w) \/ CreateTar(w) \/ SplitIntoTar(w) \/ AssertFails(w) \/ ExitOnErr(w)
  \/ Lock(w) \/ ReadCount(w) \/ WriteCount(w) \/ Unlock(w)

Next == MainStep \/ EndProcess \/ \E w \in Workers : Step(w)

(***************************************************************************)
(* The operating system runs every thread, and exit() ends.                *)
(***************************************************************************)
Fairness ==
  /\ WF_vars(MainStep)
  /\ WF_vars(EndProcess)
  /\ \A w \in Workers : WF_vars(Step(w))

Spec == Init /\ [][Next]_vars /\ Fairness

-----------------------------------------------------------------------------
(***************************************************************************)
(* Every variable has its type.                                            *)
(***************************************************************************)
TypeOK ==
  /\ extract \in BOOLEAN
  /\ main \in {"mkdir", "async", "wait", "leave", "join", "returned"}
  /\ next \in 0 .. NTasks
  /\ queue \in Seq(Tasks)
  /\ enabled \in BOOLEAN /\ alive \in BOOLEAN
  /\ at \in [Workers -> {"unborn", "idle", "load", "create", "split", "exit", "lock",
                         "read", "write", "unlock", "stopped"}]
  /\ task \in [Workers -> {0} \cup Tasks]
  /\ tar \in [Tasks -> {"absent", "open", "complete"}]
  /\ mutex \in Workers \cup {NoWorker}
  /\ count \in Nat
  /\ seen \in [Workers -> Nat]
  /\ process \in {"running", "exiting", "ended"}
  /\ status \in {"none", "success", "failure"}

(***************************************************************************)
(* "exit on error instead of propagating errors out of the thread pool     *)
(* safely": success is returned only when every task has its complete tar  *)
(* file and was counted; a worker that fails, however late and whatever    *)
(* main is doing, makes the run a failure.                                 *)
(***************************************************************************)
SuccessMeansAllDone ==
  status = "success" =>
    /\ \A t \in 1 .. NTasks : tar[t] = "complete"
    /\ count = NTasks

(***************************************************************************)
(* No worker touches the display, a local of the main thread captured by   *)
(* reference, before it exists or after it is gone.                        *)
(***************************************************************************)
DisplayAlive == \A w \in Workers : Active(w) => alive

(***************************************************************************)
(* No tick is lost to a concurrent one: between two updates the count is   *)
(* the number of tasks that went past it.                                  *)
(***************************************************************************)
TickPending(t) == \E w \in Workers : task[w] = t /\ at[w] \in {"lock", "read", "write"}

NoTickLost ==
  count = Cardinality({t \in Tasks : tar[t] = "complete" /\ ~TickPending(t)})

(***************************************************************************)
(* The process ends: the workers do not wait for each other for ever, nor  *)
(* main for a worker that has left.                                        *)
(***************************************************************************)
Ends == <>(process = "ended")

(***************************************************************************)
(* "Decomposing N modules", N being the number of modules in the database, *)
(* for which the display is set up: a successful run decomposed N.         *)
(***************************************************************************)
DecomposesAllModules == status = "success" => count = NMods
=============================================================================
