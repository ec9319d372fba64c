----------------------- MODULE DecomposeAllexesProofs -----------------------
(***************************************************************************)
(* Proofs about decomposeAllexes, for any number of workers, modules and   *)
(* allexes.                                                                *)
(***************************************************************************)
EXTENDS DecomposeAllexes, FiniteSetTheorems, SequenceTheorems, TLAPS

(***************************************************************************)
(* The display is alive while tasks are queued and waited for; at all      *)
(* other times no task is queued and no worker is at one.                  *)
(***************************************************************************)
DisplayInv ==
  /\ alive <=> main \in {"async", "wait"}
  /\ main = "mkdir" => \A w \in Workers : at[w] = "unborn"
  /\ main \notin {"async", "wait"} => queue = <<>> /\ \A w \in Workers : ~Active(w)

(***************************************************************************)
(* Tasks are queued and taken in order: Taken of them have left the queue. *)
(***************************************************************************)
Taken == next - Len(queue)

QueueInv ==
  /\ Taken \in Nat
  /\ \A i \in 1 .. Len(queue) : queue[i] = Taken + i

\* Workers are at different tasks, which have been taken.
TaskInv ==
  /\ \A w \in Workers : Active(w) => task[w] \in 1 .. Taken
  /\ \A v, w \in Workers : v # w /\ Active(v) /\ Active(w) => task[v] # task[w]

(***************************************************************************)
(* The tar file of a task is complete when its worker comes to the lock    *)
(* and not before; a task that was taken has a complete one or a worker    *)
(* that has not come there, and one that was not taken has none.           *)
(***************************************************************************)
BeforeLock == {"load", "create", "split", "exit"}
AfterSplit == {"lock", "read", "write", "unlock"}

TarInv ==
  /\ \A w \in Workers : at[w] \in BeforeLock => tar[task[w]] # "complete"
  /\ \A w \in Workers : at[w] \in AfterSplit => tar[task[w]] = "complete"
  /\ \A t \in 1 .. Taken :
       tar[t] = "complete" \/ \E w \in Workers : at[w] \in BeforeLock /\ task[w] = t
  /\ \A t \in Tasks : t > Taken => tar[t] # "complete"

\* ProgressMtx protects the count: what its holder has loaded stays true.
MutexInv ==
  /\ \A w \in Workers : at[w] \in {"read", "write", "unlock"} => mutex = w
  /\ \A w \in Workers : at[w] = "write" => seen[w] = count

\* All tasks are queued before main waits, and success is the last step.
EndInv ==
  /\ main \in {"wait", "leave", "join"} => next = NTasks
  /\ status = "success" => process = "ended"

PoolInv ==
  TypeOK /\ DisplayInv /\ QueueInv /\ TaskInv /\ TarInv /\ MutexInv /\ EndInv /\ NoTickLost
  /\ SuccessMeansAllDone

-----------------------------------------------------------------------------
(***************************************************************************)
(* The values of the variables are of their types: the pool hands out      *)
(* tasks that exist, whatever their number.                                *)
(***************************************************************************)
LEMMA TaskRange == NTasks \in Nat /\ MaxTasks \in Nat /\ NTasks <= MaxTasks
  BY PoolAssumption DEF NTasks, MaxTasks

LEMMA TypeInit == Init => TypeOK
<1> SUFFICES ASSUME Init PROVE TypeOK
  OBVIOUS
<1>1. 0 \in 0 .. NTasks /\ <<>> \in Seq(Tasks) /\ 0 \in Nat /\ NoWorker \in Workers \cup {NoWorker}
  BY TaskRange
<1>2. tar \in [Tasks -> {"absent", "open", "complete"}]
  BY Zenon DEF Init
<1>3. /\ task \in [Workers -> {0} \cup Tasks] /\ seen \in [Workers -> Nat]
      /\ at \in [Workers -> {"unborn", "idle", "load", "create", "split", "exit", "lock",
                             "read", "write", "unlock", "stopped"}]
  BY <1>1, Zenon DEF Init
<1> QED
  BY <1>1, <1>2, <1>3 DEF Init, TypeOK

LEMMA TypeStep == TypeOK /\ [Next]_vars => TypeOK'
<1> SUFFICES ASSUME TypeOK, [Next]_vars PROVE TypeOK'
  OBVIOUS
<1> USE TaskRange, PoolAssumption DEF Tasks, poolVars, fileVars, progressVars
<1>0. NTasks' = NTasks
  BY DEF Next, MainStep, MakeDirectory, Async, Wait, DestroyPool, ReturnSuccess, EndProcess, Step,
         TakeTask, Stop, Load, CreateTar, SplitIntoTar, AssertFails, ExitOnErr, Lock, ReadCount, WriteCount,
         Unlock, vars, NTasks
<1>1. CASE MakeDirectory
  BY <1>0, <1>1 DEF MakeDirectory, TypeOK
<1>2. CASE Async
  <2>1. CASE next < NTasks
    <3>1. next + 1 \in 1 .. MaxTasks /\ next + 1 \in 0 .. NTasks
      BY <2>1 DEF TypeOK
    <3>2. Append(queue, next + 1) \in Seq(1 .. MaxTasks)
      BY <3>1 DEF TypeOK
    <3> QED
      BY <1>0, <1>2, <2>1, <3>1, <3>2 DEF Async, TypeOK
  <2>2. CASE ~(next < NTasks)
    BY <1>0, <1>2, <2>2 DEF Async, TypeOK
  <2> QED
    BY <2>1, <2>2
<1>3. CASE Wait
  BY <1>0, <1>3 DEF Wait, TypeOK
<1>4. CASE DestroyPool
  BY <1>0, <1>4 DEF DestroyPool, TypeOK
<1>5. CASE ReturnSuccess
  BY <1>0, <1>5 DEF ReturnSuccess, TypeOK
<1>6. CASE EndProcess
  BY <1>0, <1>6 DEF EndProcess, TypeOK
<1>7. CASE \E w \in Workers : Step(w)
  <2> PICK w \in Workers : Step(w)
    BY <1>7
  <2>1. CASE TakeTask(w)
    <3>1. Head(queue) \in 1 .. MaxTasks /\ Tail(queue) \in Seq(1 .. MaxTasks)
      BY <2>1 DEF TakeTask, TypeOK
    <3> QED
      BY <1>0, <2>1, <3>1 DEF TakeTask, TypeOK
  <2>2. CASE Stop(w)
    BY <1>0, <2>2 DEF Stop, TypeOK
  <2>3. CASE Load(w)
    BY <1>0, <2>3 DEF Load, TypeOK
  <2>4. CASE CreateTar(w)
    BY <1>0, <2>4 DEF CreateTar, TypeOK
  <2>5. CASE SplitIntoTar(w)
    BY <1>0, <2>5 DEF SplitIntoTar, TypeOK
  <2>6. CASE ExitOnErr(w)
    BY <1>0, <2>6 DEF ExitOnErr, TypeOK
  <2>7. CASE Lock(w)
    BY <1>0, <2>7 DEF Lock, TypeOK
  <2>8. CASE ReadCount(w)
    BY <1>0, <2>8 DEF ReadCount, TypeOK
  <2>9. CASE WriteCount(w)
    BY <1>0, <2>9 DEF WriteCount, TypeOK
  <2>10. CASE Unlock(w)
    BY <1>0, <2>10 DEF Unlock, TypeOK
  <2>11. CASE AssertFails(w)
    BY <1>0, <2>11 DEF AssertFails, TypeOK
  <2> QED
    BY <2>1, <2>2, <2>3, <2>4, <2>5, <2>6, <2>7, <2>8, <2>9, <2>10, <2>11 DEF Step
<1>8. CASE UNCHANGED vars
  BY <1>0, <1>8 DEF vars, TypeOK
<1> QED
  BY <1>1, <1>2, <1>3, <1>4, <1>5, <1>6, <1>7, <1>8 DEF Next, MainStep

(***************************************************************************)
(* Every variable has its type in every state the pool can reach.          *)
(***************************************************************************)
THEOREM PoolTypeCorrect == Spec => []TypeOK
  BY TypeInit, TypeStep, PTL DEF Spec

-----------------------------------------------------------------------------
LEMMA DisplayInit == Init => DisplayInv
  BY DEF Init, DisplayInv, Active

LEMMA DisplayStep == TypeOK /\ DisplayInv /\ [Next]_vars => DisplayInv'
<1> SUFFICES ASSUME TypeOK, DisplayInv, [Next]_vars PROVE DisplayInv'
  OBVIOUS
<1> USE DEF poolVars, fileVars, progressVars, DisplayInv, Active, TypeOK
<1>1. CASE MakeDirectory
  BY <1>1 DEF MakeDirectory
<1>2. CASE Async
  BY <1>2 DEF Async
<1>3. CASE Wait
  BY <1>3 DEF Wait
<1>4. CASE DestroyPool
  BY <1>4 DEF DestroyPool
<1>5. CASE ReturnSuccess
  BY <1>5 DEF ReturnSuccess
<1>6. CASE EndProcess
  BY <1>6 DEF EndProcess
<1>7. ASSUME NEW w \in Workers, Step(w) PROVE DisplayInv'
  <2>1. CASE TakeTask(w)
    BY <2>1 DEF TakeTask
  <2>2. CASE Stop(w)
    BY <2>2 DEF Stop
  <2>3. CASE Load(w)
    BY <2>3 DEF Load
  <2>4. CASE CreateTar(w)
    BY <2>4 DEF CreateTar
  <2>5. CASE SplitIntoTar(w)
    BY <2>5 DEF SplitIntoTar
  <2>6. CASE ExitOnErr(w)
    BY <2>6 DEF ExitOnErr
  <2>7. CASE Lock(w)
    BY <2>7 DEF Lock
  <2>8. CASE ReadCount(w)
    BY <2>8 DEF ReadCount
  <2>9. CASE WriteCount(w)
    BY <2>9 DEF WriteCount
  <2>10. CASE Unlock(w)
    BY <2>10 DEF Unlock
  <2>11. CASE AssertFails(w)
    BY <2>11 DEF AssertFails
  <2> QED
    BY <1>7, <2>1, <2>2, <2>3, <2>4, <2>5, <2>6, <2>7, <2>8, <2>9, <2>10, <2>11 DEF Step
<1>8. CASE UNCHANGED vars
  BY <1>8 DEF vars
<1> QED
  BY <1>1, <1>2, <1>3, <1>4, <1>5, <1>6, <1>7, <1>8 DEF Next, MainStep

(***************************************************************************)
(* No worker uses the display before it exists or after it is gone, though *)
(* it is destroyed before the workers are joined: the wait is enough.      *)
(***************************************************************************)
THEOREM DisplayOutlivesTasks == Spec => []DisplayAlive
<1>1. TypeOK /\ DisplayInv => DisplayAlive
  BY DEF TypeOK, DisplayInv, DisplayAlive
<1> QED
  BY <1>1, TypeInit, TypeStep, DisplayInit, DisplayStep, PTL DEF Spec

-----------------------------------------------------------------------------
LEMMA OthersInit == Init => QueueInv /\ TaskInv /\ MutexInv /\ EndInv
  BY DEF Init, QueueInv, Taken, TaskInv, MutexInv, EndInv, Active

LEMMA TarInit == Init => TarInv
<1> SUFFICES ASSUME Init PROVE TarInv
  OBVIOUS
<1>0. next = 0 /\ queue = <<>>
  BY Zenon DEF Init
<1>1. Taken = 0
  <2>1. Taken = 0 - 0
    BY <1>0 DEF Taken
  <2> QED
    BY <2>1
<1>2. \A t \in Tasks : tar[t] = "absent"
  BY Zenon DEF Init
<1>3. \A w \in Workers : at[w] = "unborn"
  BY Zenon DEF Init
<1> QED
  BY <1>1, <1>2, <1>3 DEF TarInv, BeforeLock, AfterSplit

\* Nothing but TakeTask hands out a task.
LEMMA QueueStep ==
  ASSUME TypeOK, QueueInv, [Next]_vars
  PROVE  /\ QueueInv'
         /\ \/ Taken' = Taken
            \/ \E w \in Workers : TakeTask(w) /\ Taken' = Taken + 1 /\ task'[w] = Taken + 1
<1>0. queue \in Seq(Tasks) /\ next \in Nat
  BY TaskRange DEF TypeOK
<1>1. CASE Async /\ next < NTasks
  <2>1. next' = next + 1 /\ queue' = Append(queue, next + 1)
    BY <1>1 DEF Async
  <2>2. /\ Len(queue') = Len(queue) + 1
        /\ \A i \in 1 .. Len(queue) : queue'[i] = queue[i]
        /\ queue'[Len(queue) + 1] = next + 1
    BY <1>0, <2>1
  <2>3. Taken' = Taken
    BY <1>0, <2>1, <2>2 DEF Taken
  <2>4. ASSUME NEW i \in 1 .. Len(queue') PROVE queue'[i] = Taken + i
    <3>1. CASE i \in 1 .. Len(queue)
      BY <2>2, <3>1 DEF QueueInv
    <3>2. CASE i = Len(queue) + 1
      BY <1>0, <2>2, <3>2 DEF Taken
    <3> QED
      BY <1>0, <2>2, <3>1, <3>2
  <2> QED
    BY <2>3, <2>4 DEF QueueInv
<1>2. CASE \E w \in Workers : TakeTask(w)
  <2> PICK w \in Workers : TakeTask(w)
    BY <1>2
  <2>1. queue # <<>> /\ queue' = Tail(queue) /\ next' = next /\ task'[w] = Head(queue)
    BY DEF TakeTask, TypeOK
  <2>2. /\ Len(queue) \in Nat \ {0}
        /\ Len(queue') = Len(queue) - 1
        /\ \A i \in 1 .. Len(queue') : queue'[i] = queue[i + 1]
        /\ Head(queue) = queue[1]
    BY <1>0, <2>1
  <2>3. Taken' = Taken + 1
    BY <1>0, <2>1, <2>2 DEF Taken
  <2>4. \A i \in 1 .. Len(queue') : queue'[i] = Taken' + i
    BY <2>2, <2>3 DEF QueueInv
  <2>5. task'[w] = Taken + 1
    BY <2>1, <2>2 DEF QueueInv
  <2> QED
    BY <2>3, <2>4, <2>5 DEF QueueInv
<1>3. CASE UNCHANGED <<next, queue>>
  BY <1>3 DEF QueueInv, Taken
<1> QED
  <2>1. MainStep \/ EndProcess => (Async /\ next < NTasks) \/ UNCHANGED <<next, queue>>
    BY DEF MainStep, MakeDirectory, Async, Wait, DestroyPool, ReturnSuccess, EndProcess, poolVars
  <2>2. \A w \in Workers : Step(w) => TakeTask(w) \/ UNCHANGED <<next, queue>>
    BY DEF Step, Stop, Load, CreateTar, SplitIntoTar, AssertFails, ExitOnErr, Lock, ReadCount, WriteCount,
           Unlock, poolVars
  <2>3. UNCHANGED vars => UNCHANGED <<next, queue>>
    BY DEF vars
  <2> QED
    BY <1>1, <1>2, <1>3, <2>1, <2>2, <2>3 DEF Next

LEMMA TakenSame ==
  ASSUME TypeOK, QueueInv, [Next]_vars, \A w \in Workers : ~TakeTask(w)
  PROVE  Taken' = Taken
  BY QueueStep

LEMMA TakenNext ==
  ASSUME TypeOK, QueueInv, NEW w \in Workers, TakeTask(w)
  PROVE  Taken' = Taken + 1 /\ task'[w] = Taken + 1 /\ Taken \in Nat
<1>0. queue \in Seq(Tasks) /\ next \in Nat
  BY TaskRange DEF TypeOK
<1>1. queue # <<>> /\ queue' = Tail(queue) /\ next' = next /\ task'[w] = Head(queue)
  BY DEF TakeTask, TypeOK
<1>2. Len(queue) \in Nat \ {0} /\ Len(queue') = Len(queue) - 1 /\ Head(queue) = queue[1]
  BY <1>0, <1>1
<1> QED
  BY <1>0, <1>1, <1>2 DEF QueueInv, Taken

LEMMA TaskStep ==
  ASSUME TypeOK, DisplayInv, QueueInv, TaskInv, [Next]_vars
  PROVE  TaskInv'
<1> USE DEF poolVars, fileVars, progressVars, Active
<1>0. /\ at \in [Workers -> {"unborn", "idle", "load", "create", "split", "exit", "lock",
                              "read", "write", "unlock", "stopped"}]
      /\ task \in [Workers -> {0} \cup Tasks]
  BY DEF TypeOK
<1>1. ASSUME Taken' = Taken, UNCHANGED task,
             \A w \in Workers : Active(w)' => Active(w)
      PROVE  TaskInv'
  BY <1>1 DEF TaskInv
<1>2. ASSUME NEW w \in Workers, TakeTask(w) PROVE TaskInv'
  <2>1. Taken' = Taken + 1 /\ task'[w] = Taken + 1 /\ Taken \in Nat
    BY <1>2, TakenNext
  <2>2. at[w] = "idle" /\ at' = [at EXCEPT ![w] = "load"]
    BY <1>2 DEF TakeTask
  <2>3. \A v \in Workers : v # w => task'[v] = task[v] /\ at'[v] = at[v]
    BY <1>0, <1>2 DEF TakeTask
  <2>4. \A v \in Workers : v # w /\ Active(v)' => task'[v] \in 1 .. Taken
    BY <2>3 DEF TaskInv
  <2> QED
    BY <2>1, <2>3, <2>4 DEF TaskInv
<1>3. ASSUME \A w \in Workers : ~TakeTask(w) PROVE TaskInv'
  <2>1. Taken' = Taken
    BY <1>3, TakenSame
  <2>2. MainStep \/ EndProcess => UNCHANGED task /\ \A w \in Workers : Active(w)' => Active(w)
    BY <1>0 DEF MainStep, MakeDirectory, Async, Wait, DestroyPool, ReturnSuccess, EndProcess
  <2>3. ASSUME NEW w \in Workers, Step(w)
        PROVE  UNCHANGED task /\ \A v \in Workers : Active(v)' => Active(v)
    BY <1>0, <1>3, <2>3 DEF Step, Stop, Load, CreateTar, SplitIntoTar, AssertFails, ExitOnErr, Lock, ReadCount,
                       WriteCount, Unlock
  <2>4. UNCHANGED vars => UNCHANGED task /\ \A w \in Workers : Active(w)' => Active(w)
    BY DEF vars
  <2> QED
    BY <1>1, <2>1, <2>2, <2>3, <2>4 DEF Next
<1> QED
  BY <1>2, <1>3

LEMMA MutexStep ==
  ASSUME TypeOK, MutexInv, [Next]_vars
  PROVE  MutexInv'
<1> USE DEF MutexInv, poolVars, fileVars, progressVars
<1>0. /\ at \in [Workers -> {"unborn", "idle", "load", "create", "split", "exit", "lock",
                              "read", "write", "unlock", "stopped"}]
      /\ seen \in [Workers -> Nat] /\ NoWorker \notin Workers
  BY PoolAssumption DEF TypeOK
<1>1. MainStep \/ EndProcess => MutexInv'
  BY <1>0 DEF MainStep, MakeDirectory, Async, Wait, DestroyPool, ReturnSuccess, EndProcess
<1>2. ASSUME NEW w \in Workers, Step(w) PROVE MutexInv'
  <2>1. CASE Lock(w)
    BY <1>0, <2>1 DEF Lock
  <2>2. CASE ReadCount(w)
    BY <1>0, <2>2 DEF ReadCount
  <2>3. CASE WriteCount(w)
    BY <1>0, <2>3 DEF WriteCount
  <2>4. CASE Unlock(w)
    BY <1>0, <2>4 DEF Unlock
  <2>5. CASE TakeTask(w) \/ Stop(w) \/ Load(w) \/ CreateTar(w) \/ SplitIntoTar(w)
             \/ AssertFails(w) \/ ExitOnErr(w)
    BY <1>0, <2>5 DEF TakeTask, Stop, Load, CreateTar, SplitIntoTar, AssertFails, ExitOnErr
  <2> QED
    BY <1>2, <2>1, <2>2, <2>3, <2>4, <2>5 DEF Step
<1>3. UNCHANGED vars => MutexInv'
  BY DEF vars
<1> QED
  BY <1>1, <1>2, <1>3 DEF Next

LEMMA EndStep ==
  ASSUME TypeOK, EndInv, [Next]_vars
  PROVE  EndInv'
<1> USE DEF EndInv, poolVars, fileVars, progressVars, TypeOK, NTasks
<1>1. MainStep \/ EndProcess => EndInv'
  BY TaskRange DEF MainStep, MakeDirectory, Async, Wait, DestroyPool, ReturnSuccess, EndProcess
<1>2. \A w \in Workers : Step(w) => EndInv'
  BY DEF Step, TakeTask, Stop, Load, CreateTar, SplitIntoTar, AssertFails, ExitOnErr, Lock, ReadCount,
         WriteCount, Unlock
<1>3. UNCHANGED vars => EndInv'
  BY DEF vars
<1> QED
  BY <1>1, <1>2, <1>3 DEF Next

-----------------------------------------------------------------------------
\* The tasks of workers, and all that were taken, have a tar file.
LEMMA TakenRange ==
  ASSUME TypeOK, QueueInv, TaskInv
  PROVE  /\ Taken \in 0 .. MaxTasks
         /\ \A w \in Workers : Active(w) => task[w] \in Tasks
<1>1. queue \in Seq(Tasks) /\ next \in 0 .. NTasks
  BY DEF TypeOK
<1>2. Len(queue) \in Nat
  BY <1>1
<1>3. Taken \in 0 .. MaxTasks
  BY <1>1, <1>2, TaskRange DEF QueueInv, Taken
<1> QED
  BY <1>3, TaskRange DEF TaskInv, Tasks

LEMMA TarStep ==
  ASSUME TypeOK, DisplayInv, QueueInv, TaskInv, TarInv, [Next]_vars
  PROVE  TarInv'
<1> USE DEF poolVars, fileVars, progressVars, BeforeLock, AfterSplit, Active
<1>0. /\ at \in [Workers -> {"unborn", "idle", "load", "create", "split", "exit", "lock",
                              "read", "write", "unlock", "stopped"}]
      /\ task \in [Workers -> {0} \cup Tasks]
      /\ tar \in [Tasks -> {"absent", "open", "complete"}]
      /\ Taken \in 0 .. MaxTasks /\ MaxTasks \in Nat
      /\ \A w \in Workers : Active(w) => task[w] \in Tasks
  BY TakenRange, TaskRange DEF TypeOK
<1>1. ASSUME UNCHANGED <<tar, task>>, \A w \in Workers : ~TakeTask(w),
             \A w \in Workers : /\ (at'[w] \in BeforeLock) <=> (at[w] \in BeforeLock)
                                /\ at'[w] \in AfterSplit => at[w] \in AfterSplit
      PROVE  TarInv'
  <2>1. Taken' = Taken
    BY <1>1, TakenSame
  <2>2. Tasks' = Tasks
    BY DEF Tasks, MaxTasks
  <2> QED
    BY <1>1, <2>1, <2>2 DEF TarInv
<1>2. ASSUME NEW w \in Workers, TakeTask(w) PROVE TarInv'
  <2>1. Taken' = Taken + 1 /\ task'[w] = Taken + 1 /\ Taken \in Nat
    BY <1>2, TakenNext
  <2>2. at[w] = "idle" /\ at'[w] = "load" /\ tar' = tar
    BY <1>0, <1>2 DEF TakeTask
  <2>3. \A v \in Workers : v # w => task'[v] = task[v] /\ at'[v] = at[v]
    BY <1>0, <1>2 DEF TakeTask
  <2>4. Taken + 1 \in Tasks
    BY <2>1, TypeStep DEF TypeOK
  <2>5. \A v \in Workers : at'[v] \in BeforeLock => tar'[task'[v]] # "complete"
    <3>1. tar[Taken + 1] # "complete"
      BY <2>1, <2>4 DEF TarInv
    <3> QED
      BY <2>1, <2>2, <2>3, <3>1 DEF TarInv
  <2>6. \A v \in Workers : at'[v] \in AfterSplit => tar'[task'[v]] = "complete"
    BY <2>2, <2>3 DEF TarInv
  <2>7. ASSUME NEW t \in 1 .. Taken'
        PROVE  tar'[t] = "complete" \/ \E v \in Workers : at'[v] \in BeforeLock /\ task'[v] = t
    <3>1. CASE t = Taken + 1
      BY <2>1, <2>2, <3>1
    <3>2. CASE t \in 1 .. Taken
      <4>1. CASE tar[t] = "complete"
        BY <2>2, <4>1
      <4>2. CASE tar[t] # "complete"
        <5> PICK v \in Workers : at[v] \in BeforeLock /\ task[v] = t
          BY <3>2, <4>2 DEF TarInv
        <5> QED
          BY <2>2, <2>3
      <4> QED
        BY <4>1, <4>2
    <3> QED
      BY <2>1, <3>1, <3>2
  <2>8. \A t \in Tasks : t > Taken' => tar'[t] # "complete"
    BY <2>1, <2>2 DEF TarInv, Tasks
  <2>9. Tasks' = Tasks
    BY DEF Tasks, MaxTasks
  <2> QED
    BY <2>5, <2>6, <2>7, <2>8, <2>9 DEF TarInv
<1>3. ASSUME NEW w \in Workers, CreateTar(w) \/ SplitIntoTar(w) PROVE TarInv'
  <2>1. /\ Active(w) /\ at[w] \in BeforeLock /\ UNCHANGED <<task, next, queue>>
        /\ \A v \in Workers : v # w => at'[v] = at[v]
        /\ \A t \in Tasks : t # task[w] => tar'[t] = tar[t]
    BY <1>0, <1>3 DEF CreateTar, SplitIntoTar
  <2>2. \/ at'[w] = "split" /\ tar'[task[w]] = "open"
        \/ at'[w] = "lock" /\ tar'[task[w]] = "complete"
    BY <1>0, <1>3 DEF CreateTar, SplitIntoTar
  <2>3. \A v \in Workers : v # w /\ Active(v) => task[v] \in Tasks /\ task[v] # task[w]
    BY <1>0, <2>1 DEF TaskInv
  <2>4. Taken' = Taken /\ Tasks' = Tasks
    BY <2>1 DEF Taken, Tasks, MaxTasks
  <2>5. \A v \in Workers : at'[v] \in BeforeLock => tar'[task'[v]] # "complete"
    BY <2>1, <2>2, <2>3 DEF TarInv
  <2>6. \A v \in Workers : at'[v] \in AfterSplit => tar'[task'[v]] = "complete"
    BY <2>1, <2>2, <2>3 DEF TarInv
  <2>7. ASSUME NEW t \in 1 .. Taken
        PROVE  tar'[t] = "complete" \/ \E v \in Workers : at'[v] \in BeforeLock /\ task'[v] = t
    <3>0. t \in Tasks
      BY <1>0 DEF Tasks
    <3>1. CASE t = task[w]
      BY <2>1, <2>2, <3>1
    <3>2. CASE t # task[w]
      BY <2>1, <3>0, <3>2 DEF TarInv
    <3> QED
      BY <3>1, <3>2
  <2>8. \A t \in Tasks : t > Taken => tar'[t] # "complete"
    <3>1. ~(task[w] > Taken)
      BY <1>0, <2>1 DEF TaskInv
    <3> QED
      BY <2>1, <3>1 DEF TarInv
  <2> QED
    BY <2>4, <2>5, <2>6, <2>7, <2>8 DEF TarInv
<1>4. ASSUME NEW w \in Workers, Step(w) PROVE TarInv'
  <2>1. CASE TakeTask(w)
    BY <1>2, <2>1
  <2>2. CASE CreateTar(w) \/ SplitIntoTar(w)
    BY <1>3, <2>2
  <2>3. CASE Stop(w) \/ Load(w) \/ AssertFails(w) \/ ExitOnErr(w)
             \/ Lock(w) \/ ReadCount(w) \/ WriteCount(w) \/ Unlock(w)
    <3>1. /\ UNCHANGED <<tar, task, queue>>
          /\ \A v \in Workers : /\ (at'[v] \in BeforeLock) <=> (at[v] \in BeforeLock)
                                /\ at'[v] \in AfterSplit => at[v] \in AfterSplit
      BY <1>0, <2>3 DEF Stop, Load, AssertFails, ExitOnErr, Lock, ReadCount, WriteCount, Unlock
    <3>2. \A v \in Workers : ~TakeTask(v)
      BY <1>0, <3>1 DEF TakeTask
    <3> QED
      BY <1>1, <3>1, <3>2
  <2> QED
    BY <1>4, <2>1, <2>2, <2>3 DEF Step
<1>5. ASSUME MainStep \/ EndProcess \/ UNCHANGED vars PROVE TarInv'
  <2>1. /\ UNCHANGED <<tar, task>>
        /\ \A v \in Workers : /\ (at'[v] \in BeforeLock) <=> (at[v] \in BeforeLock)
                              /\ at'[v] \in AfterSplit => at[v] \in AfterSplit
    BY <1>0, <1>5 DEF MainStep, MakeDirectory, Async, Wait, DestroyPool, ReturnSuccess, EndProcess, vars,
                      DisplayInv
  <2>2. \A v \in Workers : ~TakeTask(v)
    BY <1>0, <1>5 DEF TakeTask, MainStep, MakeDirectory, Async, Wait, DestroyPool, ReturnSuccess,
                      EndProcess, vars, DisplayInv
  <2> QED
    BY <1>1, <2>1, <2>2
<1> QED
  BY <1>4, <1>5 DEF Next

-----------------------------------------------------------------------------
LEMMA TickInit == Init => NoTickLost
<1> SUFFICES ASSUME Init PROVE NoTickLost
  OBVIOUS
<1>1. \A t \in Tasks : tar[t] = "absent"
  BY Zenon DEF Init
<1>2. {t \in Tasks : tar[t] = "complete" /\ ~TickPending(t)} = {}
  BY <1>1
<1>3. count = 0
  BY Zenon DEF Init
<1> QED
  BY <1>2, <1>3, FS_EmptySet DEF NoTickLost

(***************************************************************************)
(* Only WriteCount changes what NoTickLost compares: it adds a task to the *)
(* counted ones and, since what its worker has loaded is the count, one to *)
(* the count.                                                              *)
(***************************************************************************)
Pending == {"lock", "read", "write"}

LEMMA TickStep ==
  ASSUME TypeOK, DisplayInv, QueueInv, TaskInv, TarInv, MutexInv, NoTickLost, [Next]_vars
  PROVE  NoTickLost'
<1> DEFINE Counted == {t \in Tasks : tar[t] = "complete" /\ ~TickPending(t)}
<1> USE DEF poolVars, fileVars, progressVars, Pending, Active
<1>0. /\ at \in [Workers -> {"unborn", "idle", "load", "create", "split", "exit", "lock",
                              "read", "write", "unlock", "stopped"}]
      /\ task \in [Workers -> {0} \cup Tasks]
      /\ tar \in [Tasks -> {"absent", "open", "complete"}]
      /\ count \in Nat
      /\ \A w \in Workers : Active(w) => task[w] \in Tasks
      /\ count = Cardinality(Counted)
      /\ Tasks' = Tasks
  BY TakenRange DEF TypeOK, NoTickLost, Tasks, MaxTasks
<1>1. ASSUME UNCHANGED <<tar, count>>,
             \A w \in Workers : /\ (at'[w] \in Pending) <=> (at[w] \in Pending)
                                /\ at[w] \in Pending => task'[w] = task[w]
      PROVE  NoTickLost'
  <2>1. \A t \in Tasks : TickPending(t)' <=> TickPending(t)
    BY <1>1 DEF TickPending
  <2>2. Counted' = Counted
    BY <1>0, <1>1, <2>1
  <2> QED
    BY <1>0, <1>1, <2>2 DEF NoTickLost
<1>2. ASSUME NEW w \in Workers, CreateTar(w) PROVE NoTickLost'
  <2>1. /\ at[w] = "create" /\ at'[w] = "split" /\ UNCHANGED <<task, count>>
        /\ \A v \in Workers : v # w => at'[v] = at[v]
        /\ \A t \in Tasks : t # task[w] => tar'[t] = tar[t]
        /\ task[w] \in Tasks /\ tar'[task[w]] = "open"
    BY <1>0, <1>2 DEF CreateTar
  <2>2. tar[task[w]] # "complete"
    BY <2>1 DEF TarInv, BeforeLock
  <2>3. \A t \in Tasks : TickPending(t)' <=> TickPending(t)
    BY <2>1 DEF TickPending
  <2>4. \A t \in Tasks : (tar'[t] = "complete") <=> (tar[t] = "complete")
    BY <2>1, <2>2
  <2>5. Counted' = Counted
    BY <1>0, <2>3, <2>4
  <2> QED
    BY <1>0, <2>1, <2>5 DEF NoTickLost
<1>3. ASSUME NEW w \in Workers, SplitIntoTar(w) PROVE NoTickLost'
  <2>1. /\ at[w] = "split" /\ at'[w] = "lock" /\ UNCHANGED <<task, count>>
        /\ \A v \in Workers : v # w => at'[v] = at[v]
        /\ \A t \in Tasks : t # task[w] => tar'[t] = tar[t]
        /\ task[w] \in Tasks
    BY <1>0, <1>3 DEF SplitIntoTar
  <2>2. tar[task[w]] # "complete" /\ TickPending(task[w])'
    BY <2>1 DEF TarInv, BeforeLock, TickPending
  <2>3. \A t \in Tasks : t # task[w] => (TickPending(t)' <=> TickPending(t))
    BY <2>1 DEF TickPending
  <2>4. Counted' = Counted
    BY <1>0, <2>1, <2>2, <2>3
  <2> QED
    BY <1>0, <2>1, <2>4 DEF NoTickLost
<1>4. ASSUME NEW w \in Workers, WriteCount(w) PROVE NoTickLost'
  <2>1. /\ at[w] = "write" /\ at'[w] = "unlock" /\ UNCHANGED <<tar, task>>
        /\ \A v \in Workers : v # w => at'[v] = at[v]
        /\ task[w] \in Tasks
    BY <1>0, <1>4 DEF WriteCount
  <2>2. count' = count + 1
    BY <1>4, <2>1 DEF WriteCount, MutexInv
  <2>3. tar[task[w]] = "complete" /\ TickPending(task[w])
    BY <2>1 DEF TarInv, AfterSplit, TickPending
  <2>4. ~TickPending(task[w])'
    <3>1. \A v \in Workers : v # w /\ Active(v) => task[v] # task[w]
      BY <2>1 DEF TaskInv
    <3> QED
      BY <2>1, <3>1 DEF TickPending
  <2>5. \A t \in Tasks : t # task[w] => (TickPending(t)' <=> TickPending(t))
    BY <2>1 DEF TickPending
  <2>6. Counted' = Counted \cup {task[w]} /\ task[w] \notin Counted
    BY <1>0, <2>1, <2>3, <2>4, <2>5
  <2>7. IsFiniteSet(Counted)
    <3>1. IsFiniteSet(Tasks)
      BY TaskRange, FS_Interval DEF Tasks
    <3>2. Counted \in SUBSET Tasks
      OBVIOUS
    <3> HIDE DEF Counted
    <3> QED
      BY <3>1, <3>2, FS_Subset
  <2>8. Cardinality(Counted') = Cardinality(Counted) + 1
    <3> HIDE DEF Counted
    <3> QED
      BY <2>6, <2>7, FS_AddElement
  <2> QED
    BY <1>0, <2>2, <2>8 DEF NoTickLost
<1>5. ASSUME NEW w \in Workers, Step(w) PROVE NoTickLost'
  <2>1. CASE CreateTar(w) \/ SplitIntoTar(w) \/ WriteCount(w)
    BY <1>2, <1>3, <1>4, <2>1
  <2>2. CASE TakeTask(w) \/ Stop(w) \/ Load(w) \/ AssertFails(w) \/ ExitOnErr(w)
             \/ Lock(w) \/ ReadCount(w) \/ Unlock(w)
    <3>1. /\ UNCHANGED <<tar, count>>
          /\ \A v \in Workers : /\ (at'[v] \in Pending) <=> (at[v] \in Pending)
                                /\ at[v] \in Pending => task'[v] = task[v]
      BY <1>0, <2>2 DEF TakeTask, Stop, Load, AssertFails, ExitOnErr, Lock, ReadCount, Unlock
    <3> QED
      BY <1>1, <3>1
  <2> QED
    BY <1>5, <2>1, <2>2 DEF Step
<1>6. ASSUME MainStep \/ EndProcess \/ UNCHANGED vars PROVE NoTickLost'
  <2>1. /\ UNCHANGED <<tar, count>>
        /\ \A v \in Workers : /\ (at'[v] \in Pending) <=> (at[v] \in Pending)
                              /\ at[v] \in Pending => task'[v] = task[v]
    BY <1>0, <1>6 DEF MainStep, MakeDirectory, Async, Wait, DestroyPool, ReturnSuccess, EndProcess, vars,
                      DisplayInv
  <2> QED
    BY <1>1, <2>1
<1> QED
  BY <1>5, <1>6 DEF Next

-----------------------------------------------------------------------------
(***************************************************************************)
(* What holds when main has joined the workers.                            *)
(***************************************************************************)
LEMMA JoinedMeansAllDone ==
  ASSUME TypeOK, DisplayInv, QueueInv, TaskInv, TarInv, EndInv, NoTickLost, main = "join"
  PROVE  (\A t \in 1 .. NTasks : tar[t] = "complete") /\ count = NTasks
<1>1. queue = <<>> /\ next = NTasks /\ \A w \in Workers : ~Active(w)
  BY DEF DisplayInv, EndInv
<1>2. Taken = NTasks
  <2>1. Len(queue) = 0
    BY <1>1
  <2> QED
    BY <1>1, <2>1, TaskRange DEF Taken
<1>3. \A w \in Workers : at[w] \in {"unborn", "idle", "stopped"}
  BY <1>1 DEF Active, TypeOK
<1>4. \A t \in 1 .. NTasks : tar[t] = "complete"
  BY <1>2, <1>3 DEF TarInv, BeforeLock
<1>5. {t \in Tasks : tar[t] = "complete" /\ ~TickPending(t)} = 1 .. NTasks
  <2>1. \A t \in Tasks : ~TickPending(t)
    BY <1>3 DEF TickPending
  <2>2. \A t \in Tasks : t > NTasks => tar[t] # "complete"
    BY <1>2 DEF TarInv
  <2> QED
    BY <1>4, <2>1, <2>2, TaskRange DEF Tasks
<1>6. Cardinality(1 .. NTasks) = NTasks
  BY TaskRange, FS_Interval
<1> QED
  BY <1>4, <1>5, <1>6 DEF NoTickLost

LEMMA SuccessStep ==
  ASSUME TypeOK, DisplayInv, QueueInv, TaskInv, TarInv, EndInv, NoTickLost, SuccessMeansAllDone,
         [Next]_vars
  PROVE  SuccessMeansAllDone'
<1> USE DEF poolVars, fileVars, progressVars
<1>1. CASE ReturnSuccess
  <2>1. (\A t \in 1 .. NTasks : tar[t] = "complete") /\ count = NTasks
    BY <1>1, JoinedMeansAllDone DEF ReturnSuccess
  <2>2. UNCHANGED <<extract, tar, count>>
    BY <1>1 DEF ReturnSuccess
  <2> QED
    BY <2>1, <2>2 DEF SuccessMeansAllDone, NTasks
<1>2. CASE UNCHANGED vars
  BY <1>2 DEF vars, SuccessMeansAllDone, NTasks
<1>3. CASE Next /\ ~ReturnSuccess
  <2>1. process # "ended"
    BY <1>3 DEF Next, MainStep, MakeDirectory, Async, Wait, DestroyPool, EndProcess, Step,
                TakeTask, Stop, Load, CreateTar, SplitIntoTar, AssertFails, ExitOnErr, Lock, ReadCount,
                WriteCount, Unlock
  <2>2. status' \in {status, "failure"}
    BY <1>3 DEF Next, MainStep, MakeDirectory, Async, Wait, DestroyPool, EndProcess, Step,
                TakeTask, Stop, Load, CreateTar, SplitIntoTar, AssertFails, ExitOnErr, Lock, ReadCount,
                WriteCount, Unlock
  <2> QED
    BY <2>1, <2>2 DEF EndInv, SuccessMeansAllDone
<1> QED
  BY <1>1, <1>2, <1>3

(***************************************************************************)
(* The invariant of the pool: everything above holds together.             *)
(***************************************************************************)
LEMMA PoolInvariant == Spec => []PoolInv
<1>1. Init => PoolInv
  BY TypeInit, DisplayInit, OthersInit, TarInit, TickInit DEF PoolInv, SuccessMeansAllDone, Init
<1>2. PoolInv /\ [Next]_vars => PoolInv'
  BY TypeStep, DisplayStep, QueueStep, TaskStep, TarStep, MutexStep, EndStep, TickStep, SuccessStep
     DEF PoolInv
<1> QED
  BY <1>1, <1>2, PTL DEF Spec

(***************************************************************************)
(* No increment of the display is lost, however many workers there are and *)
(* in whatever order they come to the lock.                                *)
(***************************************************************************)
THEOREM TicksCounted == Spec => []NoTickLost
<1>1. PoolInv => NoTickLost
  BY DEF PoolInv
<1> QED
  BY <1>1, PoolInvariant, PTL

(***************************************************************************)
(* Success is returned only when every task has its complete tar file and  *)
(* was counted.                                                            *)
(***************************************************************************)
THEOREM SuccessIsComplete == Spec => []SuccessMeansAllDone
<1>1. PoolInv => SuccessMeansAllDone
  BY DEF PoolInv
<1> QED
  BY <1>1, PoolInvariant, PTL

=============================================================================
