-------------------------- MODULE ThreadPoolProofs ----------------------------
(***************************************************************************)
(* Proofs about ThreadPool, for every set of workers, callers and tasks.   *)
(*                                                                         *)
(* The inductive invariant is the conjunction IInv of named parts. Each    *)
(* part has a lemma of its own saying that every step preserves it, given  *)
(* the parts it rests on; the theorems at the end assemble them.           *)
(***************************************************************************)
EXTENDS ThreadPool, SequenceTheorems, TLAPS

-------------------------------------------------------------------------------
(* The parts of the inductive invariant *)

\* A thread that is about to push or to call a task has one in hand.
HandInv ==
  \A t \in Workers \cup Callers : pc[t] \in {"run", "enqueue"} => task[t] \in Tasks

\* The mutex is held by exactly the thread that is inside a critical section.
MutexInv ==
  \A t \in Threads : queue_mutex = t <=> pc[t] \in {"check", "park", "enqueue", "dtor"}

WaitInv == \A w \in waiting : pc[w] = "wait"

StopInv == stop <=> pc[Owner] \in {"notify_all", "join", "destroyed"}

\* A worker decides to block only on an empty queue of a running pool, and
\* nobody can change either before it blocks.
ParkInv == \A w \in Workers : pc[w] = "park" => ~stop /\ tasks = <<>>

\* A worker that has left has seen the queue empty, and it stays empty.
ExitInv ==
  /\ \A w \in Workers : pc[w] = "exited" => stop /\ tasks = <<>>
  /\ pc[Owner] = "destroyed" => \A w \in Workers : pc[w] = "exited"

\* A task that is queued, about to be pushed or about to be called is pending.
PendingInv ==
  /\ \A i \in DOMAIN tasks : future[tasks[i]] = "pending"
  /\ \A c \in Callers : pc[c] = "enqueue" => future[task[c]] = "pending"
  /\ \A w \in Workers : pc[w] = "run" => future[task[w]] = "pending"

\* ... and is so in one place only.
OnePlaceInv ==
  /\ \A i, j \in DOMAIN tasks : tasks[i] = tasks[j] => i = j
  /\ \A t \in Workers \cup Callers : pc[t] \in {"run", "enqueue"} =>
       /\ \A i \in DOMAIN tasks : tasks[i] # task[t]
       /\ \A u \in Workers \cup Callers :
            pc[u] \in {"run", "enqueue"} /\ u # t => task[u] # task[t]

\* A task that was pushed has run, is being run or is queued.
Accounted(x) ==
  \/ future[x] = "ready"
  \/ \E j \in DOMAIN tasks : tasks[j] = x
  \/ \E w \in Workers : pc[w] = "run" /\ task[w] = x

AcceptedInv == \A i \in DOMAIN enqueued : Accounted(enqueued[i])

Typed == TypeOK /\ HandInv

Locking == MutexInv /\ WaitInv /\ StopInv

Places == PendingInv /\ OnePlaceInv

IInv ==
  /\ Typed
  /\ Locking
  /\ ParkInv
  /\ ExitInv
  /\ Places
  /\ AcceptedInv
  /\ StartedInOrder
  /\ NoStrandedTask
  /\ NoSleepThroughStop

-------------------------------------------------------------------------------
(* Typing and locking *)

LEMMA TypeInit == Init => Typed
<1> SUFFICES ASSUME Init PROVE Typed
  OBVIOUS
<1> USE PoolAssumption DEF Init, Threads, WorkerPC, CallerPC, OwnerPC
<1>1. /\ \A w \in Workers : pc[w] = "lock"
      /\ \A c \in Callers : pc[c] = "idle"
      /\ pc[Owner] = "alive"
  OBVIOUS
<1>2. pc \in [Threads -> WorkerPC \cup CallerPC \cup OwnerPC]
  OBVIOUS
<1>3. TypeOK
  <2>1. /\ tasks \in Seq(Tasks) /\ enqueued \in Seq(Tasks) /\ started \in Seq(Tasks)
    BY EmptySeq
  <2>2. /\ task \in [Workers \cup Callers -> Tasks \cup {None}]
        /\ future \in [Tasks -> {"none", "pending", "ready", "thrown"}]
    OBVIOUS
  <2> QED
    BY <1>1, <1>2, <2>1, <2>2 DEF TypeOK
<1>4. HandInv
  BY <1>1 DEF HandInv
<1> QED
  BY <1>3, <1>4 DEF Typed

\* No step takes a variable out of its type.
LEMMA TypeStep == Typed /\ [Next]_vars => Typed'
<1> SUFFICES ASSUME Typed, [Next]_vars PROVE Typed'
  OBVIOUS
<1> USE PoolAssumption DEF Typed, TypeOK, HandInv, Threads, WorkerPC, CallerPC, OwnerPC, Goto
<1>1. ASSUME NEW c \in Callers, NEW t \in Tasks, EnqueueLock(c, t) PROVE Typed'
  BY <1>1 DEF EnqueueLock, Lock
<1>2. ASSUME NEW c \in Callers, EnqueueThrow(c) PROVE Typed'
  BY <1>2 DEF EnqueueThrow, Unlock
<1>3. ASSUME NEW c \in Callers, EnqueuePush(c) PROVE Typed'
  BY <1>3 DEF EnqueuePush, Unlock, PushedTask
<1>4. ASSUME NEW c \in Callers, NotifyOne(c) PROVE Typed'
  BY <1>4 DEF NotifyOne, WakeOne
<1>5. ASSUME NEW w \in Workers, Acquire(w) PROVE Typed'
  BY <1>5 DEF Acquire, Lock
<1>6. ASSUME NEW w \in Workers, CheckFails(w) PROVE Typed'
  BY <1>6 DEF CheckFails
<1>7. ASSUME NEW w \in Workers, Park(w) PROVE Typed'
  BY <1>7 DEF Park, Unlock
<1>8. ASSUME NEW w \in Workers, SpuriousWakeup(w) PROVE Typed'
  BY <1>8 DEF SpuriousWakeup
<1>9. ASSUME NEW w \in Workers, Return(w) PROVE Typed'
  BY <1>9 DEF Return, Unlock
<1>10. ASSUME NEW w \in Workers, TakeTask(w) PROVE Typed'
  BY <1>10, HeadTailProperties
  DEF TakeTask, Unlock, NextTask, RemainingTasks, WaitPredicate, MayReturn
<1>11. ASSUME NEW w \in Workers, RunTask(w) PROVE Typed'
  BY <1>11 DEF RunTask
<1>12. ASSUME NEW w \in Workers, DropTask(w) PROVE Typed'
  BY <1>12 DEF DropTask
<1>13. CASE Destructor
  <2>1. CASE DtorLock \/ DtorStop
    BY <2>1, ZenonT(30) DEF DtorLock, DtorStop, Lock, Unlock
  <2>2. CASE DtorNotifyAll \/ DtorJoin
    BY <2>2, ZenonT(30) DEF DtorNotifyAll, DtorJoin
  <2> QED
    BY <1>13, <2>1, <2>2 DEF Destructor
<1>14. CASE UNCHANGED vars
  BY <1>14 DEF vars
<1> QED
  BY <1>1, <1>2, <1>3, <1>4, <1>5, <1>6, <1>7, <1>8, <1>9, <1>10, <1>11, <1>12,
     <1>13, <1>14 DEF Next, Caller, Worker

LEMMA LockingInit == Init => Locking
<1> SUFFICES ASSUME Init PROVE Locking
  OBVIOUS
<1>1. \A t \in Threads : pc[t] \in {"lock", "idle", "alive"}
  BY DEF Init
<1>2. \A t \in Threads : queue_mutex # t
  BY PoolAssumption DEF Init, Threads
<1>3. pc[Owner] = "alive"
  BY PoolAssumption DEF Init, Threads
<1> QED
  BY <1>1, <1>2, <1>3 DEF Init, Locking, MutexInv, WaitInv, StopInv

\* Mutual exclusion, the wait set and the stop flag follow the program counters.
LEMMA LockingStep == Typed /\ Locking /\ [Next]_vars => Locking'
<1> SUFFICES ASSUME Typed, Locking, [Next]_vars PROVE Locking'
  OBVIOUS
<1> USE PoolAssumption DEF Typed, TypeOK, HandInv, Threads, WorkerPC, CallerPC, OwnerPC,
    Locking, MutexInv, WaitInv, StopInv, Goto
<1>1. ASSUME NEW c \in Callers, NEW t \in Tasks, EnqueueLock(c, t) PROVE Locking'
  BY <1>1 DEF EnqueueLock, Lock
<1>2. ASSUME NEW c \in Callers, EnqueueThrow(c) PROVE Locking'
  BY <1>2 DEF EnqueueThrow, Unlock
<1>3. ASSUME NEW c \in Callers, EnqueuePush(c) PROVE Locking'
  BY <1>3 DEF EnqueuePush, Unlock
<1>4. ASSUME NEW c \in Callers, NotifyOne(c) PROVE Locking'
  BY <1>4 DEF NotifyOne, WakeOne
<1>5. ASSUME NEW w \in Workers, Acquire(w) PROVE Locking'
  BY <1>5 DEF Acquire, Lock
<1>6. ASSUME NEW w \in Workers, CheckFails(w) PROVE Locking'
  BY <1>6 DEF CheckFails
<1>7. ASSUME NEW w \in Workers, Park(w) PROVE Locking'
  BY <1>7 DEF Park, Unlock
<1>8. ASSUME NEW w \in Workers, SpuriousWakeup(w) PROVE Locking'
  BY <1>8 DEF SpuriousWakeup
<1>9. ASSUME NEW w \in Workers, Return(w) PROVE Locking'
  BY <1>9 DEF Return, Unlock
<1>10. ASSUME NEW w \in Workers, TakeTask(w) PROVE Locking'
  BY <1>10 DEF TakeTask, Unlock
<1>11. ASSUME NEW w \in Workers, RunTask(w) PROVE Locking'
  BY <1>11 DEF RunTask
<1>12. ASSUME NEW w \in Workers, DropTask(w) PROVE Locking'
  BY <1>12 DEF DropTask
<1>13. ASSUME DtorLock PROVE Locking'
  BY <1>13 DEF DtorLock, Lock
<1>14. ASSUME DtorStop PROVE Locking'
  BY <1>14 DEF DtorStop, Unlock
<1>15. ASSUME DtorNotifyAll PROVE Locking'
  BY <1>15 DEF DtorNotifyAll, WokenByDtor
<1>16. ASSUME DtorJoin PROVE Locking'
  BY <1>16 DEF DtorJoin
<1>17. CASE UNCHANGED vars
  BY <1>17 DEF vars
<1> QED
  BY <1>1, <1>2, <1>3, <1>4, <1>5, <1>6, <1>7, <1>8,
     <1>9, <1>10, <1>11, <1>12, <1>13, <1>14, <1>15, <1>16, <1>17
  DEF Next, Caller, Worker, Destructor

\* Nothing is pushed and nobody stops the pool between a check and a park.
LEMMA ParkStep == Typed /\ Locking /\ ParkInv /\ [Next]_vars => ParkInv'
<1> SUFFICES ASSUME Typed, Locking, ParkInv, [Next]_vars PROVE ParkInv'
  OBVIOUS
<1> USE PoolAssumption DEF Typed, TypeOK, HandInv, Threads, WorkerPC, CallerPC, OwnerPC,
    Locking, MutexInv, WaitInv, StopInv, ParkInv, Goto
<1>1. ASSUME NEW c \in Callers, NEW t \in Tasks, EnqueueLock(c, t) PROVE ParkInv'
  BY <1>1 DEF EnqueueLock
<1>2. ASSUME NEW c \in Callers, EnqueueThrow(c) PROVE ParkInv'
  BY <1>2 DEF EnqueueThrow, EnqueueAllowed
<1>3. ASSUME NEW c \in Callers, EnqueuePush(c) PROVE ParkInv'
  BY <1>3 DEF EnqueuePush, EnqueueAllowed, PushedTask
<1>4. ASSUME NEW c \in Callers, NotifyOne(c) PROVE ParkInv'
  BY <1>4 DEF NotifyOne, WakeOne
<1>5. ASSUME NEW w \in Workers, Acquire(w) PROVE ParkInv'
  BY <1>5 DEF Acquire
<1>6. ASSUME NEW w \in Workers, CheckFails(w) PROVE ParkInv'
  BY <1>6 DEF CheckFails, WaitPredicate
<1>7. ASSUME NEW w \in Workers, Park(w) PROVE ParkInv'
  BY <1>7 DEF Park
<1>8. ASSUME NEW w \in Workers, SpuriousWakeup(w) PROVE ParkInv'
  BY <1>8 DEF SpuriousWakeup
<1>9. ASSUME NEW w \in Workers, Return(w) PROVE ParkInv'
  BY <1>9 DEF Return, MayReturn
<1>10. ASSUME NEW w \in Workers, TakeTask(w) PROVE ParkInv'
  BY <1>10 DEF TakeTask, WaitPredicate, MayReturn, NextTask, RemainingTasks
<1>11. ASSUME NEW w \in Workers, RunTask(w) PROVE ParkInv'
  BY <1>11 DEF RunTask
<1>12. ASSUME NEW w \in Workers, DropTask(w) PROVE ParkInv'
  BY <1>12 DEF DropTask
<1>13. ASSUME DtorLock PROVE ParkInv'
  BY <1>13 DEF DtorLock
<1>14. ASSUME DtorStop PROVE ParkInv'
  BY <1>14 DEF DtorStop
<1>15. ASSUME DtorNotifyAll PROVE ParkInv'
  BY <1>15 DEF DtorNotifyAll, WokenByDtor
<1>16. ASSUME DtorJoin PROVE ParkInv'
  BY <1>16 DEF DtorJoin, AllJoined
<1>17. CASE UNCHANGED vars
  BY <1>17 DEF vars
<1> QED
  BY <1>1, <1>2, <1>3, <1>4, <1>5, <1>6, <1>7, <1>8,
     <1>9, <1>10, <1>11, <1>12, <1>13, <1>14, <1>15, <1>16, <1>17
  DEF Next, Caller, Worker, Destructor

\* The queue of a stopped pool never grows again.
LEMMA ExitStep == Typed /\ Locking /\ ExitInv /\ [Next]_vars => ExitInv'
<1> SUFFICES ASSUME Typed, Locking, ExitInv, [Next]_vars PROVE ExitInv'
  OBVIOUS
<1> USE PoolAssumption DEF Typed, TypeOK, HandInv, Threads, WorkerPC, CallerPC, OwnerPC,
    Locking, MutexInv, WaitInv, StopInv, ExitInv, Goto
<1>1. ASSUME NEW c \in Callers, NEW t \in Tasks, EnqueueLock(c, t) PROVE ExitInv'
  BY <1>1 DEF EnqueueLock
<1>2. ASSUME NEW c \in Callers, EnqueueThrow(c) PROVE ExitInv'
  BY <1>2 DEF EnqueueThrow, EnqueueAllowed
<1>3. ASSUME NEW c \in Callers, EnqueuePush(c) PROVE ExitInv'
  BY <1>3 DEF EnqueuePush, EnqueueAllowed, PushedTask
<1>4. ASSUME NEW c \in Callers, NotifyOne(c) PROVE ExitInv'
  BY <1>4 DEF NotifyOne, WakeOne
<1>5. ASSUME NEW w \in Workers, Acquire(w) PROVE ExitInv'
  BY <1>5 DEF Acquire
<1>6. ASSUME NEW w \in Workers, CheckFails(w) PROVE ExitInv'
  BY <1>6 DEF CheckFails, WaitPredicate
<1>7. ASSUME NEW w \in Workers, Park(w) PROVE ExitInv'
  BY <1>7 DEF Park
<1>8. ASSUME NEW w \in Workers, SpuriousWakeup(w) PROVE ExitInv'
  BY <1>8 DEF SpuriousWakeup
<1>9. ASSUME NEW w \in Workers, Return(w) PROVE ExitInv'
  BY <1>9 DEF Return, MayReturn
<1>10. ASSUME NEW w \in Workers, TakeTask(w) PROVE ExitInv'
  BY <1>10 DEF TakeTask, WaitPredicate, MayReturn, NextTask, RemainingTasks
<1>11. ASSUME NEW w \in Workers, RunTask(w) PROVE ExitInv'
  BY <1>11 DEF RunTask
<1>12. ASSUME NEW w \in Workers, DropTask(w) PROVE ExitInv'
  BY <1>12 DEF DropTask
<1>13. ASSUME DtorLock PROVE ExitInv'
  BY <1>13 DEF DtorLock
<1>14. ASSUME DtorStop PROVE ExitInv'
  BY <1>14 DEF DtorStop
<1>15. ASSUME DtorNotifyAll PROVE ExitInv'
  BY <1>15 DEF DtorNotifyAll, WokenByDtor
<1>16. ASSUME DtorJoin PROVE ExitInv'
  BY <1>16 DEF DtorJoin, AllJoined
<1>17. CASE UNCHANGED vars
  BY <1>17 DEF vars
<1> QED
  BY <1>1, <1>2, <1>3, <1>4, <1>5, <1>6, <1>7, <1>8,
     <1>9, <1>10, <1>11, <1>12, <1>13, <1>14, <1>15, <1>16, <1>17
  DEF Next, Caller, Worker, Destructor

\* A task leaves the pending state only as it is called or refused.
LEMMA PendingStep == Typed /\ Locking /\ Places /\ [Next]_vars => PendingInv'
<1> SUFFICES ASSUME Typed, Locking, Places, [Next]_vars PROVE PendingInv'
  OBVIOUS
<1> USE PoolAssumption DEF Typed, TypeOK, HandInv, Threads, WorkerPC, CallerPC, OwnerPC,
    Locking, MutexInv, Places, PendingInv, OnePlaceInv, Goto
<1>1. ASSUME NEW c \in Callers, NEW t \in Tasks, EnqueueLock(c, t) PROVE PendingInv'
  BY <1>1 DEF EnqueueLock
<1>2. ASSUME NEW c \in Callers, EnqueueThrow(c) PROVE PendingInv'
  BY <1>2 DEF EnqueueThrow, EnqueueAllowed
<1>3. ASSUME NEW c \in Callers, EnqueuePush(c) PROVE PendingInv'
  BY <1>3 DEF EnqueuePush, EnqueueAllowed, PushedTask
<1>4. ASSUME NEW c \in Callers, NotifyOne(c) PROVE PendingInv'
  BY <1>4 DEF NotifyOne, WakeOne
<1>5. ASSUME NEW w \in Workers, Acquire(w) PROVE PendingInv'
  BY <1>5 DEF Acquire
<1>6. ASSUME NEW w \in Workers, CheckFails(w) PROVE PendingInv'
  BY <1>6 DEF CheckFails, WaitPredicate
<1>7. ASSUME NEW w \in Workers, Park(w) PROVE PendingInv'
  BY <1>7 DEF Park
<1>8. ASSUME NEW w \in Workers, SpuriousWakeup(w) PROVE PendingInv'
  BY <1>8 DEF SpuriousWakeup
<1>9. ASSUME NEW w \in Workers, Return(w) PROVE PendingInv'
  BY <1>9 DEF Return, MayReturn
<1>10. ASSUME NEW w \in Workers, TakeTask(w) PROVE PendingInv'
  BY <1>10, HeadTailProperties DEF TakeTask, WaitPredicate, MayReturn, NextTask, RemainingTasks
<1>11. ASSUME NEW w \in Workers, RunTask(w) PROVE PendingInv'
  BY <1>11 DEF RunTask
<1>12. ASSUME NEW w \in Workers, DropTask(w) PROVE PendingInv'
  BY <1>12 DEF DropTask
<1>13. ASSUME DtorLock PROVE PendingInv'
  BY <1>13 DEF DtorLock
<1>14. ASSUME DtorStop PROVE PendingInv'
  BY <1>14 DEF DtorStop
<1>15. ASSUME DtorNotifyAll PROVE PendingInv'
  BY <1>15 DEF DtorNotifyAll, WokenByDtor
<1>16. ASSUME DtorJoin PROVE PendingInv'
  BY <1>16 DEF DtorJoin, AllJoined
<1>17. CASE UNCHANGED vars
  BY <1>17 DEF vars
<1> QED
  BY <1>1, <1>2, <1>3, <1>4, <1>5, <1>6, <1>7, <1>8,
     <1>9, <1>10, <1>11, <1>12, <1>13, <1>14, <1>15, <1>16, <1>17
  DEF Next, Caller, Worker, Destructor

\* A task moves from the caller to the queue to one worker.
LEMMA OnePlaceStep == Typed /\ Locking /\ Places /\ [Next]_vars => OnePlaceInv'
<1> SUFFICES ASSUME Typed, Locking, Places, [Next]_vars PROVE OnePlaceInv'
  OBVIOUS
<1> USE PoolAssumption DEF Typed, TypeOK, HandInv, Threads, WorkerPC, CallerPC, OwnerPC,
    Locking, MutexInv, Places, PendingInv, OnePlaceInv, Goto
<1>1. ASSUME NEW c \in Callers, NEW t \in Tasks, EnqueueLock(c, t) PROVE OnePlaceInv'
  <2>1. \A i \in DOMAIN tasks : tasks[i] # t
    BY <1>1 DEF EnqueueLock
  <2>2. \A u \in Workers \cup Callers : pc[u] \in {"run", "enqueue"} => task[u] # t
    BY <1>1 DEF EnqueueLock
  <2>3. /\ pc' = [pc EXCEPT ![c] = "enqueue"]
        /\ task' = [task EXCEPT ![c] = t]
        /\ tasks' = tasks
    BY <1>1 DEF EnqueueLock
  <2> QED
    BY <2>1, <2>2, <2>3
<1>2. ASSUME NEW c \in Callers, EnqueueThrow(c) PROVE OnePlaceInv'
  BY <1>2 DEF EnqueueThrow, EnqueueAllowed
<1>3. ASSUME NEW c \in Callers, EnqueuePush(c) PROVE OnePlaceInv'
  BY <1>3 DEF EnqueuePush, EnqueueAllowed, PushedTask
<1>4. ASSUME NEW c \in Callers, NotifyOne(c) PROVE OnePlaceInv'
  BY <1>4 DEF NotifyOne, WakeOne
<1>5. ASSUME NEW w \in Workers, Acquire(w) PROVE OnePlaceInv'
  BY <1>5 DEF Acquire
<1>6. ASSUME NEW w \in Workers, CheckFails(w) PROVE OnePlaceInv'
  BY <1>6 DEF CheckFails, WaitPredicate
<1>7. ASSUME NEW w \in Workers, Park(w) PROVE OnePlaceInv'
  BY <1>7 DEF Park
<1>8. ASSUME NEW w \in Workers, SpuriousWakeup(w) PROVE OnePlaceInv'
  BY <1>8 DEF SpuriousWakeup
<1>9. ASSUME NEW w \in Workers, Return(w) PROVE OnePlaceInv'
  BY <1>9 DEF Return, MayReturn
<1>10. ASSUME NEW w \in Workers, TakeTask(w) PROVE OnePlaceInv'
  BY <1>10, HeadTailProperties DEF TakeTask, WaitPredicate, MayReturn, NextTask, RemainingTasks
<1>11. ASSUME NEW w \in Workers, RunTask(w) PROVE OnePlaceInv'
  BY <1>11 DEF RunTask
<1>12. ASSUME NEW w \in Workers, DropTask(w) PROVE OnePlaceInv'
  BY <1>12 DEF DropTask
<1>13. ASSUME DtorLock PROVE OnePlaceInv'
  BY <1>13 DEF DtorLock
<1>14. ASSUME DtorStop PROVE OnePlaceInv'
  BY <1>14 DEF DtorStop
<1>15. ASSUME DtorNotifyAll PROVE OnePlaceInv'
  BY <1>15 DEF DtorNotifyAll, WokenByDtor
<1>16. ASSUME DtorJoin PROVE OnePlaceInv'
  BY <1>16 DEF DtorJoin, AllJoined
<1>17. CASE UNCHANGED vars
  BY <1>17 DEF vars
<1> QED
  BY <1>1, <1>2, <1>3, <1>4, <1>5, <1>6, <1>7, <1>8,
     <1>9, <1>10, <1>11, <1>12, <1>13, <1>14, <1>15, <1>16, <1>17
  DEF Next, Caller, Worker, Destructor

\* A push is followed by a notification, and only an empty queue is slept on.
LEMMA NoStrandedStep == Typed /\ Locking /\ ParkInv /\ ExitInv /\ NoStrandedTask /\ [Next]_vars => NoStrandedTask'
<1> SUFFICES ASSUME Typed, Locking, ParkInv, ExitInv, NoStrandedTask, [Next]_vars PROVE NoStrandedTask'
  OBVIOUS
<1> USE PoolAssumption DEF Typed, TypeOK, HandInv, Threads, WorkerPC, CallerPC, OwnerPC,
    Locking, MutexInv, WaitInv, ParkInv, ExitInv, NoStrandedTask, Goto
<1>1. ASSUME NEW c \in Callers, NEW t \in Tasks, EnqueueLock(c, t) PROVE NoStrandedTask'
  BY <1>1 DEF EnqueueLock
<1>2. ASSUME NEW c \in Callers, EnqueueThrow(c) PROVE NoStrandedTask'
  BY <1>2 DEF EnqueueThrow, EnqueueAllowed
<1>3. ASSUME NEW c \in Callers, EnqueuePush(c) PROVE NoStrandedTask'
  BY <1>3 DEF EnqueuePush, EnqueueAllowed, PushedTask
<1>4. ASSUME NEW c \in Callers, NotifyOne(c) PROVE NoStrandedTask'
  BY <1>4 DEF NotifyOne, WakeOne
<1>5. ASSUME NEW w \in Workers, Acquire(w) PROVE NoStrandedTask'
  BY <1>5 DEF Acquire
<1>6. ASSUME NEW w \in Workers, CheckFails(w) PROVE NoStrandedTask'
  BY <1>6 DEF CheckFails, WaitPredicate
<1>7. ASSUME NEW w \in Workers, Park(w) PROVE NoStrandedTask'
  BY <1>7 DEF Park, Unlock
<1>8. ASSUME NEW w \in Workers, SpuriousWakeup(w) PROVE NoStrandedTask'
  BY <1>8 DEF SpuriousWakeup
<1>9. ASSUME NEW w \in Workers, Return(w) PROVE NoStrandedTask'
  BY <1>9 DEF Return, MayReturn
<1>10. ASSUME NEW w \in Workers, TakeTask(w) PROVE NoStrandedTask'
  BY <1>10 DEF TakeTask, WaitPredicate, MayReturn, NextTask, RemainingTasks
<1>11. ASSUME NEW w \in Workers, RunTask(w) PROVE NoStrandedTask'
  BY <1>11 DEF RunTask
<1>12. ASSUME NEW w \in Workers, DropTask(w) PROVE NoStrandedTask'
  BY <1>12 DEF DropTask
<1>13. ASSUME DtorLock PROVE NoStrandedTask'
  BY <1>13 DEF DtorLock
<1>14. ASSUME DtorStop PROVE NoStrandedTask'
  BY <1>14 DEF DtorStop
<1>15. ASSUME DtorNotifyAll PROVE NoStrandedTask'
  BY <1>15 DEF DtorNotifyAll, WokenByDtor
<1>16. ASSUME DtorJoin PROVE NoStrandedTask'
  BY <1>16 DEF DtorJoin, AllJoined
<1>17. CASE UNCHANGED vars
  BY <1>17 DEF vars
<1> QED
  BY <1>1, <1>2, <1>3, <1>4, <1>5, <1>6, <1>7, <1>8,
     <1>9, <1>10, <1>11, <1>12, <1>13, <1>14, <1>15, <1>16, <1>17
  DEF Next, Caller, Worker, Destructor

\* notify_all() wakes every worker that was asleep when stop was set.
LEMMA NoSleepStep == Typed /\ Locking /\ ParkInv /\ NoSleepThroughStop /\ [Next]_vars => NoSleepThroughStop'
<1> SUFFICES ASSUME Typed, Locking, ParkInv, NoSleepThroughStop, [Next]_vars PROVE NoSleepThroughStop'
  OBVIOUS
<1> USE PoolAssumption DEF Typed, TypeOK, HandInv, Threads, WorkerPC, CallerPC, OwnerPC,
    Locking, MutexInv, WaitInv, StopInv, ParkInv, NoSleepThroughStop, Goto
<1>1. ASSUME NEW c \in Callers, NEW t \in Tasks, EnqueueLock(c, t) PROVE NoSleepThroughStop'
  BY <1>1 DEF EnqueueLock
<1>2. ASSUME NEW c \in Callers, EnqueueThrow(c) PROVE NoSleepThroughStop'
  BY <1>2 DEF EnqueueThrow, EnqueueAllowed
<1>3. ASSUME NEW c \in Callers, EnqueuePush(c) PROVE NoSleepThroughStop'
  BY <1>3 DEF EnqueuePush, EnqueueAllowed, PushedTask
<1>4. ASSUME NEW c \in Callers, NotifyOne(c) PROVE NoSleepThroughStop'
  BY <1>4 DEF NotifyOne, WakeOne
<1>5. ASSUME NEW w \in Workers, Acquire(w) PROVE NoSleepThroughStop'
  BY <1>5 DEF Acquire
<1>6. ASSUME NEW w \in Workers, CheckFails(w) PROVE NoSleepThroughStop'
  BY <1>6 DEF CheckFails, WaitPredicate
<1>7. ASSUME NEW w \in Workers, Park(w) PROVE NoSleepThroughStop'
  BY <1>7 DEF Park, Unlock
<1>8. ASSUME NEW w \in Workers, SpuriousWakeup(w) PROVE NoSleepThroughStop'
  BY <1>8 DEF SpuriousWakeup
<1>9. ASSUME NEW w \in Workers, Return(w) PROVE NoSleepThroughStop'
  BY <1>9 DEF Return, MayReturn
<1>10. ASSUME NEW w \in Workers, TakeTask(w) PROVE NoSleepThroughStop'
  BY <1>10 DEF TakeTask, WaitPredicate, MayReturn, NextTask, RemainingTasks
<1>11. ASSUME NEW w \in Workers, RunTask(w) PROVE NoSleepThroughStop'
  BY <1>11 DEF RunTask
<1>12. ASSUME NEW w \in Workers, DropTask(w) PROVE NoSleepThroughStop'
  BY <1>12 DEF DropTask
<1>13. ASSUME DtorLock PROVE NoSleepThroughStop'
  BY <1>13 DEF DtorLock
<1>14. ASSUME DtorStop PROVE NoSleepThroughStop'
  BY <1>14 DEF DtorStop
<1>15. ASSUME DtorNotifyAll PROVE NoSleepThroughStop'
  BY <1>15 DEF DtorNotifyAll, WokenByDtor
<1>16. ASSUME DtorJoin PROVE NoSleepThroughStop'
  BY <1>16 DEF DtorJoin, AllJoined
<1>17. CASE UNCHANGED vars
  BY <1>17 DEF vars
<1> QED
  BY <1>1, <1>2, <1>3, <1>4, <1>5, <1>6, <1>7, <1>8,
     <1>9, <1>10, <1>11, <1>12, <1>13, <1>14, <1>15, <1>16, <1>17
  DEF Next, Caller, Worker, Destructor

\* A task that is queued moves into the hands of a worker, then is run.
LEMMA AccountedStep == 
  ASSUME Typed, PendingInv, [Next]_vars, NEW x \in Tasks, Accounted(x)
  PROVE  Accounted(x)'
<1> USE PoolAssumption DEF Typed, TypeOK, HandInv, Threads, WorkerPC, CallerPC, OwnerPC,
    Accounted, Goto
<1>1. ASSUME NEW c \in Callers, NEW t \in Tasks, EnqueueLock(c, t) PROVE Accounted(x)'
  BY <1>1 DEF EnqueueLock
<1>2. ASSUME NEW c \in Callers, EnqueueThrow(c) PROVE Accounted(x)'
  BY <1>2 DEF EnqueueThrow, PendingInv
<1>3. ASSUME NEW c \in Callers, EnqueuePush(c) PROVE Accounted(x)'
  <2>1. CASE \E j \in DOMAIN tasks : tasks[j] = x
    <3>1. PICK j \in DOMAIN tasks : tasks[j] = x
      BY <2>1
    <3>2. j \in DOMAIN tasks' /\ tasks'[j] = x
      BY <1>3, <3>1, AppendProperties DEF EnqueuePush, PushedTask
    <3> QED
      BY <3>2
  <2> QED
    BY <1>3, <2>1 DEF EnqueuePush
<1>4. ASSUME NEW c \in Callers, NotifyOne(c) PROVE Accounted(x)'
  BY <1>4 DEF NotifyOne
<1>5. ASSUME NEW w \in Workers, Acquire(w) PROVE Accounted(x)'
  BY <1>5 DEF Acquire
<1>6. ASSUME NEW w \in Workers, CheckFails(w) PROVE Accounted(x)'
  BY <1>6 DEF CheckFails
<1>7. ASSUME NEW w \in Workers, Park(w) PROVE Accounted(x)'
  BY <1>7 DEF Park
<1>8. ASSUME NEW w \in Workers, SpuriousWakeup(w) PROVE Accounted(x)'
  BY <1>8 DEF SpuriousWakeup
<1>9. ASSUME NEW w \in Workers, Return(w) PROVE Accounted(x)'
  BY <1>9 DEF Return
<1>10. ASSUME NEW w \in Workers, TakeTask(w) PROVE Accounted(x)'
  <2>1. CASE \E j \in DOMAIN tasks : tasks[j] = x
    <3>1. PICK j \in DOMAIN tasks : tasks[j] = x
      BY <2>1
    <3>2. CASE j = 1
      BY <1>10, <3>1, <3>2 DEF TakeTask, NextTask
    <3>3. CASE j # 1
      <4>1. j - 1 \in DOMAIN tasks' /\ tasks'[j - 1] = x
        BY <1>10, <3>1, <3>3, HeadTailProperties DEF TakeTask, RemainingTasks, WaitPredicate, MayReturn
      <4> QED
        BY <4>1
    <3> QED
      BY <3>2, <3>3
  <2>2. CASE \E v \in Workers : pc[v] = "run" /\ task[v] = x
    <3>1. PICK v \in Workers : pc[v] = "run" /\ task[v] = x
      BY <2>2
    <3>2. pc'[v] = "run" /\ task'[v] = x
      BY <1>10, <3>1 DEF TakeTask
    <3> QED
      BY <3>2
  <2> QED
    BY <1>10, <2>1, <2>2 DEF TakeTask
<1>11. ASSUME NEW w \in Workers, RunTask(w) PROVE Accounted(x)'
  BY <1>11 DEF RunTask
<1>12. ASSUME NEW w \in Workers, DropTask(w) PROVE Accounted(x)'
  BY <1>12 DEF DropTask
<1>13. ASSUME DtorLock PROVE Accounted(x)'
  BY <1>13 DEF DtorLock
<1>14. ASSUME DtorStop PROVE Accounted(x)'
  BY <1>14 DEF DtorStop
<1>15. ASSUME DtorNotifyAll PROVE Accounted(x)'
  BY <1>15 DEF DtorNotifyAll
<1>16. ASSUME DtorJoin PROVE Accounted(x)'
  BY <1>16 DEF DtorJoin
<1>17. CASE UNCHANGED vars
  BY <1>17 DEF vars
<1> QED
  BY <1>1, <1>2, <1>3, <1>4, <1>5, <1>6, <1>7, <1>8,
     <1>9, <1>10, <1>11, <1>12, <1>13, <1>14, <1>15, <1>16, <1>17
  DEF Next, Caller, Worker, Destructor

\* Nothing that was pushed is forgotten.
LEMMA AcceptedStep == Typed /\ PendingInv /\ AcceptedInv /\ [Next]_vars => AcceptedInv'
<1> SUFFICES ASSUME Typed, PendingInv, AcceptedInv, [Next]_vars PROVE AcceptedInv'
  OBVIOUS
<1> USE DEF Typed, TypeOK
<1>1. \A x \in Tasks : Accounted(x) => Accounted(x)'
  BY AccountedStep
<1>2. CASE enqueued' = enqueued
  BY <1>1, <1>2, LenProperties, ElementOfSeq DEF AcceptedInv
<1>3. ASSUME NEW c \in Callers, EnqueuePush(c) PROVE AcceptedInv'
  <2>1. PICK x \in Tasks : x = task[c]
    BY <1>3 DEF EnqueuePush, HandInv
  <2>2. tasks' = Append(tasks, x) /\ enqueued' = Append(enqueued, x)
    BY <1>3, <2>1 DEF EnqueuePush, PushedTask
  <2>3. tasks'[Len(tasks) + 1] = x /\ Len(tasks) + 1 \in DOMAIN tasks'
    BY <2>1, <2>2, AppendProperties, LenProperties
  <2>4. Accounted(x)'
    BY <2>3 DEF Accounted
  <2>5. \A i \in DOMAIN enqueued' : enqueued'[i] = x \/ (i \in DOMAIN enqueued /\ enqueued'[i] = enqueued[i])
    BY <2>1, <2>2, AppendProperties, LenProperties
  <2> QED
    BY <1>1, <2>4, <2>5, LenProperties, ElementOfSeq DEF AcceptedInv
<1> QED
  BY <1>2, <1>3 DEF Next, Caller, Worker, Destructor, vars, EnqueueLock, EnqueueThrow, NotifyOne,
     Acquire, CheckFails, Park, SpuriousWakeup, Return, TakeTask, RunTask, DropTask,
     DtorLock, DtorStop, DtorNotifyAll, DtorJoin

\* Appending to the second of two sequences appends to their concatenation.
LEMMA PushTail ==
  \A s, q \in Seq(Tasks), x \in Tasks : Append(s \o q, x) = s \o Append(q, x)
<1> SUFFICES ASSUME NEW s \in Seq(Tasks), NEW q \in Seq(Tasks), NEW x \in Tasks
             PROVE  Append(s \o q, x) = s \o Append(q, x)
  OBVIOUS
<1>1. <<x>> \in Seq(Tasks) /\ s \o q \in Seq(Tasks)
  BY ConcatProperties
<1>2. Append(s \o q, x) = (s \o q) \o <<x>> /\ Append(q, x) = q \o <<x>>
  BY <1>1, AppendIsConcat
<1> QED
  BY <1>1, <1>2, ConcatAssociative

\* Taking the head of a queue and recording it leaves the concatenation as it was.
LEMMA MoveHead ==
  ASSUME NEW S, NEW s \in Seq(S), NEW q \in Seq(S), q # <<>>
  PROVE  Append(s, Head(q)) \o Tail(q) = s \o q
<1>1. /\ Head(q) \in S /\ Head(q) = q[1] /\ Tail(q) \in Seq(S) /\ Len(q) \in Nat \ {0}
      /\ Len(Tail(q)) = Len(q) - 1
      /\ \A i \in 1 .. Len(Tail(q)) : Tail(q)[i] = q[i + 1]
  BY HeadTailProperties, EmptySeq
<1> DEFINE a == Append(s, Head(q))
<1>2. /\ a \in Seq(S) /\ Len(s) \in Nat /\ Len(a) = Len(s) + 1
      /\ \A i \in 1 .. Len(s) : a[i] = s[i]
      /\ a[Len(s) + 1] = q[1]
  BY <1>1, AppendProperties, LenProperties
<1> HIDE DEF a
<1>3. /\ a \o Tail(q) \in Seq(S) /\ Len(a \o Tail(q)) = Len(a) + Len(Tail(q))
      /\ \A i \in 1 .. Len(a) + Len(Tail(q)) :
            (a \o Tail(q))[i] = IF i <= Len(a) THEN a[i] ELSE Tail(q)[i - Len(a)]
  BY <1>1, <1>2, ConcatProperties
<1>4. Len(a) + Len(Tail(q)) = Len(s) + Len(q)
  BY <1>1, <1>2
<1>5. /\ s \o q \in Seq(S) /\ Len(s \o q) = Len(s) + Len(q)
      /\ \A i \in 1 .. Len(s) + Len(q) :
            (s \o q)[i] = IF i <= Len(s) THEN s[i] ELSE q[i - Len(s)]
  BY ConcatProperties
<1>6. \A i \in 1 .. Len(s) + Len(q) : (a \o Tail(q))[i] = (s \o q)[i]
  BY <1>1, <1>2, <1>3, <1>4, <1>5
<1>7. a \o Tail(q) = s \o q
  BY <1>3, <1>4, <1>5, <1>6, SeqEqual
<1> QED
  BY <1>7 DEF a

\* Pushing and taking keep what was started and what is queued in the order pushed.
LEMMA OrderStep == Typed /\ StartedInOrder /\ [Next]_vars => StartedInOrder'
<1> SUFFICES ASSUME Typed, StartedInOrder, [Next]_vars PROVE StartedInOrder'
  OBVIOUS
<1>1. started \in Seq(Tasks) /\ tasks \in Seq(Tasks)
  BY DEF Typed, TypeOK
<1>2. CASE UNCHANGED <<enqueued, started, tasks>>
  BY <1>2 DEF StartedInOrder
<1>3. ASSUME NEW c \in Callers, EnqueuePush(c) PROVE StartedInOrder'
  <2>1. PICK t \in Tasks : t = task[c]
    BY <1>3 DEF EnqueuePush, Typed, HandInv
  <2>2. Append(started \o tasks, t) = started \o Append(tasks, t)
    BY <1>1, PushTail, Zenon
  <2>3. /\ enqueued' = Append(enqueued, t)
        /\ tasks' = Append(tasks, t)
        /\ started' = started
    BY <1>3, <2>1 DEF EnqueuePush, PushedTask
  <2> QED
    BY <2>2, <2>3, Zenon DEF StartedInOrder
<1>4. ASSUME NEW w \in Workers, TakeTask(w) PROVE StartedInOrder'
  <2>1. tasks # <<>>
    BY <1>4 DEF TakeTask, WaitPredicate, MayReturn
  <2>2. Append(started, Head(tasks)) \o Tail(tasks) = started \o tasks
    BY <1>1, <2>1, MoveHead, Zenon
  <2>3. /\ enqueued' = enqueued
        /\ started' = Append(started, Head(tasks))
        /\ tasks' = Tail(tasks)
    BY <1>4 DEF TakeTask, NextTask, RemainingTasks
  <2> QED
    BY <2>2, <2>3, Zenon DEF StartedInOrder
<1> QED
  BY <1>2, <1>3, <1>4 DEF Next, Caller, Worker, Destructor, vars, EnqueueLock, EnqueueThrow,
     NotifyOne, Acquire, CheckFails, Park, SpuriousWakeup, Return, RunTask, DropTask,
     DtorLock, DtorStop, DtorNotifyAll, DtorJoin

-------------------------------------------------------------------------------
(* The theorems *)

LEMMA InitIInv == Init => IInv
<1> SUFFICES ASSUME Init PROVE IInv
  OBVIOUS
<1>1. /\ Typed /\ Locking
  BY TypeInit, LockingInit
<1>2. \A t \in Threads : pc[t] \in {"lock", "idle", "alive"}
  BY DEF Init
<1>3. tasks = <<>> /\ enqueued = <<>> /\ started = <<>> /\ waiting = {} /\ stop = FALSE
  BY DEF Init
<1>4. DOMAIN tasks = {} /\ DOMAIN enqueued = {}
  BY <1>3
<1>5. ParkInv /\ ExitInv /\ Places /\ AcceptedInv
  BY <1>2, <1>4, PoolAssumption
  DEF ParkInv, ExitInv, Places, PendingInv, OnePlaceInv, AcceptedInv, Threads
<1>6. started \o tasks = <<>>
  BY <1>3, EmptySeq, ConcatEmptySeq
<1> QED
  BY <1>1, <1>3, <1>5, <1>6 DEF IInv, StartedInOrder, NoStrandedTask, NoSleepThroughStop

LEMMA StepIInv == IInv /\ [Next]_vars => IInv'
  BY TypeStep, LockingStep, ParkStep, ExitStep, PendingStep, OnePlaceStep, AcceptedStep,
     OrderStep, NoStrandedStep, NoSleepStep
  DEF IInv, Places

\* The parts above hold in every state that the pool reaches.
THEOREM Invariance == Spec => []IInv
  BY InitIInv, StepIInv, PTL DEF Spec

\* Every variable keeps its type.
THEOREM PoolTypeOK == Spec => []TypeOK
<1>1. IInv => TypeOK
  BY DEF IInv, Typed
<1> QED
  BY <1>1, Invariance, PTL

\* Tasks are started in the order of their enqueue(): ThreadPool.h pushes at the
\* back and pops the front, both under queue_mutex.
THEOREM PoolFIFO == Spec => []StartedInOrder
<1>1. IInv => StartedInOrder
  BY DEF IInv
<1> QED
  BY <1>1, Invariance, PTL

\* No packaged task is called twice, nor by two workers at once.
THEOREM PoolRunsOnce == Spec => []RunOnce
<1>1. IInv => RunOnce
  BY DEF IInv, Places, PendingInv, OnePlaceInv, RunOnce
<1> QED
  BY <1>1, Invariance, PTL

\* The destructor returns with every accepted task run.
THEOREM PoolDrains == Spec => []DrainedAtJoin
<1>1. IInv => DrainedAtJoin
  <2> SUFFICES ASSUME IInv, pc[Owner] = "destroyed", NEW i \in DOMAIN enqueued
               PROVE  future[enqueued[i]] = "ready"
    BY DEF DrainedAtJoin
  <2>1. \A w \in Workers : pc[w] = "exited" /\ tasks = <<>>
    BY DEF IInv, ExitInv
  <2>2. DOMAIN tasks = {}
    BY <2>1, PoolAssumption
  <2>3. Accounted(enqueued[i])
    BY DEF IInv, AcceptedInv
  <2> QED
    BY <2>1, <2>2, <2>3 DEF Accounted
<1> QED
  BY <1>1, Invariance, PTL

\* No task waits in the queue while every worker sleeps on the condition variable
\* and no notification is on its way.
THEOREM PoolNeverStrands == Spec => []NoStrandedTask
<1>1. IInv => NoStrandedTask
  BY DEF IInv
<1> QED
  BY <1>1, Invariance, PTL

\* No worker sleeps through the destructor's notify_all().
THEOREM PoolNeverSleepsThroughStop == Spec => []NoSleepThroughStop
<1>1. IInv => NoSleepThroughStop
  BY DEF IInv
<1> QED
  BY <1>1, Invariance, PTL

\* Once stop is set nothing is pushed any more and stop stays set.
THEOREM PoolPushesNothingAfterStop == Spec => NoPushAfterStop
<1>1. [Next]_vars => [stop => stop' /\ enqueued' = enqueued]_vars
  BY DEF Next, Caller, Worker, Destructor, vars, EnqueueLock, EnqueueThrow, EnqueuePush,
     EnqueueAllowed, NotifyOne, Acquire, CheckFails, Park, SpuriousWakeup, Return, TakeTask,
     RunTask, DropTask, DtorLock, DtorStop, DtorNotifyAll, DtorJoin
<1> QED
  BY <1>1, PTL DEF Spec, NoPushAfterStop

-------------------------------------------------------------------------------
(* The pool implements TaskPool *)

\* A task that is about to be pushed or refused is new to TaskPool.
LEMMA InHandIsFresh ==
  ASSUME Typed, Places, NEW c \in Callers, pc[c] = "enqueue"
  PROVE  task[c] \in Promise!Fresh
<1>1. task[c] \in Tasks /\ future[task[c]] = "pending"
  BY DEF Typed, HandInv, Places, PendingInv
<1>2. \A i \in DOMAIN tasks : tasks[i] # task[c]
  BY DEF Places, OnePlaceInv
<1>3. task[c] \notin RunningTasks
  <2>1. \A w \in Workers : pc[w] = "run" => task[w] # task[c]
    BY PoolAssumption DEF Places, OnePlaceInv
  <2> QED
    BY <2>1 DEF RunningTasks
<1> QED
  BY <1>1, <1>2, <1>3 DEF Promise!Fresh, Promise!Queued, DoneTasks, RefusedTasks

LEMMA InitImplements == Init => Promise!Init
<1> SUFFICES ASSUME Init PROVE Promise!Init
  OBVIOUS
<1>1. pc[Owner] = "alive" /\ \A w \in Workers : pc[w] = "lock"
  BY PoolAssumption DEF Init, Threads
<1>2. Phase = "open" /\ RunningTasks = {}
  BY <1>1 DEF Init, Phase, RunningTasks
<1>3. DoneTasks = {} /\ RefusedTasks = {}
  BY DEF Init, DoneTasks, RefusedTasks
<1> QED
  BY <1>2, <1>3 DEF Init, Promise!Init

\* A step that moves no task and no phase is a stutter of TaskPool.
LEMMA StutterImplements ==
  ASSUME Typed,
         UNCHANGED <<tasks, stop, future>>,
         (pc'[Owner] = "destroyed") <=> (pc[Owner] = "destroyed"),
         \A w \in Workers : pc'[w] = "run" <=> pc[w] = "run",
         \A w \in Workers : pc[w] = "run" => task'[w] = task[w]
  PROVE  UNCHANGED Promise!poolVars
<1>1. RunningTasks' = RunningTasks
  BY DEF RunningTasks
<1>2. Phase' = Phase
  BY DEF Phase
<1>3. DoneTasks' = DoneTasks /\ RefusedTasks' = RefusedTasks
  BY DEF DoneTasks, RefusedTasks
<1> QED
  BY <1>1, <1>2, <1>3 DEF Promise!poolVars

\* Every step of the pool is a step of TaskPool or a stutter.
LEMMA StepImplements == IInv /\ [Next]_vars => [Promise!Next]_Promise!poolVars
<1> SUFFICES ASSUME IInv, [Next]_vars PROVE [Promise!Next]_Promise!poolVars
  OBVIOUS
<1>a. Typed /\ Locking /\ Places /\ ExitInv
  BY DEF IInv
<1> USE PoolAssumption
<1>1. ASSUME NEW c \in Callers, NEW t \in Tasks, EnqueueLock(c, t)
      PROVE  UNCHANGED Promise!poolVars
  <2>1. UNCHANGED <<tasks, stop>>
    BY <1>1 DEF EnqueueLock
  <2>2. /\ \A w \in Workers : pc'[w] = pc[w] /\ task'[w] = task[w]
        /\ pc'[Owner] = pc[Owner]
    BY <1>1, <1>a DEF EnqueueLock, Goto, Typed, TypeOK
  <2>3. DoneTasks' = DoneTasks /\ RefusedTasks' = RefusedTasks
    BY <1>1, <1>a DEF EnqueueLock, DoneTasks, RefusedTasks, Typed, TypeOK
  <2>4. RunningTasks' = RunningTasks
    BY <2>2 DEF RunningTasks
  <2>5. Phase' = Phase
    BY <2>1, <2>2 DEF Phase
  <2> QED
    BY <2>1, <2>3, <2>4, <2>5 DEF Promise!poolVars
<1>2. ASSUME NEW c \in Callers, EnqueueThrow(c) PROVE Promise!Next
  <2>1. PICK t \in Tasks : t = task[c] /\ t \in Promise!Fresh
    BY <1>2, <1>a, InHandIsFresh DEF EnqueueThrow, Typed, HandInv
  <2>2. UNCHANGED <<tasks, stop>> /\ stop
    BY <1>2 DEF EnqueueThrow, EnqueueAllowed
  <2>3. /\ \A w \in Workers : pc'[w] = pc[w] /\ task'[w] = task[w]
        /\ pc'[Owner] = pc[Owner]
    BY <1>2, <1>a DEF EnqueueThrow, Goto, Typed, TypeOK
  <2>4. future[t] = "pending" /\ future' = [future EXCEPT ![t] = "thrown"]
    BY <1>2, <1>a, <2>1 DEF EnqueueThrow, Places, PendingInv
  <2>5. DoneTasks' = DoneTasks /\ RefusedTasks' = RefusedTasks \cup {t}
    BY <1>a, <2>4 DEF DoneTasks, RefusedTasks, Typed, TypeOK
  <2>6. RunningTasks' = RunningTasks
    BY <2>3 DEF RunningTasks
  <2>7. Phase' = Phase /\ Phase # "open"
    BY <2>2, <2>3 DEF Phase
  <2>8. Promise!Refuse(t)
    BY <2>1, <2>2, <2>5, <2>6, <2>7 DEF Promise!Refuse
  <2> QED
    BY <2>8 DEF Promise!Next
<1>3. ASSUME NEW c \in Callers, EnqueuePush(c) PROVE Promise!Next
  <2>1. PICK t \in Tasks : t = task[c] /\ t \in Promise!Fresh
    BY <1>3, <1>a, InHandIsFresh DEF EnqueuePush, Typed, HandInv
  <2>2. ~stop /\ UNCHANGED <<stop, future>> /\ tasks' = Append(tasks, t)
    BY <1>3, <2>1 DEF EnqueuePush, EnqueueAllowed, PushedTask
  <2>3. /\ \A w \in Workers : pc'[w] = pc[w] /\ task'[w] = task[w]
        /\ pc'[Owner] = pc[Owner]
    BY <1>3, <1>a DEF EnqueuePush, Goto, Typed, TypeOK
  <2>4. DoneTasks' = DoneTasks /\ RefusedTasks' = RefusedTasks
    BY <2>2 DEF DoneTasks, RefusedTasks
  <2>5. RunningTasks' = RunningTasks
    BY <2>3 DEF RunningTasks
  <2>6. Phase' = Phase /\ Phase = "open"
    BY <1>a, <2>2, <2>3 DEF Phase, Locking, StopInv
  <2>7. Promise!Accept(t)
    BY <2>1, <2>2, <2>4, <2>5, <2>6 DEF Promise!Accept
  <2> QED
    BY <2>7 DEF Promise!Next
<1>4. ASSUME NEW w \in Workers, TakeTask(w) PROVE Promise!Next
  <2>1. tasks # <<>> /\ pc[w] = "check" /\ UNCHANGED <<stop, future>> /\ tasks' = Tail(tasks)
    BY <1>4 DEF TakeTask, WaitPredicate, MayReturn, RemainingTasks
  <2>2. /\ pc'[w] = "run" /\ task'[w] = Head(tasks)
        /\ \A v \in Workers \ {w} : pc'[v] = pc[v] /\ task'[v] = task[v]
        /\ pc'[Owner] = pc[Owner]
    BY <1>4, <1>a DEF TakeTask, Goto, NextTask, Typed, TypeOK, Threads
  <2>3. DoneTasks' = DoneTasks /\ RefusedTasks' = RefusedTasks
    BY <2>1 DEF DoneTasks, RefusedTasks
  <2>4. RunningTasks' = RunningTasks \cup {Head(tasks)}
    BY <2>1, <2>2 DEF RunningTasks
  <2>5. Phase' = Phase
    BY <2>1, <2>2 DEF Phase
  <2>6. Promise!Start
    BY <2>1, <2>3, <2>4, <2>5 DEF Promise!Start
  <2> QED
    BY <2>6 DEF Promise!Next
<1>5. ASSUME NEW w \in Workers, RunTask(w) PROVE Promise!Next
  <2>1. PICK t \in Tasks : t = task[w] /\ pc[w] = "run"
    BY <1>5, <1>a DEF RunTask, Typed, HandInv
  <2>2. UNCHANGED <<tasks, stop, task>> /\ future' = [future EXCEPT ![t] = "ready"]
    BY <1>5, <2>1 DEF RunTask
  <2>3. /\ pc'[w] = "drop"
        /\ \A v \in Workers \ {w} : pc'[v] = pc[v]
        /\ pc'[Owner] = pc[Owner]
    BY <1>5, <1>a DEF RunTask, Goto, Typed, TypeOK, Threads
  <2>4. future[t] = "pending"
    BY <1>a, <2>1 DEF Places, PendingInv
  <2>5. DoneTasks' = DoneTasks \cup {t} /\ RefusedTasks' = RefusedTasks
    BY <1>a, <2>2, <2>4 DEF DoneTasks, RefusedTasks, Typed, TypeOK
  <2>6. t \in RunningTasks /\ RunningTasks' = RunningTasks \ {t}
    <3>1. \A v \in Workers \ {w} : pc[v] = "run" => task[v] # t
      BY <1>a, <2>1 DEF Places, OnePlaceInv
    <3> QED
      BY <2>1, <2>2, <2>3, <3>1 DEF RunningTasks
  <2>7. Phase' = Phase
    BY <2>2, <2>3 DEF Phase
  <2>8. Promise!Finish(t)
    BY <2>2, <2>5, <2>6, <2>7 DEF Promise!Finish
  <2> QED
    BY <2>8 DEF Promise!Next
<1>6. ASSUME DtorStop PROVE Promise!Next
  <2>1. /\ UNCHANGED <<tasks, task, future>>
        /\ pc[Owner] = "dtor" /\ stop'
        /\ pc'[Owner] = "notify_all" /\ \A w \in Workers : pc'[w] = pc[w]
    BY <1>6, <1>a DEF DtorStop, Goto, Typed, TypeOK, Threads
  <2>2. Phase = "open" /\ Phase' = "closing"
    BY <1>a, <2>1 DEF Phase, Locking, StopInv
  <2>3. RunningTasks' = RunningTasks /\ DoneTasks' = DoneTasks /\ RefusedTasks' = RefusedTasks
    BY <2>1 DEF RunningTasks, DoneTasks, RefusedTasks
  <2>4. Promise!Close
    BY <2>1, <2>2, <2>3 DEF Promise!Close
  <2> QED
    BY <2>4 DEF Promise!Next
<1>7. ASSUME DtorJoin PROVE Promise!Next
  <2>1. /\ UNCHANGED <<tasks, stop, task, future>>
        /\ pc[Owner] = "join" /\ \A w \in Workers : pc[w] = "exited"
        /\ pc'[Owner] = "destroyed" /\ \A w \in Workers : pc'[w] = pc[w]
    BY <1>7, <1>a DEF DtorJoin, AllJoined, Goto, Typed, TypeOK, Threads
  <2>2. Phase = "closing" /\ Phase' = "closed"
    BY <1>a, <2>1 DEF Phase, Locking, StopInv
  <2>3. tasks = <<>> /\ RunningTasks = {}
    BY <1>a, <2>1 DEF ExitInv, RunningTasks
  <2>4. RunningTasks' = RunningTasks /\ DoneTasks' = DoneTasks /\ RefusedTasks' = RefusedTasks
    BY <2>1 DEF RunningTasks, DoneTasks, RefusedTasks
  <2>5. Promise!Closed
    BY <2>1, <2>2, <2>3, <2>4 DEF Promise!Closed
  <2> QED
    BY <2>5 DEF Promise!Next
<1>8. ASSUME \/ \E c \in Callers : NotifyOne(c)
             \/ \E w \in Workers : \/ Acquire(w) \/ CheckFails(w) \/ Park(w)
                                    \/ SpuriousWakeup(w) \/ Return(w) \/ DropTask(w)
             \/ DtorLock \/ DtorNotifyAll
             \/ UNCHANGED vars
      PROVE  UNCHANGED Promise!poolVars
  <2>1. UNCHANGED <<tasks, stop, future>>
    BY <1>8 DEF NotifyOne, Acquire, CheckFails, Park, SpuriousWakeup, Return, DropTask,
       DtorLock, DtorNotifyAll, vars
  <2>2. /\ (pc'[Owner] = "destroyed") <=> (pc[Owner] = "destroyed")
        /\ \A w \in Workers : pc'[w] = "run" <=> pc[w] = "run"
        /\ \A w \in Workers : pc[w] = "run" => task'[w] = task[w]
    BY <1>8, <1>a DEF NotifyOne, Acquire, CheckFails, Park, SpuriousWakeup, Return, DropTask,
       DtorLock, DtorNotifyAll, vars, Goto, Typed, TypeOK, Threads
  <2> QED
    BY <1>a, <2>1, <2>2, StutterImplements
<1> QED
  BY <1>1, <1>2, <1>3, <1>4, <1>5, <1>6, <1>7, <1>8 DEF Next, Caller, Worker, Destructor

\* ThreadPool.h implements TaskPool: first come first started, run once, refused
\* only when closing, closed only when drained.
THEOREM PoolRefinement == Spec => ImplementsTaskPool
  BY InitImplements, StepImplements, Invariance, PTL DEF Spec, ImplementsTaskPool, Promise!Spec

=============================================================================
