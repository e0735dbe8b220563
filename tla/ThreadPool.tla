------------------------------ MODULE ThreadPool ------------------------------
(***************************************************************************)
(* The worker pool of digital_content_game/ThreadPool.h: a task queue      *)
(* guarded by queue_mutex, a condition variable on which the workers wait, *)
(* enqueue(), and the destructor that stops and joins the workers.         *)
(*                                                                         *)
(* Every access to tasks and stop happens under queue_mutex; acquiring it, *)
(* evaluating the wait predicate, blocking on the condition variable and   *)
(* each notification are steps of their own, because a lost wake-up lives  *)
(* between them.                                                           *)
(***************************************************************************)
EXTENDS Naturals, Sequences, FiniteSets

CONSTANTS
  Workers,   \* the threads the constructor launches
  Callers,   \* the threads that call enqueue()
  Owner,     \* the thread that runs the destructor
  Tasks,     \* the packaged tasks; each one is enqueued at most once
  None       \* no thread holds the mutex, no task is held

ASSUME PoolAssumption ==
  /\ Workers # {}
  /\ Workers \cap Callers = {}
  /\ Owner \notin Workers \cup Callers
  /\ None \notin Workers \cup Callers \cup {Owner} \cup Tasks

Threads == Workers \cup Callers \cup {Owner}

VARIABLES
  queue_mutex,  \* the thread that holds it, or None
  tasks,        \* the queue of tasks
  stop,         \* set once by the destructor
  waiting,      \* the workers blocked in condition.wait
  pc,           \* where each thread is
  task,         \* the task a thread has in hand: a worker's local `task`,
                \* the argument of a caller's enqueue()
  future,       \* what the future of each task holds
  enqueued,     \* history: the tasks pushed, in order
  started       \* history: the tasks taken by a worker, in order

vars == <<queue_mutex, tasks, stop, waiting, pc, task, future, enqueued, started>>

\* Where each thread can be, and what it can have in hand there.
WorkerPC == {"lock", "check", "park", "wait", "run", "drop", "exited"}
CallerPC == {"idle", "enqueue", "notify"}
OwnerPC  == {"alive", "dtor", "notify_all", "join", "destroyed"}

\* A thread is at a place of its own kind, and the queue holds nothing but tasks.
TypeOK ==
  /\ queue_mutex \in Threads \cup {None}
  /\ tasks \in Seq(Tasks)
  /\ stop \in BOOLEAN
  /\ waiting \in SUBSET Workers
  /\ pc \in [Threads -> WorkerPC \cup CallerPC \cup OwnerPC]
  /\ \A w \in Workers : pc[w] \in WorkerPC
  /\ \A c \in Callers : pc[c] \in CallerPC
  /\ pc[Owner] \in OwnerPC
  /\ task \in [Workers \cup Callers -> Tasks \cup {None}]
  /\ future \in [Tasks -> {"none", "pending", "ready", "thrown"}]
  /\ enqueued \in Seq(Tasks)
  /\ started \in Seq(Tasks)

Init ==
  /\ queue_mutex = None
  /\ tasks = <<>>
  /\ stop = FALSE
  /\ waiting = {}
  /\ pc = [t \in Threads |-> IF t \in Workers THEN "lock"
                          ELSE IF t \in Callers THEN "idle" ELSE "alive"]
  /\ task = [t \in Workers \cup Callers |-> None]
  /\ future = [t \in Tasks |-> "none"]
  /\ enqueued = <<>>
  /\ started = <<>>

Goto(t, label) == pc' = [pc EXCEPT ![t] = label]

Lock(t) ==
  /\ queue_mutex = None
  /\ queue_mutex' = t

Unlock(t) ==
  /\ queue_mutex = t
  /\ queue_mutex' = None

-------------------------------------------------------------------------------
(* enqueue() *)

\* Packages the task, takes its future and acquires the queue mutex.
EnqueueLock(c, t) ==
  /\ pc[c] = "idle"
  /\ pc[Owner] # "destroyed"
  /\ future[t] = "none"
  /\ Lock(c)
  /\ Goto(c, "enqueue")
  /\ task' = [task EXCEPT ![c] = t]
  /\ future' = [future EXCEPT ![t] = "pending"]
  /\ UNCHANGED <<tasks, stop, waiting, enqueued, started>>

\* Mutant: the lambda that is pushed holds no packaged task.
EmptyTask(c) == None

PushedTask(c) == task[c]

\* Mutant: the check of `stop` before the push is forgotten.
EnqueueAllowedAlways == TRUE

EnqueueAllowed == ~stop

\* "enqueue on stopped ThreadPool": the exception leaves with the lock released.
EnqueueThrow(c) ==
  /\ pc[c] = "enqueue"
  /\ ~EnqueueAllowed
  /\ Unlock(c)
  /\ Goto(c, "idle")
  /\ task' = [task EXCEPT ![c] = None]
  /\ future' = [future EXCEPT ![task[c]] = "thrown"]
  /\ UNCHANGED <<tasks, stop, waiting, enqueued, started>>

EnqueuePush(c) ==
  /\ pc[c] = "enqueue"
  /\ EnqueueAllowed
  /\ Unlock(c)
  /\ Goto(c, "notify")
  /\ tasks' = Append(tasks, PushedTask(c))
  /\ task' = [task EXCEPT ![c] = None]
  /\ enqueued' = Append(enqueued, PushedTask(c))
  /\ UNCHANGED <<stop, waiting, future, started>>

\* Mutant: the notification is dropped.
WakeNobody == waiting' = waiting

\* condition.notify_one(), called with the mutex already released.
WakeOne ==
  \/ waiting = {} /\ waiting' = {}
  \/ \E w \in waiting : waiting' = waiting \ {w}

NotifyOne(c) ==
  /\ pc[c] = "notify"
  /\ WakeOne
  /\ Goto(c, "idle")
  /\ UNCHANGED <<queue_mutex, tasks, stop, task, future, enqueued, started>>

-------------------------------------------------------------------------------
(* The worker loop *)

\* At the top of the loop, or when condition.wait returns from blocking.
Acquire(w) ==
  /\ pc[w] \in {"lock", "wait"}
  /\ w \notin waiting
  /\ Lock(w)
  /\ Goto(w, "check")
  /\ UNCHANGED <<tasks, stop, waiting, task, future, enqueued, started>>

WaitPredicate == stop \/ tasks # <<>>

\* The predicate is false: the worker is about to block, mutex still held.
CheckFails(w) ==
  /\ pc[w] = "check"
  /\ ~WaitPredicate
  /\ Goto(w, "park")
  /\ UNCHANGED <<queue_mutex, tasks, stop, waiting, task, future, enqueued, started>>

\* condition.wait releases the mutex and blocks in one step.
Park(w) ==
  /\ pc[w] = "park"
  /\ Unlock(w)
  /\ waiting' = waiting \cup {w}
  /\ Goto(w, "wait")
  /\ UNCHANGED <<tasks, stop, task, future, enqueued, started>>

SpuriousWakeup(w) ==
  /\ w \in waiting
  /\ waiting' = waiting \ {w}
  /\ UNCHANGED <<queue_mutex, tasks, stop, pc, task, future, enqueued, started>>

\* Mutant: a stopped worker leaves without draining the queue.
MayReturnUndrained == stop

MayReturn == stop /\ tasks = <<>>

Return(w) ==
  /\ pc[w] = "check"
  /\ MayReturn
  /\ Unlock(w)
  /\ Goto(w, "exited")
  /\ UNCHANGED <<tasks, stop, waiting, task, future, enqueued, started>>

\* Mutant: the newest task is taken instead of the oldest.
NewestTask == tasks[Len(tasks)]

NextTask == Head(tasks)

\* Mutant: tasks.pop() is forgotten.
UnpoppedTasks == tasks

RemainingTasks == Tail(tasks)

TakeTask(w) ==
  /\ pc[w] = "check"
  /\ WaitPredicate
  /\ ~MayReturn
  /\ Unlock(w)
  /\ Goto(w, "run")
  /\ task' = [task EXCEPT ![w] = NextTask]
  /\ tasks' = RemainingTasks
  /\ started' = Append(started, NextTask)
  /\ UNCHANGED <<stop, waiting, future, enqueued>>

\* task(): the packaged task stores its value or its exception in the future.
RunTask(w) ==
  /\ pc[w] = "run"
  /\ Goto(w, "drop")
  /\ future' = [future EXCEPT ![task[w]] = "ready"]
  /\ UNCHANGED <<queue_mutex, tasks, stop, waiting, task, enqueued, started>>

\* The local `task` is destroyed at the end of the iteration.
DropTask(w) ==
  /\ pc[w] = "drop"
  /\ Goto(w, "lock")
  /\ task' = [task EXCEPT ![w] = None]
  /\ UNCHANGED <<queue_mutex, tasks, stop, waiting, future, enqueued, started>>

-------------------------------------------------------------------------------
(* ~ThreadPool() *)

DtorLock ==
  /\ pc[Owner] = "alive"
  /\ Lock(Owner)
  /\ Goto(Owner, "dtor")
  /\ UNCHANGED <<tasks, stop, waiting, task, future, enqueued, started>>

DtorStop ==
  /\ pc[Owner] = "dtor"
  /\ Unlock(Owner)
  /\ stop' = TRUE
  /\ Goto(Owner, "notify_all")
  /\ UNCHANGED <<tasks, waiting, task, future, enqueued, started>>

\* Mutant: notify_one() instead of notify_all().
WokenByNotifyOne == IF waiting = {} THEN {} ELSE {CHOOSE w \in waiting : TRUE}

WokenByDtor == waiting

DtorNotifyAll ==
  /\ pc[Owner] = "notify_all"
  /\ waiting' = waiting \ WokenByDtor
  /\ Goto(Owner, "join")
  /\ UNCHANGED <<queue_mutex, tasks, stop, task, future, enqueued, started>>

AllJoined == \A w \in Workers : pc[w] = "exited"

DtorJoin ==
  /\ pc[Owner] = "join"
  /\ AllJoined
  /\ Goto(Owner, "destroyed")
  /\ UNCHANGED <<queue_mutex, tasks, stop, waiting, task, future, enqueued, started>>

-------------------------------------------------------------------------------

Caller(c) ==
  \/ \E t \in Tasks : EnqueueLock(c, t)
  \/ EnqueueThrow(c)
  \/ EnqueuePush(c)
  \/ NotifyOne(c)

Worker(w) ==
  \/ Acquire(w)
  \/ CheckFails(w)
  \/ Park(w)
  \/ SpuriousWakeup(w)
  \/ Return(w)
  \/ TakeTask(w)
  \/ RunTask(w)
  \/ DropTask(w)

Destructor == DtorLock \/ DtorStop \/ DtorNotifyAll \/ DtorJoin

Next ==
  \/ \E c \in Callers : Caller(c)
  \/ \E w \in Workers : Worker(w)
  \/ Destructor

Spec == Init /\ [][Next]_vars

(***************************************************************************)
(* A runnable thread is scheduled, and a thread that keeps asking for the  *)
(* mutex is eventually given it. Nobody is obliged to call enqueue(), to   *)
(* start the destructor, or to wake up spuriously.                         *)
(***************************************************************************)
Fairness ==
  /\ \A w \in Workers :
       /\ SF_vars(Acquire(w))
       /\ WF_vars(CheckFails(w) \/ Park(w) \/ Return(w) \/ TakeTask(w)
                    \/ RunTask(w) \/ DropTask(w))
  /\ \A c \in Callers : WF_vars(EnqueueThrow(c) \/ EnqueuePush(c) \/ NotifyOne(c))
  /\ WF_vars(DtorStop \/ DtorNotifyAll \/ DtorJoin)

FairSpec == Spec /\ Fairness

-------------------------------------------------------------------------------
(* Properties *)

\* Tasks are started in the order in which enqueue() pushed them, none is
\* skipped and none is started twice: what was started, followed by what is
\* still queued, is what was pushed.
StartedInOrder == enqueued = started \o tasks

\* A packaged task is invoked once: a worker about to call task() holds a task
\* whose promise is still unsatisfied and that no other worker is about to call.
RunOnce ==
  \A w \in Workers : pc[w] = "run" =>
    /\ future[task[w]] = "pending"
    /\ \A v \in Workers \ {w} : pc[v] = "run" => task[v] # task[w]

\* When the destructor returns, every task that enqueue() accepted has run:
\* no future is left without a value (ThreadPool.h: a worker returns on
\* `stop && tasks.empty()`, not on `stop`).
DrainedAtJoin ==
  pc[Owner] = "destroyed" =>
    \A i \in DOMAIN enqueued : future[enqueued[i]] = "ready"

\* A queued task is never stranded: if every worker is blocked or gone, the
\* notification of the enqueue() that pushed it is still to come.
NoStrandedTask ==
  tasks # <<>> =>
    \/ \E w \in Workers : w \notin waiting /\ pc[w] # "exited"
    \/ \E c \in Callers : pc[c] = "notify"

\* A worker never sleeps through the shutdown: once stop is set, a worker is
\* blocked only while notify_all() is still to come.
NoSleepThroughStop == stop /\ waiting # {} => pc[Owner] = "notify_all"

\* Nothing is pushed after stop is set, and stop is never withdrawn
\* (ThreadPool.h:80, "don't allow enqueueing after stopping the pool").
NoPushAfterStop == [][stop => stop' /\ enqueued' = enqueued]_vars

-------------------------------------------------------------------------------
(* The pool implements TaskPool: the lock, the condition variable and the  *)
(* threads are hidden, and a caller's task counts from its push on.        *)

Phase ==
  IF pc[Owner] = "destroyed" THEN "closed" ELSE IF stop THEN "closing" ELSE "open"

RunningTasks == {task[w] : w \in {v \in Workers : pc[v] = "run"}}

DoneTasks == {t \in Tasks : future[t] = "ready"}

RefusedTasks == {t \in Tasks : future[t] = "thrown"}

Promise == INSTANCE TaskPool WITH
  phase <- Phase, queue <- tasks, running <- RunningTasks, done <- DoneTasks, refused <- RefusedTasks

\* Every behaviour of the pool is one that TaskPool allows.
ImplementsTaskPool == Promise!Spec

\* With fair scheduling the pool also keeps TaskPool's promise of progress.
KeepsTaskPoolPromise == Promise!FairSpec

===============================================================================
