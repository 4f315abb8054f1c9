----------------------------- MODULE ThreadPool -----------------------------
(***************************************************************************)
(* muduo/base/ThreadPool.cc: a fixed set of workers that take tasks from   *)
(* a FIFO queue guarded by one mutex and two condition variables.  Any     *)
(* thread may call run(): a foreign thread, or a worker from inside the    *)
(* task it executes.  The critical sections are single steps; running_ is  *)
(* also read outside the mutex, by the workers' loop.  put() and take() of *)
(* BoundedBlockingQueue are run() and take() of a pool that never stops,   *)
(* those of BlockingQueue the same with MaxQueueSize = 0.                  *)
(***************************************************************************)
EXTENDS Naturals, Sequences, FiniteSets

CONSTANTS
    Workers,        \* the threads start() creates
    Producers,      \* other threads that call run()
    MaxQueueSize,   \* maxQueueSize_; 0 means that run() never blocks
    MaxTasks        \* bound: how many times run() is called

ASSUME WorkersAssumption == IsFiniteSet(Workers) /\ IsFiniteSet(Producers)
ASSUME DistinctThreads == Workers \cap Producers = {}
ASSUME BoundsAssumption == MaxQueueSize \in Nat /\ MaxTasks \in Nat

VARIABLES
    running,    \* running_
    queue,      \* queue_: the tasks, numbered in the order of the run() calls
    threads,    \* the members of threads_, all of them started
    owner,      \* where the thread that owns the pool is
    pc,         \* where every other thread is
    arg,        \* the task a thread inside run() wants to queue
    calls       \* how many times run() was called

vars == <<running, queue, threads, owner, pc, arg, calls>>

Threads == Workers \cup Producers

\* worker:    absent   not started yet       check   at while (running_)
\*            take     wants the mutex in take(), or was woken in it
\*            asleep   in notEmpty_.wait()   task    inside task()
\*            exited   runInThread() returned
\* producer:  idle     outside the pool
\* both:      run      wants the mutex in run(), or was woken in it
\*            blocked  in notFull_.wait()
Pc == {"absent", "check", "take", "asleep", "task", "exited", "idle", "run", "blocked"}

TypeOK ==
    /\ running \in BOOLEAN
    /\ queue \in Seq(1..MaxTasks)
    /\ threads \in SUBSET Workers
    /\ owner \in {"new", "starting", "started", "joining", "joined"}
    /\ pc \in [Threads -> Pc]
    /\ arg \in [Threads -> 0..MaxTasks]
    /\ calls \in 0..MaxTasks

Init ==
    /\ running = FALSE
    /\ queue = <<>>
    /\ threads = {}
    /\ owner = "new"
    /\ pc = [t \in Threads |-> IF t \in Workers THEN "absent" ELSE "idle"]
    /\ arg = [t \in Threads |-> 0]
    /\ calls = 0

At(where) == {t \in Threads : pc[t] = where}

-----------------------------------------------------------------------------
(* start(), stop() and the destructor, called by the owner.                *)

Start ==
    /\ owner = "new"
    /\ running' = TRUE
    /\ owner' = "starting"
    /\ UNCHANGED <<queue, threads, pc, arg, calls>>

StartThread(w) ==
    /\ owner = "starting"
    /\ w \in Workers \ threads
    /\ threads' = threads \cup {w}
    /\ pc' = [pc EXCEPT ![w] = "check"]
    /\ UNCHANGED <<running, queue, owner, arg, calls>>

StartReturns ==
    /\ owner = "starting"
    /\ threads = Workers
    /\ owner' = "started"
    /\ UNCHANGED <<running, queue, threads, pc, arg, calls>>

\* A fault: the sleeping workers are not woken.
NotifyNoWorker == pc

\* notEmpty_.notifyAll(): every sleeping worker is on its way to the mutex.
NotifyAllWorkers == [t \in Threads |-> IF pc[t] = "asleep" THEN "take" ELSE pc[t]]

Stop ==
    /\ owner = "started"
    /\ running' = FALSE
    /\ pc' = NotifyAllWorkers
    /\ owner' = "joining"
    /\ UNCHANGED <<queue, threads, arg, calls>>

StopJoins ==
    /\ owner = "joining"
    /\ \A w \in threads : pc[w] = "exited"
    /\ owner' = "joined"
    /\ UNCHANGED <<running, queue, threads, pc, arg, calls>>

-----------------------------------------------------------------------------
(* run(): by a producer, or by a worker inside a task.  threads_ is not    *)
(* guarded, so nobody calls run() while start() fills it.                  *)

IsFull == MaxQueueSize > 0 /\ Len(queue) >= MaxQueueSize

\* One waiter on a condition, if there is one, is woken: it moves from the
\* place where it waits to the place where it competes for the mutex.
Notify(f, asleep, awake) ==
    IF \E t \in Threads : f[t] = asleep
    THEN {[f EXCEPT ![t] = awake] : t \in {u \in Threads : f[u] = asleep}}
    ELSE {f}

\* threads_ is empty: the task runs in its caller, before run() returns.
RunInCaller(t) ==
    /\ threads = {} /\ owner # "starting"
    /\ pc[t] = "idle"
    /\ calls < MaxTasks
    /\ calls' = calls + 1
    /\ UNCHANGED <<running, queue, threads, owner, pc, arg>>

CallRun(t) ==
    /\ owner \notin {"new", "starting"} /\ threads # {}
    /\ pc[t] \in {"idle", "task"}
    /\ calls < MaxTasks
    /\ calls' = calls + 1
    /\ arg' = [arg EXCEPT ![t] = calls + 1]
    /\ pc' = [pc EXCEPT ![t] = "run"]
    /\ UNCHANGED <<running, queue, threads, owner>>

\* Where run() returns to.
Caller(t) == IF t \in Workers THEN "task" ELSE "idle"

\* A fault: the task is queued and nobody is told.
PushSilently(t) ==
    /\ queue' = Append(queue, arg[t])
    /\ arg' = [arg EXCEPT ![t] = 0]
    /\ pc' = [pc EXCEPT ![t] = Caller(t)]
    /\ UNCHANGED <<running, threads, owner, calls>>

\* A fault: the task was moved from before it is queued.
PushMovedFrom(t) ==
    /\ arg' = [arg EXCEPT ![t] = 0]
    /\ queue' = Append(queue, arg'[t])
    /\ pc' \in Notify([pc EXCEPT ![t] = Caller(t)], "asleep", "take")
    /\ UNCHANGED <<running, threads, owner, calls>>

\* push_back and notEmpty_.notify().
Push(t) ==
    /\ queue' = Append(queue, arg[t])
    /\ arg' = [arg EXCEPT ![t] = 0]
    /\ pc' \in Notify([pc EXCEPT ![t] = Caller(t)], "asleep", "take")
    /\ UNCHANGED <<running, threads, owner, calls>>

\* One turn of while (isFull()) notFull_.wait(), and what follows the loop.
RunInMutex(t) ==
    /\ pc[t] = "run"
    /\ \/ /\ IsFull
          /\ pc' = [pc EXCEPT ![t] = "blocked"]
          /\ UNCHANGED <<running, queue, threads, owner, arg, calls>>
       \/ ~IsFull /\ Push(t)

-----------------------------------------------------------------------------
(* runInThread() and take(), by a worker.                                  *)

CheckRunning(w) ==
    /\ pc[w] = "check"
    /\ pc' = [pc EXCEPT ![w] = IF running THEN "take" ELSE "exited"]
    /\ UNCHANGED <<running, queue, threads, owner, arg, calls>>

\* take() went to sleep in notEmpty_.wait().
TakeWaits(w) ==
    /\ pc[w] = "take"
    /\ queue = <<>> /\ running
    /\ pc' = [pc EXCEPT ![w] = "asleep"]
    /\ UNCHANGED <<running, queue, threads, owner, arg, calls>>

\* A fault: only a queue that was full is worth a notification.
TakeNotifiesIfFull == MaxQueueSize > 0 /\ Len(queue) = MaxQueueSize

\* Whether take() tells a caller of run() that a slot is free.
TakeNotifies == MaxQueueSize > 0

\* Tail and notFull_.notify(); the task then begins.
TakeTask(w) ==
    /\ pc[w] = "take"
    /\ queue # <<>>
    /\ queue' = Tail(queue)
    /\ LET taken == [pc EXCEPT ![w] = "task"]
       IN  pc' \in IF TakeNotifies THEN Notify(taken, "blocked", "run") ELSE {taken}
    /\ UNCHANGED <<running, threads, owner, arg, calls>>

\* Stopped and nothing queued: take() returns an empty Task, which is not run.
TakeNothing(w) ==
    /\ pc[w] = "take"
    /\ queue = <<>> /\ ~running
    /\ pc' = [pc EXCEPT ![w] = "check"]
    /\ UNCHANGED <<running, queue, threads, owner, arg, calls>>

TaskReturns(w) ==
    /\ w \in Workers
    /\ pc[w] = "task"
    /\ pc' = [pc EXCEPT ![w] = "check"]
    /\ UNCHANGED <<running, queue, threads, owner, arg, calls>>

\* pthread_cond_wait() may return without a notification.
SpuriousWakeup(t) ==
    /\ \/ pc[t] = "asleep" /\ pc' = [pc EXCEPT ![t] = "take"]
       \/ pc[t] = "blocked" /\ pc' = [pc EXCEPT ![t] = "run"]
    /\ UNCHANGED <<running, queue, threads, owner, arg, calls>>

-----------------------------------------------------------------------------

WorkerStep(w) ==
    \/ CheckRunning(w) \/ TakeWaits(w) \/ TakeTask(w) \/ TakeNothing(w)
    \/ TaskReturns(w)

OwnerStep == Start \/ (\E w \in Workers : StartThread(w)) \/ StartReturns \/ StopJoins

Next ==
    \/ OwnerStep \/ Stop
    \/ \E w \in Workers : WorkerStep(w)
    \/ \E t \in Threads : RunInCaller(t) \/ CallRun(t) \/ RunInMutex(t)
                          \/ SpuriousWakeup(t)

Spec == Init /\ [][Next]_vars

\* The scheduler runs every thread that can run, and tasks return.  Nobody
\* has to call run() or stop(), and no spurious wakeup has to happen.
FairSpec ==
    /\ Spec
    /\ WF_vars(OwnerStep)
    /\ \A w \in Workers : WF_vars(WorkerStep(w))
    /\ \A t \in Threads : WF_vars(RunInMutex(t))

-----------------------------------------------------------------------------
(* While a worker sleeps in take(), there are at least as many workers on  *)
(* their way to the mutex as there are queued tasks; while a thread is     *)
(* blocked in run(), as many callers of run() on their way as free slots.  *)
(* So neither notify() of ThreadPool.cc:87 and 128, each for one waiter,   *)
(* is ever one too few, whoever takes the mutex first.                     *)
NoLostNotify ==
    /\ At("asleep") # {} => Len(queue) <= Cardinality(At("take"))
    /\ At("blocked") # {} => MaxQueueSize <= Len(queue) + Cardinality(At("run"))

\* The worker executes a task that is itself waiting in run() for a slot.
Stuck(w) == pc[w] \in {"run", "blocked"} /\ IsFull

(* A queued task is taken, unless the pool is stopped first or every       *)
(* worker has blocked itself: tasks that call run() on a bounded pool can  *)
(* wait for each other for ever, nothing else can delay a task for ever.   *)
QueuedTaskStarts ==
    \A k \in 1..MaxTasks :
        (\E i \in DOMAIN queue : queue[i] = k)
            ~> (~running \/ (\A w \in Workers : Stuck(w)) \/ \A i \in DOMAIN queue : queue[i] # k)

(* stop() returns once the tasks under way have: every worker leaves its   *)
(* loop, one asleep in take() included.  The exception is the price of     *)
(* ThreadPool.cc:58 waking only the workers in take(): a task that waits   *)
(* in run() for a free slot when the pool stops is never woken, and join() *)
(* waits for it.                                                           *)
StopReturns ==
    owner = "joining" ~> (owner = "joined" \/ \E w \in Workers : Stuck(w))
=============================================================================
