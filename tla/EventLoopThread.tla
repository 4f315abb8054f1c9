-------------------------- MODULE EventLoopThread --------------------------
(***************************************************************************)
(* muduo/net/EventLoopThread.cc with base/Thread.cc: an owner starts a     *)
(* thread that runs an EventLoop on its stack, waits for the loop to be    *)
(* published, uses it, and destroys the EventLoopThread.  The loop is the  *)
(* one of module EventLoop; the owner is its only foreign thread.          *)
(*                                                                         *)
(* The constructor and destructor of the loop bound its life, so a call    *)
(* through a pointer that outlives it, or the use of a mutex that is gone, *)
(* is recorded in misuse instead of being left undefined.  One such call   *)
(* is left out: a wakeup() that follows the functor or the quit() that     *)
(* ended the loop writes to an eventfd that may be closed by then.         *)
(***************************************************************************)
EXTENDS Integers, Sequences

CONSTANTS
    Owner,          \* the thread that owns the EventLoopThread
    Functors,       \* functors the owner or the init callback may submit
    QuitFunctors,   \* those whose body calls quit() on the loop
    Patient         \* the owner destroys the object only once the loop is known
                    \* to run (or to have ended), as the unit test's sleeps do

ASSUME QuitFunctorsAssumption == QuitFunctors \subseteq Functors
ASSUME PatientAssumption == Patient \in BOOLEAN

VARIABLES pc, looping, quit, callingPendingFunctors, pendingFunctors, functors,
          wakeupReadable, activeChannels, callerPc, ran, early

loopVars == <<pc, looping, quit, callingPendingFunctors, pendingFunctors, functors,
              wakeupReadable, activeChannels, callerPc, ran, early>>

EL == INSTANCE EventLoop WITH Callers <- {Owner}

VARIABLES
    ownerPc,        \* where the owner is
    workerPc,       \* where the thread is in threadFunc()
    latch,          \* count_ of Thread::latch_
    loopPtr,        \* loop_ is not NULL
    misuse          \* which uses of a NULL or destructed object there were

threadVars == <<ownerPc, workerPc, latch, loopPtr, misuse>>
vars == <<loopVars, threadVars>>

\* owner: new (constructed), latch (in Thread::start), lock (about to lock and
\*   test loop_), waiting (in cond_.wait), started (startLoop() has returned),
\*   dtorTest, dtorQuit, dtorWakeup, join (in the destructor), destroyed
OwnerPc == {"new", "latch", "lock", "waiting", "started",
            "dtorTest", "dtorQuit", "dtorWakeup", "join", "destroyed"}

\* thread: none (not created), start (runInThread), construct (EventLoop loop),
\*   callback (in callback_), publish, enter (before loop.loop()), loop (in it),
\*   unlock (loop_ is NULL, mutex still held), destruct, ended
WorkerPc == {"none", "start", "construct", "callback", "publish", "enter", "loop",
             "unlock", "destruct", "ended"}

\* quit: ~EventLoopThread() calls quit() on a NULL or destructed loop;
\* mutex: the thread uses the mutex of a destructed EventLoopThread
Misuses == {"quit", "mutex"}

TypeOK ==
    /\ EL!TypeOK
    /\ ownerPc \in OwnerPc
    /\ workerPc \in WorkerPc
    /\ latch \in {0, 1}
    /\ loopPtr \in BOOLEAN
    /\ misuse \subseteq Misuses

Init ==
    /\ EL!Init
    /\ ownerPc = "new"
    /\ workerPc = "none"
    /\ latch = 1
    /\ loopPtr = FALSE
    /\ misuse = {}

LoopConstructed == workerPc \notin {"none", "start", "construct", "ended"}

MisusedIf(wrong, what) == misuse \cup (IF wrong THEN {what} ELSE {})

-----------------------------------------------------------------------------
(* The thread: ThreadData::runInThread() and threadFunc().                 *)

\* A fault: the latch is counted down twice.
countDownTwice(count) == count - 2

countDown(count) == count - 1

WorkerStarts ==
    /\ workerPc = "start"
    /\ latch' = countDown(latch)
    /\ workerPc' = "construct"
    /\ UNCHANGED <<loopVars, ownerPc, loopPtr, misuse>>

ConstructLoop ==
    /\ workerPc = "construct"
    /\ workerPc' = "callback"
    /\ UNCHANGED <<loopVars, ownerPc, latch, loopPtr, misuse>>

\* callback_(&loop) may queue work for the loop it is given, a quit() too ...
InitCallbackQueues ==
    /\ workerPc = "callback"
    /\ \E f \in Functors : EL!LocalQueueInLoop(f)
    /\ UNCHANGED threadVars

\* ... or call quit() at once, which loop() overwrites when it begins.
InitCallbackQuits ==
    /\ workerPc = "callback"
    /\ EL!LocalQuit
    /\ UNCHANGED threadVars

InitCallbackReturns ==
    /\ workerPc = "callback"
    /\ workerPc' = "publish"
    /\ UNCHANGED <<loopVars, ownerPc, latch, loopPtr, misuse>>

\* A fault: nobody is notified.
WithoutNotify(o) == o

\* cond_.notify(): the owner, if it waits, competes for the mutex again.
Notified(o) == IF o = "waiting" THEN "lock" ELSE o

Publish ==
    /\ workerPc = "publish"
    /\ loopPtr' = TRUE
    /\ ownerPc' = Notified(ownerPc)
    /\ workerPc' = "enter"
    /\ UNCHANGED <<loopVars, latch, misuse>>

EnterLoop ==
    /\ workerPc = "enter"
    /\ EL!EnterLoop
    /\ workerPc' = "loop"
    /\ UNCHANGED <<ownerPc, latch, loopPtr, misuse>>

\* The body of a quitting functor calls quit() before it returns.
MustQuit == pc = "functor" /\ ran[Len(ran)] \in QuitFunctors /\ ~quit

FunctorQuits ==
    /\ workerPc = "loop"
    /\ MustQuit
    /\ EL!LocalQuit
    /\ UNCHANGED threadVars

LoopRuns ==
    /\ workerPc = "loop"
    /\ ~MustQuit
    /\ EL!LoopStep
    /\ UNCHANGED threadVars

PollEnds ==
    /\ workerPc = "loop"
    /\ EL!PollIo \/ EL!PollTimeout
    /\ UNCHANGED threadVars

\* loop_ after the last critical section of threadFunc().
ClearedAtExit == FALSE

\* loop.loop() has returned: lock mutex_, loop_ = NULL.
Unpublish ==
    /\ workerPc = "loop"
    /\ pc = "idle"
    /\ loopPtr' = ClearedAtExit
    /\ misuse' = MisusedIf(ownerPc = "destroyed", "mutex")
    /\ workerPc' = "unlock"
    /\ UNCHANGED <<loopVars, ownerPc, latch>>

\* The guard is destructed before the loop: unlock, then ~EventLoop().
UnlockMutex ==
    /\ workerPc = "unlock"
    /\ misuse' = MisusedIf(ownerPc = "destroyed", "mutex")
    /\ workerPc' = "destruct"
    /\ UNCHANGED <<loopVars, ownerPc, latch, loopPtr>>

DestructLoop ==
    /\ workerPc = "destruct"
    /\ workerPc' = "ended"
    /\ UNCHANGED <<loopVars, ownerPc, latch, loopPtr, misuse>>

-----------------------------------------------------------------------------
(* The owner: startLoop(), calls through the returned pointer, ~.          *)

StartLoop ==
    /\ ownerPc = "new"
    /\ workerPc' = "start"
    /\ ownerPc' = "latch"
    /\ UNCHANGED <<loopVars, latch, loopPtr, misuse>>

LatchOpens ==
    /\ ownerPc = "latch"
    /\ latch = 0
    /\ ownerPc' = "lock"
    /\ UNCHANGED <<loopVars, workerPc, latch, loopPtr, misuse>>

\* Lock mutex_ and test loop_; waiting releases the mutex.  The thread holds
\* it from Unpublish to UnlockMutex.
TestLoopPtr ==
    /\ ownerPc = "lock"
    /\ workerPc # "unlock"
    /\ ownerPc' = IF loopPtr THEN "started" ELSE "waiting"
    /\ UNCHANGED <<loopVars, workerPc, latch, loopPtr, misuse>>

SpuriousWakeup ==
    /\ ownerPc = "waiting"
    /\ ownerPc' = "lock"
    /\ UNCHANGED <<loopVars, workerPc, latch, loopPtr, misuse>>

\* runInLoop() through the pointer startLoop() returned.  The owner does not use
\* the pointer once a functor that quits the loop is submitted, by itself or by
\* the init callback it passed to the constructor.
OwnerRunsInLoop ==
    /\ ownerPc = "started"
    /\ \A f \in QuitFunctors : EL!Fresh(f)
    /\ \E f \in Functors : EL!QueueInLoop(Owner, f)
    /\ UNCHANGED threadVars

OwnerWakesLoop ==
    /\ ownerPc = "started"
    /\ EL!Wakeup(Owner)
    /\ UNCHANGED threadVars

\* What a patient owner has made sure of before it lets go of the object.
KnownToRun ==
    \/ workerPc = "ended"
    \/ /\ ran # <<>>
       /\ \A f \in QuitFunctors : EL!Fresh(f)

BeginDestructor ==
    /\ ownerPc \in {"new", "started"}
    /\ callerPc[Owner] = "idle"
    /\ Patient /\ ownerPc = "started" => KnownToRun
    /\ ownerPc' = "dtorTest"
    /\ UNCHANGED <<loopVars, workerPc, latch, loopPtr, misuse>>

\* A fault: the destructor joins a loop that nobody told to quit.
JoinsOnly(published) == IF published THEN "join" ELSE "destroyed"

\* "if (loop_ != NULL)", read without the mutex.
QuitsAndJoins(published) == IF published THEN "dtorQuit" ELSE "destroyed"

DestructorTests ==
    /\ ownerPc = "dtorTest"
    /\ ownerPc' = QuitsAndJoins(loopPtr)
    /\ UNCHANGED <<loopVars, workerPc, latch, loopPtr, misuse>>

\* loop_->quit() reads loop_ a second time.
DestructorQuits ==
    /\ ownerPc = "dtorQuit"
    /\ IF loopPtr /\ LoopConstructed
       THEN EL!Quit(Owner) /\ UNCHANGED misuse
       ELSE misuse' = misuse \cup {"quit"} /\ UNCHANGED loopVars
    /\ ownerPc' = "dtorWakeup"
    /\ UNCHANGED <<workerPc, latch, loopPtr>>

\* A fault: the destructor does not join.
DestroyedUnjoined == "destroyed"

AfterDtorWakeup == "join"

DestructorWakesLoop ==
    /\ ownerPc = "dtorWakeup"
    /\ IF callerPc[Owner] = "wakeup"
       THEN EL!Wakeup(Owner)
       ELSE UNCHANGED loopVars
    /\ ownerPc' = AfterDtorWakeup
    /\ UNCHANGED <<workerPc, latch, loopPtr, misuse>>

Join ==
    /\ ownerPc = "join"
    /\ workerPc = "ended"
    /\ ownerPc' = "destroyed"
    /\ UNCHANGED <<loopVars, workerPc, latch, loopPtr, misuse>>

-----------------------------------------------------------------------------
WorkerStep ==
    \/ WorkerStarts \/ ConstructLoop \/ InitCallbackReturns
    \/ Publish \/ EnterLoop \/ FunctorQuits \/ LoopRuns
    \/ Unpublish \/ UnlockMutex \/ DestructLoop

\* The owner inside one of its calls.
OwnerCallStep ==
    \/ LatchOpens \/ TestLoopPtr \/ OwnerWakesLoop
    \/ DestructorTests \/ DestructorQuits \/ DestructorWakesLoop \/ Join

Next ==
    \/ WorkerStep \/ InitCallbackQueues \/ InitCallbackQuits \/ PollEnds
    \/ OwnerCallStep \/ StartLoop \/ SpuriousWakeup
    \/ OwnerRunsInLoop \/ BeginDestructor

\* Both threads keep running inside the calls modelled here; nothing makes the
\* owner start, use or destroy the object, and poll() need not time out.
Fairness == WF_vars(WorkerStep) /\ WF_vars(OwnerCallStep)

Spec == Init /\ [][Next]_vars /\ Fairness

-----------------------------------------------------------------------------
(* Properties.                                                             *)

\* The loop startLoop() waits for is seen however the publication interleaves
\* with the owner's test, wait and spurious wakeups.  The one exception: if the
\* init callback queues a functor that quits, the loop may end and loop_ be NULL
\* again (EventLoopThread.cc:78) before the owner tests it (line 50), and nothing
\* then ends the wait.
StartLoopReturns ==
    ownerPc \in {"latch", "lock", "waiting"} ~>
        \/ ownerPc = "started"
        \/ workerPc = "ended" /\ QuitFunctors \cap EL!Elements(ran) # {}

\* The destructor does not call into a NULL or destructed loop, and the thread
\* does not use the mutex of a destructed EventLoopThread (the destructor tests
\* and reads loop_ without the mutex, and joins only if it was not NULL).
DestructorIsSafe == misuse = {}

\* The destructor's quit() ends the loop and the destructor returns.
DestructorReturns == ownerPc = "dtorTest" ~> ownerPc = "destroyed"
=============================================================================
