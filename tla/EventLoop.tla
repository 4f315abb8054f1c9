----------------------------- MODULE EventLoop -----------------------------
(***************************************************************************)
(* muduo/net/EventLoop.cc: one loop thread, which alternates poll(),       *)
(* channel callbacks and the functors other code queued, and any number of *)
(* foreign threads that queue functors or ask the loop to quit.            *)
(*                                                                         *)
(* A step is the code between two points where another thread can observe  *)
(* or change the shared state: the mutex-protected vector of pending       *)
(* functors, the flag quit_ and the wakeup eventfd.  The flag is an        *)
(* unsynchronised bool (EventLoop.h: "atomic, at least on x86"); its reads *)
(* and writes are single steps.                                            *)
(***************************************************************************)
EXTENDS Sequences

CONSTANTS
    Callers,        \* threads other than the loop thread
    Functors        \* distinct functors; each is handed to the loop once

VARIABLES
    pc,             \* where the loop thread is inside loop()
    looping,        \* looping_
    quit,           \* quit_
    callingPendingFunctors,   \* callingPendingFunctors_
    pendingFunctors,          \* pendingFunctors_
    functors,       \* what is left of doPendingFunctors()'s local vector
    wakeupReadable, \* the counter of wakeupFd_ is not zero
    activeChannels, \* what is left of activeChannels_
    callerPc,       \* where each foreign thread is
    ran,            \* history: the functors executed, in order
    early           \* history: the loop thread queued a functor outside
                    \* loop() and no batch has been taken since

vars == <<pc, looping, quit, callingPendingFunctors, pendingFunctors, functors,
          wakeupReadable, activeChannels, callerPc, ran, early>>

Channels == {"wakeup", "io"}   \* wakeupChannel_ and a channel of the user

\* loop thread:
\*   idle      outside loop()             entering  between lines 108 and 109
\*   check     at the while condition     poll      blocked in poll()
\*   events    before the next handleEvent()
\*   handler   inside a user's channel callback
\*   swap      callingPendingFunctors_ set, before the swap
\*   functors  before the next functors[i]()
\*   functor   inside a functor
LoopPc == {"idle", "entering", "check", "poll", "events", "handler",
           "swap", "functors", "functor"}

TypeOK ==
    /\ pc \in LoopPc
    /\ looping \in BOOLEAN
    /\ quit \in BOOLEAN
    /\ callingPendingFunctors \in BOOLEAN
    /\ pendingFunctors \in Seq(Functors)
    /\ functors \in Seq(Functors)
    /\ wakeupReadable \in BOOLEAN
    /\ activeChannels \in SUBSET Channels
    /\ callerPc \in [Callers -> {"idle", "wakeup"}]
    /\ ran \in Seq(Functors)
    /\ early \in BOOLEAN

Elements(s) == {s[i] : i \in DOMAIN s}

Fresh(f) ==
    f \notin Elements(pendingFunctors) \cup Elements(functors) \cup Elements(ran)

Init ==
    /\ pc = "idle"
    /\ looping = FALSE
    /\ quit = FALSE
    /\ callingPendingFunctors = FALSE
    /\ pendingFunctors = <<>>
    /\ functors = <<>>
    /\ wakeupReadable = FALSE
    /\ activeChannels = {}
    /\ callerPc = [c \in Callers |-> "idle"]
    /\ ran = <<>>
    /\ early = FALSE

-----------------------------------------------------------------------------
(* loop() and doPendingFunctors(), executed by the loop thread.            *)

EnterLoop ==
    /\ pc = "idle"
    /\ looping' = TRUE
    /\ pc' = "entering"
    /\ UNCHANGED <<quit, callingPendingFunctors, pendingFunctors, functors,
                   wakeupReadable, activeChannels, callerPc, ran, early>>

ResetQuit ==
    /\ pc = "entering"
    /\ quit' = FALSE
    /\ pc' = "check"
    /\ UNCHANGED <<looping, callingPendingFunctors, pendingFunctors, functors,
                   wakeupReadable, activeChannels, callerPc, ran, early>>

CheckQuit ==
    /\ pc = "check"
    /\ IF quit THEN pc' = "idle" /\ looping' = FALSE
               ELSE pc' = "poll" /\ UNCHANGED looping
    /\ activeChannels' = {}
    /\ UNCHANGED <<quit, callingPendingFunctors, pendingFunctors, functors,
                   wakeupReadable, callerPc, ran, early>>

PollReturns(active) ==
    /\ pc = "poll"
    /\ "wakeup" \in active <=> wakeupReadable
    /\ activeChannels' = active
    /\ pc' = "events"
    /\ UNCHANGED <<looping, quit, callingPendingFunctors, pendingFunctors,
                   functors, wakeupReadable, callerPc, ran, early>>

\* The eventfd is readable: poll() returns without waiting for anything else.
PollSignalled == wakeupReadable /\ \E active \in SUBSET Channels : PollReturns(active)

\* An event of another channel (a socket, the timerfd) ends the poll.
PollIo == ~wakeupReadable /\ PollReturns({"io"})

\* kPollTimeMs have passed.
PollTimeout == PollReturns({})

\* handleRead() drains the eventfd: read() resets its counter to 0.
DrainedWakeupFd == FALSE

HandleWakeup ==
    /\ pc = "events"
    /\ "wakeup" \in activeChannels
    /\ wakeupReadable' = DrainedWakeupFd
    /\ activeChannels' = activeChannels \ {"wakeup"}
    /\ UNCHANGED <<pc, looping, quit, callingPendingFunctors, pendingFunctors,
                   functors, callerPc, ran, early>>

HandleIo ==
    /\ pc = "events"
    /\ "io" \in activeChannels
    /\ activeChannels' = activeChannels \ {"io"}
    /\ pc' = "handler"
    /\ UNCHANGED <<looping, quit, callingPendingFunctors, pendingFunctors,
                   functors, wakeupReadable, callerPc, ran, early>>

HandlerReturns ==
    /\ pc = "handler"
    /\ pc' = "events"
    /\ UNCHANGED <<looping, quit, callingPendingFunctors, pendingFunctors,
                   functors, wakeupReadable, activeChannels, callerPc, ran, early>>

BeginPendingFunctors ==
    /\ pc = "events"
    /\ activeChannels = {}
    /\ callingPendingFunctors' = TRUE
    /\ pc' = "swap"
    /\ UNCHANGED <<looping, quit, pendingFunctors, functors, wakeupReadable,
                   activeChannels, callerPc, ran, early>>

\* A fault: the batch is copied and the vector not emptied.
LeftAfterCopy == pendingFunctors

\* functors is a fresh, empty vector: swapping leaves pendingFunctors_ empty.
LeftAfterSwap == <<>>

SwapPendingFunctors ==
    /\ pc = "swap"
    /\ functors' = pendingFunctors
    /\ pendingFunctors' = LeftAfterSwap
    /\ early' = FALSE
    /\ pc' = "functors"
    /\ UNCHANGED <<looping, quit, callingPendingFunctors, wakeupReadable,
                   activeChannels, callerPc, ran>>

CallFunctor ==
    /\ pc = "functors"
    /\ functors # <<>>
    /\ ran' = Append(ran, Head(functors))
    /\ functors' = Tail(functors)
    /\ pc' = "functor"
    /\ UNCHANGED <<looping, quit, callingPendingFunctors, pendingFunctors,
                   wakeupReadable, activeChannels, callerPc, early>>

FunctorReturns ==
    /\ pc = "functor"
    /\ pc' = "functors"
    /\ UNCHANGED <<looping, quit, callingPendingFunctors, pendingFunctors, functors,
                   wakeupReadable, activeChannels, callerPc, ran, early>>

EndPendingFunctors ==
    /\ pc = "functors"
    /\ functors = <<>>
    /\ callingPendingFunctors' = FALSE
    /\ pc' = "check"
    /\ UNCHANGED <<looping, quit, pendingFunctors, functors, wakeupReadable,
                   activeChannels, callerPc, ran, early>>

-----------------------------------------------------------------------------
(* runInLoop(), queueInLoop() and quit().                                  *)

\* A fault: only a foreign thread's call wakes the loop up.
ForeignNeedsWakeup(isInLoopThread) == ~isInLoopThread

\* A fault: wake up only for what is queued during a batch.
BatchNeedsWakeup(isInLoopThread) == isInLoopThread /\ callingPendingFunctors

\* The condition of queueInLoop() for calling wakeup().
NeedsWakeup(isInLoopThread) == ~isInLoopThread \/ callingPendingFunctors

\* A fault: the functor was moved from before it is queued, and what is queued
\* is an empty function object.
PushMovedFrom(s, f) == Append(s, "empty")

PushBack(s, f) == Append(s, f)

\* User code runs in the loop thread before and after loop(), in channel
\* callbacks and in functors.
InUserCode == pc \in {"idle", "handler", "functor"}

\* queueInLoop() by the loop thread, which writes the eventfd itself.
LocalQueueInLoop(f) ==
    /\ InUserCode
    /\ Fresh(f)
    /\ pendingFunctors' = PushBack(pendingFunctors, f)
    /\ wakeupReadable' = (wakeupReadable \/ NeedsWakeup(TRUE))
    /\ early' = (early \/ pc = "idle")
    /\ UNCHANGED <<pc, looping, quit, callingPendingFunctors, functors,
                   activeChannels, callerPc, ran>>

\* runInLoop() by the loop thread calls the functor at once.
LocalRunInLoop(f) ==
    /\ InUserCode
    /\ Fresh(f)
    /\ ran' = Append(ran, f)
    /\ UNCHANGED <<pc, looping, quit, callingPendingFunctors, pendingFunctors,
                   functors, wakeupReadable, activeChannels, callerPc, early>>

LocalQuit ==
    /\ InUserCode
    /\ quit' = TRUE
    /\ UNCHANGED <<pc, looping, callingPendingFunctors, pendingFunctors, functors,
                   wakeupReadable, activeChannels, callerPc, ran, early>>

\* runInLoop() or queueInLoop() by a foreign thread: the mutex is released
\* before wakeup().
QueueInLoop(c, f) ==
    /\ callerPc[c] = "idle"
    /\ Fresh(f)
    /\ pendingFunctors' = PushBack(pendingFunctors, f)
    /\ callerPc' = [callerPc EXCEPT ![c] = IF NeedsWakeup(FALSE) THEN "wakeup" ELSE "idle"]
    /\ UNCHANGED <<pc, looping, quit, callingPendingFunctors, functors,
                   wakeupReadable, activeChannels, ran, early>>

\* A fault: quit() leaves the loop to its poll.
AfterSilentQuit == "idle"

\* What a foreign thread does after setting quit_.
AfterQuit == "wakeup"

Quit(c) ==
    /\ callerPc[c] = "idle"
    /\ quit' = TRUE
    /\ callerPc' = [callerPc EXCEPT ![c] = AfterQuit]
    /\ UNCHANGED <<pc, looping, callingPendingFunctors, pendingFunctors, functors,
                   wakeupReadable, activeChannels, ran, early>>

Wakeup(c) ==
    /\ callerPc[c] = "wakeup"
    /\ wakeupReadable' = TRUE
    /\ callerPc' = [callerPc EXCEPT ![c] = "idle"]
    /\ UNCHANGED <<pc, looping, quit, callingPendingFunctors, pendingFunctors,
                   functors, activeChannels, ran, early>>

-----------------------------------------------------------------------------
\* The loop thread's own progress, without new events and without timeouts.
LoopStep ==
    \/ ResetQuit \/ CheckQuit \/ PollSignalled
    \/ HandleWakeup \/ HandleIo \/ HandlerReturns
    \/ BeginPendingFunctors \/ SwapPendingFunctors
    \/ CallFunctor \/ FunctorReturns \/ EndPendingFunctors

UserCode ==
    \/ LocalQuit
    \/ \E f \in Functors : LocalQueueInLoop(f) \/ LocalRunInLoop(f)

CallerStep(c) ==
    \/ Quit(c) \/ Wakeup(c)
    \/ \E f \in Functors : QueueInLoop(c, f)

Next ==
    \/ EnterLoop \/ LoopStep \/ PollIo \/ PollTimeout \/ UserCode
    \/ \E c \in Callers : CallerStep(c)

\* The loop thread keeps running (callbacks return) and a thread inside
\* queueInLoop() or quit() finishes the call.  Nothing forces an I/O event,
\* and no fairness of PollTimeout: what is shown needs no 10-second timeout.
Fairness == WF_vars(LoopStep) /\ \A c \in Callers : WF_vars(Wakeup(c))

Spec == Init /\ [][Next]_vars

FairSpec == Spec /\ Fairness

-----------------------------------------------------------------------------
(* Properties.                                                             *)

\* The loop has been, or is about to be, woken up.
Signalled == wakeupReadable \/ (\E c \in Callers : callerPc[c] = "wakeup") \/ early

\* The loop never blocks in poll() over a functor it does not know of: while
\* functors are pending there, the eventfd is readable or a caller is about to
\* write it (EventLoop.cc, the condition of queueInLoop()).  The exception the
\* code has is a functor the loop thread itself queued before entering loop().
NoLostWakeup == pc = "poll" /\ pendingFunctors # <<>> => Signalled

\* QuitEndsLoop as an invariant, proved in EventLoopProofs.  The loop never
\* blocks in poll() over a quit() it does not know of: if quit_ is
\* set there, the eventfd is readable or the caller is about to write it
\* (EventLoop.cc:140-150).  A quit() before line 109 is not in question: that line
\* overwrites quit_, which EventLoopThread shows to be noticed by its owner.
NoLostQuit ==
    pc = "poll" /\ quit => wakeupReadable \/ \E c \in Callers : callerPc[c] = "wakeup"

\* The inductive form of NoLostWakeup: before and after the part of the
\* iteration that still comes before the swap, pending functors are signalled.
WakeupInv ==
    /\ pc \notin {"events", "handler", "swap"} /\ pendingFunctors # <<>> => Signalled
    /\ callingPendingFunctors <=> pc \in {"swap", "functors", "functor"}
    /\ functors # <<>> => pc \in {"functors", "functor"}

FQ == INSTANCE FunctorQueue WITH queue <- functors \o pendingFunctors

\* The loop implements FunctorQueue: each functor is executed at most once and
\* the queued ones in queueing order, across the swap, across functors queued
\* by functors, and across the end and the restart of loop().
RefinesFunctorQueue == FQ!Spec

\* A functor queued while the loop runs is executed, or the loop ends, without
\* waiting for an I/O event or for the poll timeout.
QueuedRuns ==
    \A f \in Functors :
        f \in Elements(pendingFunctors) /\ pc # "idle" /\ ~early
            ~> f \in Elements(ran) \/ pc = "idle"

\* quit(), from whichever thread, ends a loop() that has got past line 109
\* without waiting for an I/O event or for the poll timeout.
QuitEndsLoop == quit /\ pc \notin {"idle", "entering"} ~> pc = "idle"
=============================================================================
