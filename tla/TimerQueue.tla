----------------------------- MODULE TimerQueue -----------------------------
(***************************************************************************)
(* muduo/net/TimerQueue.cc, Timer.h and TimerId.h: the timers of one loop, *)
(* kept in two sets (by expiration and by identity) and driven by one      *)
(* timerfd.  Timers are heap objects named by their address; an address is *)
(* reused after a delete, so a TimerId pairs it with a sequence number.    *)
(*                                                                         *)
(* The loop thread adds and cancels directly, from channel callbacks and   *)
(* from timer callbacks; a foreign thread goes through runInLoop(), whose  *)
(* functors run in FIFO order after the events of an iteration (module     *)
(* FunctorQueue).  One clock tick stands for any time longer than the 100  *)
(* microseconds that howMuchTimeFromNow() adds to a time in the past.      *)
(***************************************************************************)
EXTENDS Naturals, Sequences, FiniteSets

CONSTANTS
    Addrs,          \* addresses operator new can return, a set of positive numbers
    Intervals,      \* intervals of runEvery(), with 0 for runAt() and runAfter()
    MaxTimers,      \* bound: timers ever created
    MaxTime,        \* bound: last tick of the clock
    MaxPending      \* bound: length of the functor queue

ASSUME AddrsAssumption == Addrs \subseteq Nat \ {0}
ASSUME BoundsAssumption == Intervals \subseteq Nat /\ {MaxTimers, MaxTime, MaxPending} \subseteq Nat \ {0}

VARIABLES
    now,            \* Timestamp::now()
    pc,             \* where the loop thread is
    heap,           \* the Timer objects, by address
    numCreated,     \* Timer::s_numCreated_
    timers,         \* timers_: pairs <<expiration, address>>
    activeTimers,   \* activeTimers_: pairs <<address, sequence>>
    cancelingTimers,       \* cancelingTimers_
    callingExpiredTimers,  \* callingExpiredTimers_
    expired,        \* the entries handleRead() has taken out of timers_
    due,            \* those of them whose callback has still to run
    batchNow,       \* the time handleRead() read when it started
    alarm,          \* when timerfd_ is set to fire, or NoAlarm
    readable,       \* timerfd_ has fired and was not read
    polled,         \* timerfdChannel_ is active in this iteration
    pendingFunctors,\* addTimerInLoop and cancelInLoop calls of the foreign thread
    batch,          \* how many of them doPendingFunctors() has still to run
    adding,         \* the timer a foreign addTimer() has queued and not returned
    idOf,           \* the TimerId addTimer() returned for each timer created
    asked,          \* history: timers whose cancelInLoop() has been executed
    found,          \* history: timers it found in the batch being run
    fired           \* history: timers whose callback has run; all three are
                    \* kept as long as the timer exists

loopVars == <<now, pc, polled, pendingFunctors, batch>>
queueVars == <<heap, timers, activeTimers, alarm, readable>>
batchVars == <<callingExpiredTimers, expired, due, batchNow>>
userVars == <<numCreated, adding, idOf>>
cancelVars == <<cancelingTimers, asked, found>>
vars == <<loopVars, queueVars, batchVars, userVars, cancelVars, fired>>

NoAlarm == 0
Free == [sequence |-> 0, expiration |-> 0, interval |-> 0]
NoId == <<0, 0>>                    \* TimerId()
Sequences_ == 1 .. MaxTimers
Times == 1 .. MaxTime
Expirations == Nat \ {0}         \* a restarted timer may expire after MaxTime
Ids == {NoId} \cup (Addrs \X (0 .. MaxTimers))

Functor == [op : {"add"}, addr : Addrs] \cup [op : {"cancel"}, id : Ids, of : Sequences_]

TypeOK ==
    /\ now \in Times
    /\ pc \in {"poll", "events", "timers", "callback", "functors"}
    /\ heap \in [Addrs -> {Free} \cup [sequence : Sequences_, expiration : Expirations,
                                       interval : Intervals]]
    /\ numCreated \in 0 .. MaxTimers
    /\ timers \subseteq Expirations \X Addrs
    /\ activeTimers \subseteq Addrs \X Sequences_
    /\ cancelingTimers \subseteq Ids
    /\ callingExpiredTimers \in BOOLEAN
    /\ expired \subseteq Expirations \X Addrs /\ due \subseteq expired
    /\ batchNow \in Times
    /\ alarm \in {NoAlarm} \cup Expirations
    /\ readable \in BOOLEAN /\ polled \in BOOLEAN
    /\ pendingFunctors \in Seq(Functor) /\ batch \in 0 .. Len(pendingFunctors)
    /\ adding \in {NoId} \cup (Addrs \X Sequences_)
    /\ idOf \in [Sequences_ -> Ids]
    /\ asked \subseteq Sequences_ /\ found \subseteq Sequences_ /\ fired \subseteq Sequences_

Init ==
    /\ now = 1
    /\ pc = "events"
    /\ heap = [a \in Addrs |-> Free]
    /\ numCreated = 0
    /\ timers = {} /\ activeTimers = {} /\ cancelingTimers = {}
    /\ callingExpiredTimers = FALSE
    /\ expired = {} /\ due = {} /\ batchNow = 1
    /\ alarm = NoAlarm /\ readable = FALSE /\ polled = FALSE
    /\ pendingFunctors = <<>> /\ batch = 0
    /\ adding = NoId
    /\ idOf = [s \in Sequences_ |-> NoId]
    /\ asked = {} /\ found = {} /\ fired = {}

\* The histories after a step that may delete timers.
Existing(S) == S \cap {heap'[a].sequence : a \in Addrs}

-----------------------------------------------------------------------------
(* The timerfd.                                                            *)

Later(s, t) == IF s > t THEN s ELSE t

\* A fault: the relative time is not kept positive; 0 disarms a timerfd.
UnclampedDeadline(when) == IF when > now THEN when ELSE NoAlarm

\* howMuchTimeFromNow(): a time that has passed is replaced by "very soon".
Deadline(when) == Later(when, now)

\* timerfd_settime() replaces the alarm and forgets an expiry not yet read.
resetTimerfd(when) ==
    /\ alarm' = Deadline(when)
    /\ readable' = FALSE

AlarmFires ==
    /\ alarm # NoAlarm
    /\ alarm <= now
    /\ alarm' = NoAlarm
    /\ readable' = TRUE
    /\ UNCHANGED <<loopVars, heap, timers, activeTimers, batchVars, userVars, cancelVars, fired>>

ClockTicks ==
    /\ now < MaxTime
    /\ now' = now + 1
    /\ UNCHANGED <<pc, polled, pendingFunctors, batch, queueVars, batchVars, userVars,
                   cancelVars, fired>>

-----------------------------------------------------------------------------
(* insert(), addTimerInLoop() and cancelInLoop(): parts of the actions of  *)
(* the loop thread below.                                                  *)

\* A fault: the comparison of insert() the wrong way round.
earliestChangedLater(when) == timers = {} \/ \E t \in timers : when > t[1]

earliestChanged(when) == \A t \in timers : when < t[1]

addTimerInLoop(a, timer) ==
    /\ timers' = timers \cup {<<timer.expiration, a>>}
    /\ activeTimers' = activeTimers \cup {<<a, timer.sequence>>}
    /\ IF earliestChanged(timer.expiration)
       THEN resetTimerfd(timer.expiration)
       ELSE UNCHANGED <<alarm, readable>>

\* A fault: timers are looked up by address alone.
isActiveByAddress(id) == \E t \in activeTimers : t[1] = id[1]

isActive(id) == id \in activeTimers

\* A fault: a timer of the batch being run is deleted at once as well.
deletedEvenIfExpired(id, a) == a = id[1] /\ heap[a].sequence = id[2]

\* The entry leaves both sets and the timer is deleted.
deletedByCancel(id, a) == isActive(id) /\ a = id[1]

\* of: the timer the caller got this TimerId for.
cancelInLoop(id, of) ==
    /\ timers' = {t \in timers : ~deletedByCancel(id, t[2])}
    /\ activeTimers' = activeTimers \ {id}
    /\ heap' = [a \in Addrs |-> IF deletedByCancel(id, a) THEN Free ELSE heap[a]]
    /\ cancelingTimers' = IF ~isActive(id) /\ callingExpiredTimers
                          THEN cancelingTimers \cup {id} ELSE cancelingTimers
    /\ asked' = Existing(asked \cup {of})
    /\ found' = Existing(IF \E t \in expired : id = <<t[2], heap[t[2]].sequence>>
                         THEN found \cup {id[2]} ELSE found)
    /\ fired' = Existing(fired)
    /\ UNCHANGED <<alarm, readable>>

-----------------------------------------------------------------------------
(* addTimer() and cancel() by user code of the loop thread, in a channel   *)
(* callback or in a timer's callback.                                      *)

InUserCode == pc \in {"events", "callback"}

NewTimer(when, interval) ==
    [sequence |-> numCreated + 1, expiration |-> when, interval |-> interval]

AddTimer(a, when, interval) ==
    LET timer == NewTimer(when, interval) IN
    /\ InUserCode
    /\ numCreated < MaxTimers
    /\ heap[a] = Free
    /\ heap' = [heap EXCEPT ![a] = timer]
    /\ numCreated' = timer.sequence
    /\ addTimerInLoop(a, timer)
    /\ idOf' = [idOf EXCEPT ![timer.sequence] = <<a, timer.sequence>>]
    /\ UNCHANGED <<loopVars, batchVars, adding, cancelVars, fired>>

Cancel(s) ==
    /\ InUserCode
    /\ idOf[s] # NoId
    /\ cancelInLoop(idOf[s], s)
    /\ UNCHANGED <<loopVars, batchVars, userVars>>

-----------------------------------------------------------------------------
(* The foreign thread.                                                     *)

\* new Timer, then runInLoop(addTimerInLoop).
ForeignAddTimer(a, when, interval) ==
    LET timer == NewTimer(when, interval) IN
    /\ adding = NoId
    /\ numCreated < MaxTimers
    /\ Len(pendingFunctors) < MaxPending
    /\ heap[a] = Free
    /\ heap' = [heap EXCEPT ![a] = timer]
    /\ numCreated' = timer.sequence
    /\ pendingFunctors' = Append(pendingFunctors, [op |-> "add", addr |-> a])
    /\ adding' = <<a, timer.sequence>>
    /\ UNCHANGED <<now, pc, polled, batch, timers, activeTimers, alarm, readable,
                   batchVars, idOf, cancelVars, fired>>

\* return TimerId(timer, timer->sequence()): the object is read again.  If it
\* was deleted meanwhile, the read yields another timer's number, what is left
\* of its own, or garbage.
ForeignAddTimerReturns(sequence) ==
    /\ adding # NoId
    /\ sequence \in IF heap[adding[1]] # Free THEN {heap[adding[1]].sequence}
                                             ELSE {adding[2], 0}
    /\ idOf' = [idOf EXCEPT ![adding[2]] = <<adding[1], sequence>>]
    /\ adding' = NoId
    /\ UNCHANGED <<loopVars, queueVars, batchVars, numCreated, cancelVars, fired>>

ForeignCancel(s) ==
    /\ adding = NoId
    /\ idOf[s] # NoId
    /\ Len(pendingFunctors) < MaxPending
    /\ pendingFunctors' = Append(pendingFunctors, [op |-> "cancel", id |-> idOf[s], of |-> s])
    /\ UNCHANGED <<now, pc, polled, batch, queueVars, batchVars, userVars, cancelVars, fired>>

-----------------------------------------------------------------------------
(* The loop thread: poll, handleRead(), functors.                          *)

Poll ==
    /\ pc = "poll"
    /\ pc' = "events"
    /\ polled' = readable
    /\ UNCHANGED <<now, pendingFunctors, batch, queueVars, batchVars, userVars, cancelVars, fired>>

\* getExpired(): everything up to and including the present moment.
getExpired == {t \in timers : t[1] <= now}

\* handleRead(), up to the loop over the expired timers.
HandleRead ==
    /\ pc = "events"
    /\ polled
    /\ polled' = FALSE
    /\ readable' = FALSE
    /\ expired' = getExpired
    /\ due' = getExpired
    /\ timers' = timers \ getExpired
    /\ activeTimers' = activeTimers \ {<<t[2], heap[t[2]].sequence>> : t \in getExpired}
    /\ callingExpiredTimers' = TRUE
    /\ cancelingTimers' = {}
    /\ batchNow' = now
    /\ pc' = "timers"
    /\ UNCHANGED <<now, pendingFunctors, batch, heap, alarm, userVars, asked, found, fired>>

Precedes(t, u) == t[1] < u[1] \/ (t[1] = u[1] /\ t[2] <= u[2])

RunTimer ==
    /\ pc = "timers"
    /\ \E t \in due :
        /\ \A u \in due : Precedes(t, u)
        /\ due' = due \ {t}
        /\ fired' = fired \cup {heap[t[2]].sequence}
    /\ pc' = "callback"
    /\ UNCHANGED <<now, polled, pendingFunctors, batch, queueVars, callingExpiredTimers,
                   expired, batchNow, userVars, cancelVars>>

CallbackReturns ==
    /\ pc = "callback"
    /\ pc' = "timers"
    /\ UNCHANGED <<now, polled, pendingFunctors, batch, queueVars, batchVars, userVars,
                   cancelVars, fired>>

\* A fault: a repeating timer is restarted whether or not it was cancelled.
restartsAlways(a) == heap[a].interval > 0

\* A fault: a timer is restarted whether or not it repeats.
restartsOneShots(a) == <<a, heap[a].sequence>> \notin cancelingTimers

\* The timers that reset() restarts; it deletes the others.
restarts(a) == heap[a].interval > 0 /\ <<a, heap[a].sequence>> \notin cancelingTimers

\* The end of reset(): set the timerfd for the earliest timer, if there is one.
rearm(ts) ==
    IF ts = {}
    THEN UNCHANGED <<alarm, readable>>
    ELSE \E t \in ts : /\ \A u \in ts : Precedes(t, u)
                       /\ resetTimerfd(t[1])

\* Timer::restart(), only called on repeating timers.
restart(timer) == [timer EXCEPT !.expiration = batchNow + timer.interval]

\* reset(): the insertions, the deletions and the timerfd.
Reset ==
    LET restarted == {t[2] : t \in {u \in expired : restarts(u[2])}}
        deleted   == {t[2] : t \in expired} \ restarted
    IN
    /\ pc = "timers"
    /\ due = {}
    /\ callingExpiredTimers' = FALSE
    /\ heap' = [a \in Addrs |->
                  IF a \in restarted THEN restart(heap[a])
                  ELSE IF a \in deleted THEN Free ELSE heap[a]]
    /\ timers' = timers \cup {<<heap'[a].expiration, a>> : a \in restarted}
    /\ activeTimers' = activeTimers \cup {<<a, heap[a].sequence>> : a \in restarted}
    /\ rearm(timers')
    /\ expired' = {}
    /\ batchNow' = 1          \* the local variable is gone
    /\ asked' = Existing(asked) /\ found' = Existing(found) /\ fired' = Existing(fired)
    /\ pc' = "events"
    /\ UNCHANGED <<now, polled, pendingFunctors, batch, due, userVars, cancelingTimers>>

\* A fault: one functor too many is taken.
oneTooMany == Len(pendingFunctors) + 1

\* doPendingFunctors() swaps the whole vector out.
swappedOut == Len(pendingFunctors)

EventsDone ==
    /\ pc = "events"
    /\ ~polled
    /\ pc' = "functors"
    /\ batch' = swappedOut
    /\ UNCHANGED <<now, polled, pendingFunctors, queueVars, batchVars, userVars, cancelVars, fired>>

RunFunctor ==
    /\ pc = "functors"
    /\ batch > 0
    /\ batch' = batch - 1
    /\ pendingFunctors' = Tail(pendingFunctors)
    /\ LET functor == Head(pendingFunctors) IN
       \/ /\ functor.op = "add"
          /\ addTimerInLoop(functor.addr, heap[functor.addr])
          /\ UNCHANGED <<heap, cancelVars, fired>>
       \/ /\ functor.op = "cancel"
          /\ cancelInLoop(functor.id, functor.of)
    /\ UNCHANGED <<now, pc, polled, batchVars, userVars>>

FunctorsDone ==
    /\ pc = "functors"
    /\ batch = 0
    /\ pc' = "poll"
    /\ UNCHANGED <<now, polled, pendingFunctors, batch, queueVars, batchVars, userVars,
                   cancelVars, fired>>

-----------------------------------------------------------------------------
LoopStep ==
    \/ HandleRead \/ RunTimer \/ CallbackReturns \/ Reset
    \/ EventsDone \/ RunFunctor \/ FunctorsDone

\* A timer is asked for the present or for later; it may have become overdue
\* when the loop thread gets to insert it.
UserCode ==
    \/ \E a \in Addrs, when \in now .. MaxTime, interval \in Intervals : AddTimer(a, when, interval)
    \/ \E s \in Sequences_ : Cancel(s)

ForeignThread ==
    \/ \E a \in Addrs, when \in now .. MaxTime, interval \in Intervals :
          ForeignAddTimer(a, when, interval)
    \/ \E sequence \in 0 .. MaxTimers : ForeignAddTimerReturns(sequence)
    \/ \E s \in Sequences_ : ForeignCancel(s)

Next == LoopStep \/ Poll \/ AlarmFires \/ ClockTicks \/ UserCode \/ ForeignThread

\* The loop thread runs, the kernel delivers an alarm that is due, and poll()
\* returns when the timerfd is readable.  The clock need not advance.
Fairness ==
    /\ WF_vars(LoopStep)
    /\ WF_vars(AlarmFires)
    /\ WF_vars(Poll /\ readable)

Spec == Init /\ [][Next]_vars /\ Fairness

-----------------------------------------------------------------------------
(* Properties.                                                             *)

\* timers_ and activeTimers_ list the same timers, each once, and every one is
\* a live object whose expiration and sequence number they repeat: what the
\* assertions of insert(), cancelInLoop() and getExpired() rely on, with
\* addresses reused and timers cancelled at any moment.
IndexesAgree ==
    /\ \A t \in timers :
        /\ heap[t[2]].expiration = t[1]
        /\ <<t[2], heap[t[2]].sequence>> \in activeTimers
    /\ \A t \in activeTimers : heap[t[1]].sequence = t[2] /\ <<heap[t[1]].expiration, t[1]>> \in timers
    /\ Cardinality(timers) = Cardinality(activeTimers)

\* The timers of the running batch stay alive and out of both sets until
\* reset(), even if callbacks cancel them or add others.
ExpiredStayAlive ==
    \A t \in expired : heap[t[2]].expiration = t[1] /\ \A u \in timers : u[2] # t[2]

\* Whenever timers are waiting, the timerfd will fire no later than the
\* earliest of them (or has fired): after any insertion, cancellation, batch
\* or late callback.  Inside a batch, reset() is still to come.
NoLostAlarm ==
    timers # {} /\ ~callingExpiredTimers /\ ~polled /\ ~readable =>
        /\ alarm # NoAlarm
        /\ \A t \in timers : alarm <= Later(t[1], now)

\* A timer cancelled by a callback of the batch it is itself part of, by its
\* own callback in particular, is not scheduled again by reset().
CancelSticks == \A t \in activeTimers : t[2] \notin found

\* A one-shot timer that has run is never scheduled again.
OneShotRunsOnce ==
    \A t \in activeTimers : t[2] \in fired => heap[t[1]].interval > 0

\* A waiting timer whose time has come is taken out and run, or cancelled.
DueTimerRuns ==
    \A a \in Addrs :
        (\E t \in getExpired : t[2] = a) ~> ~\E t \in getExpired : t[2] = a

\* cancel() "cancels the timer": once a cancelInLoop() for the TimerId that
\* addTimer() returned has been executed, the timer is not scheduled.
CancelTakesEffect == \A t \in activeTimers : t[2] \notin asked
=============================================================================
