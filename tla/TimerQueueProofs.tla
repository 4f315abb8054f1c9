-------------------------- MODULE TimerQueueProofs --------------------------
(***************************************************************************)
(* Proofs about TimerQueue for any addresses, intervals, number of timers  *)
(* and length of the functor queue.                                        *)
(***************************************************************************)
EXTENDS TimerQueue, Integers, FiniteSetTheorems, SequenceTheorems, TLAPS

-----------------------------------------------------------------------------
(* The inductive invariant.  A Timer that exists is owned by exactly one   *)
(* of timers_ and activeTimers_ together, the running batch, and an        *)
(* addTimerInLoop() that is still queued; nobody else may delete it.       *)

\* The addTimerInLoop() calls in the queue, by position.
QueuedAdds == {i \in 1 .. Len(pendingFunctors) : pendingFunctors[i].op = "add"}

\* What timers_ lists is alive and also in activeTimers_, and conversely.
WaitingTimers ==
    /\ \A t \in timers :
        /\ heap[t[2]] # Free /\ heap[t[2]].expiration = t[1]
        /\ <<t[2], heap[t[2]].sequence>> \in activeTimers
    /\ \A t \in activeTimers :
        heap[t[1]].sequence = t[2] /\ <<heap[t[1]].expiration, t[1]>> \in timers

\* The timers of the batch are alive and in neither set.
BatchTimers ==
    \A t \in expired :
        /\ heap[t[2]] # Free /\ heap[t[2]].expiration = t[1]
        /\ \A u \in timers : u[2] # t[2]

\* A timer that is still to be inserted is alive, in neither set and not in
\* the batch, and is inserted once.
QueuedTimers ==
    \A i \in QueuedAdds :
        /\ heap[pendingFunctors[i].addr] # Free
        /\ \A u \in timers \cup expired : u[2] # pendingFunctors[i].addr
        /\ \A j \in QueuedAdds : pendingFunctors[i].addr = pendingFunctors[j].addr => i = j

\* Sequence numbers are given once, in order.
Numbered ==
    /\ \A a \in Addrs : heap[a].sequence <= numCreated
    /\ \A a, b \in Addrs : heap[a].sequence = heap[b].sequence /\ heap[a] # Free => a = b

\* A batch is run inside handleRead() only.
Phases ==
    /\ callingExpiredTimers <=> pc \in {"timers", "callback"}
    /\ expired # {} => callingExpiredTimers
    /\ polled => pc = "events"

OwnInv == TypeOK /\ WaitingTimers /\ BatchTimers /\ QueuedTimers /\ Numbered /\ Phases

\* The histories name timers that were created, none of them still to be
\* inserted, and reset() will find what was cancelled inside the batch.
HistoryInv ==
    /\ \A s \in found \cup fired : s <= numCreated
    /\ \A i \in QueuedAdds : heap[pendingFunctors[i].addr].sequence \notin found \cup fired
    /\ \A t \in expired : heap[t[2]].sequence \in found
                            => <<t[2], heap[t[2]].sequence>> \in cancelingTimers
    /\ CancelSticks
    /\ OneShotRunsOnce

\* The Timer object at each address: free, or with a number and a time.
LEMMA HeapFacts ==
    ASSUME TypeOK, NEW a \in Addrs
    PROVE  /\ heap[a].sequence \in 0 .. MaxTimers /\ heap[a].sequence \in Nat
           /\ heap[a].interval \in Nat /\ heap[a].expiration \in Nat
           /\ heap[a] # Free <=> heap[a].sequence \in Sequences_
           /\ heap[a] = Free <=> heap[a].sequence = 0
           /\ heap[a] # Free => /\ heap[a].expiration \in Expirations
                                /\ heap[a].interval \in Intervals
<1>1. CASE heap[a] = Free
  BY <1>1, BoundsAssumption DEF Free, Sequences_
<1>2. CASE heap[a] \in [sequence : Sequences_, expiration : Expirations, interval : Intervals]
  <2>1. /\ heap[a].sequence \in Sequences_ /\ heap[a].expiration \in Expirations
        /\ heap[a].interval \in Intervals
    BY <1>2
  <2>2. heap[a].sequence \in Nat \ {0} /\ heap[a].sequence \in 0 .. MaxTimers
    BY <2>1, BoundsAssumption DEF Sequences_
  <2>3. heap[a] # Free
    BY <2>2 DEF Free
  <2> QED BY <2>1, <2>2, <2>3, BoundsAssumption DEF Expirations
<1> QED BY <1>1, <1>2 DEF TypeOK

\* The actions that neither create, move nor delete a timer.
LEMMA OwnInvQuiet ==
    ASSUME OwnInv,
           \/ AlarmFires \/ ClockTicks \/ Poll \/ CallbackReturns \/ EventsDone
           \/ FunctorsDone \/ UNCHANGED vars
           \/ \E sequence \in 0 .. MaxTimers : ForeignAddTimerReturns(sequence)
    PROVE  OwnInv'
<1> USE BoundsAssumption, AddrsAssumption
<1>1. UNCHANGED <<heap, numCreated, timers, activeTimers, cancelingTimers, callingExpiredTimers,
                  expired, due, batchNow, pendingFunctors, asked, found, fired>>
  BY DEF AlarmFires, ClockTicks, Poll, CallbackReturns, EventsDone, FunctorsDone,
         ForeignAddTimerReturns, vars, loopVars, queueVars, batchVars, userVars, cancelVars
<1>2. (WaitingTimers /\ BatchTimers /\ QueuedTimers /\ Numbered)'
  BY <1>1 DEF OwnInv, WaitingTimers, BatchTimers, QueuedTimers, Numbered, QueuedAdds
<1>3. now' \in Times
  BY DEF AlarmFires, ClockTicks, Poll, CallbackReturns, EventsDone, FunctorsDone,
         ForeignAddTimerReturns, vars, loopVars, Times, OwnInv, TypeOK
<1>4. batch' \in 0 .. Len(pendingFunctors')
  BY LenProperties
     DEF AlarmFires, ClockTicks, Poll, CallbackReturns, EventsDone, FunctorsDone,
         ForeignAddTimerReturns, vars, loopVars, OwnInv, TypeOK, swappedOut
<1>5. adding' \in {NoId} \cup (Addrs \X Sequences_) /\ idOf' \in [Sequences_ -> Ids]
  <2>1. CASE UNCHANGED <<adding, idOf>>
    BY <2>1 DEF OwnInv, TypeOK
  <2>2. ASSUME NEW sequence \in 0 .. MaxTimers, ForeignAddTimerReturns(sequence)
        PROVE  adding' = NoId /\ idOf' \in [Sequences_ -> Ids]
    <3>1. adding \in Addrs \X Sequences_
      BY <2>2 DEF ForeignAddTimerReturns, OwnInv, TypeOK
    <3>2. <<adding[1], sequence>> \in Ids
      BY <3>1 DEF Ids
    <3> QED BY <2>2, <3>2 DEF ForeignAddTimerReturns, OwnInv, TypeOK
  <2> QED BY <2>1, <2>2
          DEF AlarmFires, ClockTicks, Poll, CallbackReturns, EventsDone, FunctorsDone,
              vars, loopVars, queueVars, batchVars, userVars
<1>6. alarm' \in {NoAlarm} \cup Expirations
  <2>1. alarm' = alarm \/ alarm' = NoAlarm
    BY DEF AlarmFires, ClockTicks, Poll, CallbackReturns, EventsDone, FunctorsDone,
           ForeignAddTimerReturns, vars, loopVars, queueVars
  <2> QED BY <2>1 DEF OwnInv, TypeOK
<1>7. /\ readable' \in BOOLEAN /\ polled' \in BOOLEAN
      /\ pc' \in {"poll", "events", "timers", "callback", "functors"}
      /\ pc' \in {"timers", "callback"} <=> pc \in {"timers", "callback"}
      /\ polled' => pc' = "events"
  <2> USE DEF OwnInv, TypeOK, Phases
  <2>1. CASE AlarmFires
    BY <2>1, Zenon DEF AlarmFires, loopVars
  <2>2. CASE ClockTicks \/ CallbackReturns \/ EventsDone \/ FunctorsDone
    BY <2>2 DEF ClockTicks, CallbackReturns, EventsDone, FunctorsDone, loopVars, queueVars
  <2>3. CASE Poll
    BY <2>3 DEF Poll, queueVars
  <2>4. CASE UNCHANGED <<loopVars, queueVars>>
    BY <2>4 DEF loopVars, queueVars
  <2> QED BY <2>1, <2>2, <2>3, <2>4 DEF vars, ForeignAddTimerReturns
<1>8. Phases'
  BY <1>1, <1>7 DEF OwnInv, Phases
<1>9. TypeOK'
  BY <1>1, <1>3, <1>4, <1>5, <1>6, <1>7, Zenon DEF OwnInv, TypeOK
<1> QED BY <1>2, <1>8, <1>9 DEF OwnInv

\* At the start there is no timer.
LEMMA OwnInvInit == ASSUME Init PROVE OwnInv
<1> USE BoundsAssumption, AddrsAssumption
<1>1. TypeOK
  <2>1. pendingFunctors \in Seq(Functor) /\ batch \in 0 .. Len(pendingFunctors)
    BY EmptySeq DEF Init
  <2>2. /\ now \in Times /\ batchNow \in Times /\ numCreated \in 0 .. MaxTimers
        /\ heap \in [Addrs -> {Free} \cup [sequence : Sequences_, expiration : Expirations,
                                           interval : Intervals]]
    BY DEF Init, Times
  <2>3. idOf \in [Sequences_ -> Ids]
    BY DEF Init, Ids
  <2> QED BY <2>1, <2>2, <2>3, Zenon DEF Init, TypeOK
<1>2. QueuedAdds = {}
  BY EmptySeq DEF Init, QueuedAdds
<1>3. WaitingTimers /\ BatchTimers /\ QueuedTimers /\ Phases
  BY <1>2 DEF Init, WaitingTimers, BatchTimers, QueuedTimers, Phases
<1>4. Numbered
  BY DEF Init, Numbered, Free
<1> QED BY <1>1, <1>3, <1>4 DEF OwnInv

-----------------------------------------------------------------------------
(* insert() and cancelInLoop(), whoever calls them.                        *)

TimerObjects == [sequence : Sequences_, expiration : Expirations, interval : Intervals]

\* insert() of a timer that nobody else owns.
LEMMA InsertTimer ==
    ASSUME OwnInv, NEW a \in Addrs, NEW timer \in TimerObjects,
           heap' = [heap EXCEPT ![a] = timer], addTimerInLoop(a, timer),
           \A u \in timers \cup expired : u[2] # a,
           expired' = expired
    PROVE  /\ heap' \in [Addrs -> {Free} \cup TimerObjects]
           /\ timers' \subseteq Expirations \X Addrs
           /\ activeTimers' \subseteq Addrs \X Sequences_
           /\ alarm' \in {NoAlarm} \cup Expirations /\ readable' \in BOOLEAN
           /\ WaitingTimers' /\ BatchTimers'
<1> USE DEF OwnInv
<1>1. heap' \in [Addrs -> {Free} \cup TimerObjects] /\ heap \in [Addrs -> {Free} \cup TimerObjects]
  BY DEF TypeOK, TimerObjects
<1>2. timer.sequence \in Sequences_ /\ timer.expiration \in Expirations
  BY DEF TimerObjects
<1>3. timers \subseteq Expirations \X Addrs /\ activeTimers \subseteq Addrs \X Sequences_
      /\ expired \subseteq Expirations \X Addrs
  BY DEF TypeOK
<1>4. /\ timers' = timers \cup {<<timer.expiration, a>>}
      /\ activeTimers' = activeTimers \cup {<<a, timer.sequence>>}
  BY DEF addTimerInLoop
<1>5. timers' \subseteq Expirations \X Addrs /\ activeTimers' \subseteq Addrs \X Sequences_
  BY <1>2, <1>3, <1>4
<1>6. alarm' \in {NoAlarm} \cup Expirations /\ readable' \in BOOLEAN
  <2>1. Later(timer.expiration, now) \in Expirations
    BY <1>2, BoundsAssumption DEF Later, TypeOK, Expirations, Times
  <2>2. CASE alarm' = alarm /\ readable' = readable
    BY <2>2, Zenon DEF TypeOK
  <2>3. CASE resetTimerfd(timer.expiration)
    BY <2>1, <2>3 DEF resetTimerfd, Deadline
  <2> QED BY <2>2, <2>3 DEF addTimerInLoop
<1>7. heap'[a] = timer /\ timer # Free /\ \A b \in Addrs : b # a => heap'[b] = heap[b]
  <2>1. timer.sequence # Free.sequence
    BY <1>2, BoundsAssumption DEF Free, Sequences_
  <2> QED BY <1>1, <2>1
<1>8. \A t \in activeTimers : t[1] # a
  <2> SUFFICES ASSUME NEW t \in activeTimers PROVE t[1] # a
    OBVIOUS
  <2>1. <<heap[t[1]].expiration, t[1]>> \in timers
    BY DEF WaitingTimers
  <2>2. <<heap[t[1]].expiration, t[1]>>[2] # a
    BY <2>1
  <2> QED BY <2>2
<1>9. WaitingTimers'
  <2>1. ASSUME NEW t \in timers'
        PROVE  /\ heap'[t[2]] # Free /\ heap'[t[2]].expiration = t[1]
               /\ <<t[2], heap'[t[2]].sequence>> \in activeTimers'
    BY <1>3, <1>4, <1>7, <2>1 DEF WaitingTimers
  <2>2. ASSUME NEW t \in activeTimers'
        PROVE  heap'[t[1]].sequence = t[2] /\ <<heap'[t[1]].expiration, t[1]>> \in timers'
    BY <1>3, <1>4, <1>7, <1>8, <2>2 DEF WaitingTimers
  <2> QED BY <2>1, <2>2 DEF WaitingTimers
<1>10. BatchTimers'
  BY <1>3, <1>4, <1>7 DEF BatchTimers
<1> QED BY <1>1, <1>5, <1>6, <1>9, <1>10

\* cancelInLoop() deletes a timer that waits in both sets, or nothing.
LEMMA CancelTimer ==
    ASSUME OwnInv, NEW id \in Ids, NEW of \in Sequences_, cancelInLoop(id, of),
           expired' = expired, numCreated' = numCreated
    PROVE  /\ heap' \in [Addrs -> {Free} \cup TimerObjects]
           /\ timers' \subseteq timers /\ activeTimers' \subseteq activeTimers
           /\ cancelingTimers' \subseteq Ids
           /\ asked' \subseteq Sequences_ /\ found' \subseteq Sequences_ /\ fired' \subseteq Sequences_
           /\ \A b \in Addrs : heap'[b] = heap[b]
                               \/ (heap'[b] = Free /\ \E t \in timers : t[2] = b)
           /\ WaitingTimers' /\ BatchTimers' /\ Numbered'
<1> USE DEF OwnInv
<1>1. /\ heap \in [Addrs -> {Free} \cup TimerObjects]
      /\ timers \subseteq Expirations \X Addrs /\ activeTimers \subseteq Addrs \X Sequences_
      /\ expired \subseteq Expirations \X Addrs
  BY DEF TypeOK, TimerObjects
<1>2. heap' \in [Addrs -> {Free} \cup TimerObjects]
  BY <1>1 DEF cancelInLoop
<1>3. /\ timers' \subseteq timers /\ activeTimers' \subseteq activeTimers
      /\ cancelingTimers' \subseteq Ids
  BY DEF cancelInLoop, TypeOK
<1>4. asked' \subseteq Sequences_ /\ fired' \subseteq Sequences_
  BY DEF cancelInLoop, Existing, TypeOK
<1>5. found' \subseteq Sequences_
  <2>1. ASSUME \E t \in expired : id = <<t[2], heap[t[2]].sequence>>
        PROVE  id[2] \in Sequences_
    <3>1. PICK t \in expired : id = <<t[2], heap[t[2]].sequence>>
      BY <2>1
    <3>2. t[2] \in Addrs /\ heap[t[2]] # Free
      BY <1>1 DEF BatchTimers
    <3> QED BY <3>1, <3>2, HeapFacts
  <2> QED BY <2>1 DEF cancelInLoop, Existing, TypeOK
<1>6. CASE ~isActive(id)
  <2>1. heap' = heap /\ timers' = timers /\ activeTimers' = activeTimers
    BY <1>1, <1>6 DEF cancelInLoop, deletedByCancel, isActive
  <2> QED BY <1>2, <1>3, <1>4, <1>5, <2>1 DEF WaitingTimers, BatchTimers, Numbered
<1>7. CASE isActive(id)
  <2>1. id \in activeTimers /\ id[1] \in Addrs /\ id[2] \in Sequences_ /\ id = <<id[1], id[2]>>
    BY <1>1, <1>7 DEF isActive
  <2>2. /\ heap'[id[1]] = Free /\ \A b \in Addrs : b # id[1] => heap'[b] = heap[b]
        /\ timers' = {t \in timers : t[2] # id[1]}
        /\ activeTimers' = activeTimers \ {id}
    BY <1>1, <1>7, <2>1 DEF cancelInLoop, deletedByCancel
  <2>3. heap[id[1]].sequence = id[2] /\ <<heap[id[1]].expiration, id[1]>> \in timers
    BY <2>1 DEF WaitingTimers
  <2>4. \A t \in activeTimers' : t[1] # id[1]
    BY <1>1, <2>1, <2>2, <2>3 DEF WaitingTimers
  <2>5. WaitingTimers'
    BY <1>1, <2>2, <2>4 DEF WaitingTimers
  <2>6. BatchTimers'
    BY <1>1, <2>2, <2>3 DEF BatchTimers
  <2>7. Numbered'
    <3>1. Free.sequence = 0
      BY DEF Free
    <3>2. numCreated \in Nat /\ \A b \in Addrs : heap[b].sequence \in Nat /\ (heap[b] = Free <=> heap[b].sequence = 0)
      BY HeapFacts DEF TypeOK
    <3> QED BY <2>1, <2>2, <3>1, <3>2 DEF Numbered
  <2>8. \A b \in Addrs : heap'[b] = heap[b] \/ (heap'[b] = Free /\ \E t \in timers : t[2] = b)
    BY <2>2, <2>3
  <2> QED BY <1>2, <1>3, <1>4, <1>5, <2>5, <2>6, <2>7, <2>8
<1> QED BY <1>6, <1>7

-----------------------------------------------------------------------------
(* The actions that create, move or delete timers.                         *)

\* new Timer gets the next number and an address that is free.
LEMMA CreateTimer ==
    ASSUME OwnInv, NEW a \in Addrs, heap[a] = Free, numCreated < MaxTimers,
           NEW when \in now .. MaxTime, NEW interval \in Intervals,
           heap' = [heap EXCEPT ![a] = NewTimer(when, interval)],
           numCreated' = numCreated + 1
    PROVE  /\ NewTimer(when, interval) \in TimerObjects
           /\ NewTimer(when, interval).sequence = numCreated + 1
           /\ numCreated + 1 \in Sequences_ /\ numCreated' \in 0 .. MaxTimers
           /\ heap' \in [Addrs -> {Free} \cup TimerObjects]
           /\ heap'[a] # Free
           /\ \A b \in Addrs : b # a => heap'[b] = heap[b]
           /\ \A u \in timers \cup expired : u[2] # a
           /\ \A i \in QueuedAdds : pendingFunctors[i].addr # a
           /\ Numbered'
<1> USE BoundsAssumption DEF OwnInv
<1> DEFINE timer == NewTimer(when, interval)
<1>1. numCreated \in Nat /\ numCreated + 1 \in Sequences_ /\ numCreated' \in 0 .. MaxTimers
  BY DEF TypeOK, Sequences_
<1>2. timer \in TimerObjects /\ timer.sequence = numCreated + 1
  <2>1. when \in Expirations
    BY DEF TypeOK, Times, Expirations
  <2> QED BY <1>1, <2>1 DEF NewTimer, TimerObjects
<1>3. timer # Free
  <2>1. timer.sequence # Free.sequence
    BY <1>1, <1>2 DEF Free
  <2> QED BY <2>1
<1> HIDE DEF timer
<1>4. heap \in [Addrs -> {Free} \cup TimerObjects]
  BY DEF TypeOK, TimerObjects
<1>5. /\ heap' \in [Addrs -> {Free} \cup TimerObjects] /\ heap'[a] = timer
      /\ \A b \in Addrs : b # a => heap'[b] = heap[b]
  BY <1>2, <1>4 DEF timer
<1>6. \A u \in timers \cup expired : u[2] # a
  BY DEF WaitingTimers, BatchTimers
<1>7. \A i \in QueuedAdds : pendingFunctors[i].addr # a
  BY DEF QueuedTimers
<1>8. Numbered'
  <2>1. \A b \in Addrs : heap[b].sequence \in Nat /\ heap[b].sequence <= numCreated
    BY HeapFacts DEF Numbered
  <2>2. \A b \in Addrs : heap'[b].sequence <= numCreated'
    BY <1>1, <1>2, <1>5, <2>1
  <2>3. ASSUME NEW b \in Addrs, NEW c \in Addrs, heap'[b].sequence = heap'[c].sequence,
               heap'[b] # Free
        PROVE  b = c
    <3>1. CASE b = a
      BY <1>1, <1>2, <1>5, <2>1, <2>3, <3>1
    <3>2. CASE b # a /\ c # a
      BY <1>5, <2>3, <3>2 DEF Numbered
    <3>3. CASE b # a /\ c = a
      BY <1>1, <1>2, <1>5, <2>1, <2>3, <3>3
    <3> QED BY <3>1, <3>2, <3>3
  <2> QED BY <2>2, <2>3 DEF Numbered
<1> QED BY <1>1, <1>2, <1>3, <1>5, <1>6, <1>7, <1>8 DEF timer

\* addTimer() in the loop thread.
LEMMA OwnInvAddTimer ==
    ASSUME OwnInv, NEW a \in Addrs, NEW when \in now .. MaxTime, NEW interval \in Intervals,
           AddTimer(a, when, interval)
    PROVE  OwnInv'
<1> DEFINE timer == NewTimer(when, interval)
<1>1. /\ heap[a] = Free /\ numCreated < MaxTimers
      /\ heap' = [heap EXCEPT ![a] = timer] /\ addTimerInLoop(a, timer)
      /\ idOf' = [idOf EXCEPT ![timer.sequence] = <<a, timer.sequence>>]
      /\ numCreated' = numCreated + 1
  BY DEF AddTimer, NewTimer
<1>2. UNCHANGED <<now, pc, polled, pendingFunctors, batch, callingExpiredTimers, expired, due,
                  batchNow, adding, cancelingTimers, asked, found, fired>>
  BY DEF AddTimer, loopVars, batchVars, cancelVars
<1>3. /\ timer \in TimerObjects /\ timer.sequence = numCreated + 1
      /\ numCreated + 1 \in Sequences_ /\ numCreated' \in 0 .. MaxTimers
      /\ heap'[a] # Free /\ Numbered'
      /\ \A b \in Addrs : b # a => heap'[b] = heap[b]
      /\ \A u \in timers \cup expired : u[2] # a
      /\ \A i \in QueuedAdds : pendingFunctors[i].addr # a
  BY <1>1, CreateTimer, Zenon
<1> HIDE DEF timer
<1>4. /\ heap' \in [Addrs -> {Free} \cup TimerObjects]
      /\ timers' \subseteq Expirations \X Addrs /\ activeTimers' \subseteq Addrs \X Sequences_
      /\ alarm' \in {NoAlarm} \cup Expirations /\ readable' \in BOOLEAN
      /\ WaitingTimers' /\ BatchTimers'
  BY <1>1, <1>2, <1>3, InsertTimer, Zenon
<1>5. timers' = timers \cup {<<timer.expiration, a>>}
  BY <1>1 DEF addTimerInLoop
<1>6. QueuedTimers'
  <2>1. QueuedAdds' = QueuedAdds
    BY <1>2 DEF QueuedAdds
  <2>2. \A i \in QueuedAdds : pendingFunctors[i].addr \in Addrs
    BY DEF QueuedAdds, OwnInv, TypeOK, Functor
  <2> QED BY <1>2, <1>3, <1>5, <2>1, <2>2 DEF OwnInv, QueuedTimers
<1>7. idOf' \in [Sequences_ -> Ids]
  <2>1. <<a, timer.sequence>> \in Ids
    BY <1>3, BoundsAssumption DEF Ids, Sequences_
  <2> QED BY <1>1, <1>3, <2>1 DEF OwnInv, TypeOK
<1>8. TypeOK'
  BY <1>2, <1>3, <1>4, <1>7, Zenon DEF OwnInv, TypeOK, TimerObjects
<1>9. Phases'
  BY <1>2 DEF OwnInv, Phases
<1> QED BY <1>3, <1>4, <1>6, <1>8, <1>9 DEF OwnInv

\* cancel() in the loop thread.
LEMMA OwnInvCancel ==
    ASSUME OwnInv, NEW s \in Sequences_, Cancel(s)
    PROVE  OwnInv'
<1>1. idOf[s] \in Ids /\ cancelInLoop(idOf[s], s)
  BY DEF Cancel, OwnInv, TypeOK
<1>2. UNCHANGED <<now, pc, polled, pendingFunctors, batch, callingExpiredTimers, expired, due,
                  batchNow, adding, idOf, numCreated, alarm, readable>>
  BY DEF Cancel, cancelInLoop, loopVars, batchVars, userVars
<1>3. /\ heap' \in [Addrs -> {Free} \cup TimerObjects]
      /\ timers' \subseteq timers /\ activeTimers' \subseteq activeTimers
      /\ cancelingTimers' \subseteq Ids
      /\ asked' \subseteq Sequences_ /\ found' \subseteq Sequences_ /\ fired' \subseteq Sequences_
      /\ \A b \in Addrs : heap'[b] = heap[b]
                          \/ (heap'[b] = Free /\ \E t \in timers : t[2] = b)
      /\ WaitingTimers' /\ BatchTimers' /\ Numbered'
  BY <1>1, <1>2, CancelTimer, Zenon
<1>4. QueuedTimers'
  <2>1. QueuedAdds' = QueuedAdds
    BY <1>2 DEF QueuedAdds
  <2>2. \A i \in QueuedAdds : pendingFunctors[i].addr \in Addrs
    BY DEF QueuedAdds, OwnInv, TypeOK, Functor
  <2> QED BY <1>2, <1>3, <2>1, <2>2 DEF OwnInv, QueuedTimers
<1>5. timers' \subseteq Expirations \X Addrs /\ activeTimers' \subseteq Addrs \X Sequences_
  BY <1>3 DEF OwnInv, TypeOK
<1>6. TypeOK'
  BY <1>2, <1>3, <1>5, Zenon DEF OwnInv, TypeOK, TimerObjects
<1>7. Phases'
  BY <1>2 DEF OwnInv, Phases
<1> QED BY <1>3, <1>4, <1>6, <1>7 DEF OwnInv

\* A functor that is queued comes last, one that is run first.
LEMMA QueueFacts ==
    ASSUME OwnInv
    PROVE  /\ Len(pendingFunctors) \in Nat
           /\ \A i \in 1 .. Len(pendingFunctors) : pendingFunctors[i] \in Functor
           /\ \A i \in QueuedAdds : pendingFunctors[i].addr \in Addrs
           /\ \A f \in Functor :
                /\ Append(pendingFunctors, f) \in Seq(Functor)
                /\ Len(Append(pendingFunctors, f)) = Len(pendingFunctors) + 1
                /\ Append(pendingFunctors, f)[Len(pendingFunctors) + 1] = f
                /\ \A i \in 1 .. Len(pendingFunctors) :
                      Append(pendingFunctors, f)[i] = pendingFunctors[i]
           /\ batch > 0 =>
                /\ Len(pendingFunctors) > 0
                /\ Head(pendingFunctors) = pendingFunctors[1]
                /\ Tail(pendingFunctors) \in Seq(Functor)
                /\ Len(Tail(pendingFunctors)) = Len(pendingFunctors) - 1
                /\ \A i \in 1 .. Len(pendingFunctors) - 1 :
                      Tail(pendingFunctors)[i] = pendingFunctors[i + 1]
                /\ batch - 1 \in 0 .. Len(Tail(pendingFunctors))
<1>1. pendingFunctors \in Seq(Functor) /\ batch \in 0 .. Len(pendingFunctors)
  BY DEF OwnInv, TypeOK
<1>2. Len(pendingFunctors) \in Nat
      /\ \A i \in 1 .. Len(pendingFunctors) : pendingFunctors[i] \in Functor
  BY <1>1, LenProperties
<1>3. \A i \in QueuedAdds : pendingFunctors[i].addr \in Addrs
  BY <1>2 DEF QueuedAdds, Functor
<1>4. \A f \in Functor :
        /\ Append(pendingFunctors, f) \in Seq(Functor)
        /\ Len(Append(pendingFunctors, f)) = Len(pendingFunctors) + 1
        /\ Append(pendingFunctors, f)[Len(pendingFunctors) + 1] = f
        /\ \A i \in 1 .. Len(pendingFunctors) : Append(pendingFunctors, f)[i] = pendingFunctors[i]
  BY <1>1, AppendProperties
<1>5. batch > 0 => pendingFunctors # <<>> /\ Len(pendingFunctors) > 0
  BY <1>1, <1>2, EmptySeq
<1>6. batch > 0 => /\ Head(pendingFunctors) = pendingFunctors[1]
                   /\ Tail(pendingFunctors) \in Seq(Functor)
                   /\ Len(Tail(pendingFunctors)) = Len(pendingFunctors) - 1
                   /\ \A i \in 1 .. Len(pendingFunctors) - 1 :
                         Tail(pendingFunctors)[i] = pendingFunctors[i + 1]
  BY <1>1, <1>2, <1>5, HeadTailProperties
<1>7. batch > 0 => batch - 1 \in 0 .. Len(Tail(pendingFunctors))
  BY <1>1, <1>2, <1>6
<1> QED BY <1>2, <1>3, <1>4, <1>5, <1>6, <1>7

\* addTimer() by the foreign thread.
LEMMA OwnInvForeignAddTimer ==
    ASSUME OwnInv, NEW a \in Addrs, NEW when \in now .. MaxTime, NEW interval \in Intervals,
           ForeignAddTimer(a, when, interval)
    PROVE  OwnInv'
<1> DEFINE timer == NewTimer(when, interval)
<1> DEFINE f == [op |-> "add", addr |-> a]
<1>1. /\ heap[a] = Free /\ numCreated < MaxTimers
      /\ heap' = [heap EXCEPT ![a] = timer] /\ numCreated' = numCreated + 1
      /\ pendingFunctors' = Append(pendingFunctors, f)
      /\ adding' = <<a, timer.sequence>>
  BY DEF ForeignAddTimer, NewTimer
<1>2. UNCHANGED <<now, pc, polled, batch, callingExpiredTimers, expired, due, batchNow, idOf,
                  timers, activeTimers, alarm, readable, cancelingTimers, asked, found, fired>>
  BY DEF ForeignAddTimer, batchVars, cancelVars
<1>3. /\ timer \in TimerObjects /\ timer.sequence = numCreated + 1
      /\ numCreated + 1 \in Sequences_ /\ numCreated' \in 0 .. MaxTimers
      /\ heap' \in [Addrs -> {Free} \cup TimerObjects]
      /\ heap'[a] # Free /\ Numbered'
      /\ \A b \in Addrs : b # a => heap'[b] = heap[b]
      /\ \A u \in timers \cup expired : u[2] # a
      /\ \A i \in QueuedAdds : pendingFunctors[i].addr # a
  BY <1>1, CreateTimer, Zenon
<1>4. /\ timers \subseteq Expirations \X Addrs /\ activeTimers \subseteq Addrs \X Sequences_
      /\ expired \subseteq Expirations \X Addrs
  BY DEF OwnInv, TypeOK
<1>5. \A t \in activeTimers : t[1] # a
  <2> SUFFICES ASSUME NEW t \in activeTimers PROVE t[1] # a
    OBVIOUS
  <2>1. <<heap[t[1]].expiration, t[1]>> \in timers
    BY DEF OwnInv, WaitingTimers
  <2>2. <<heap[t[1]].expiration, t[1]>>[2] # a
    BY <1>3, <2>1
  <2> QED BY <2>2
<1>6. WaitingTimers'
  BY <1>2, <1>3, <1>4, <1>5 DEF OwnInv, WaitingTimers
<1>7. BatchTimers'
  BY <1>2, <1>3, <1>4 DEF OwnInv, BatchTimers
<1>8. f \in Functor /\ f.op = "add" /\ f.addr = a
  BY DEF Functor
<1> HIDE DEF timer, f
<1>9. QueuedTimers'
  <2>1. \A i \in QueuedAdds' : \/ i \in QueuedAdds /\ pendingFunctors'[i] = pendingFunctors[i]
                                  /\ pendingFunctors[i].addr \in Addrs
                               \/ i = Len(pendingFunctors) + 1 /\ pendingFunctors'[i] = f
    BY <1>1, <1>8, QueueFacts DEF QueuedAdds
  <2> QED BY <1>2, <1>3, <1>8, <2>1 DEF OwnInv, QueuedTimers
<1>10. pendingFunctors' \in Seq(Functor) /\ batch' \in 0 .. Len(pendingFunctors')
  BY <1>1, <1>2, <1>8, QueueFacts DEF OwnInv, TypeOK
<1>11. TypeOK'
  <2>1. adding' \in Addrs \X Sequences_
    BY <1>1, <1>3
  <2> QED BY <1>2, <1>3, <1>10, <2>1, Zenon DEF OwnInv, TypeOK, TimerObjects
<1>12. Phases'
  BY <1>2 DEF OwnInv, Phases
<1> QED BY <1>3, <1>6, <1>7, <1>9, <1>11, <1>12 DEF OwnInv

\* cancel() by the foreign thread.
LEMMA OwnInvForeignCancel ==
    ASSUME OwnInv, NEW s \in Sequences_, ForeignCancel(s)
    PROVE  OwnInv'
<1> DEFINE f == [op |-> "cancel", id |-> idOf[s], of |-> s]
<1>1. pendingFunctors' = Append(pendingFunctors, f)
  BY DEF ForeignCancel
<1>2. UNCHANGED <<now, pc, polled, batch, heap, timers, activeTimers, alarm, readable,
                  callingExpiredTimers, expired, due, batchNow, numCreated, adding, idOf,
                  cancelingTimers, asked, found, fired>>
  BY DEF ForeignCancel, queueVars, batchVars, userVars, cancelVars
<1>3. f \in Functor /\ f.op = "cancel"
  BY DEF Functor, OwnInv, TypeOK
<1> HIDE DEF f
<1>4. QueuedTimers'
  <2>1. \A i \in QueuedAdds' : i \in QueuedAdds /\ pendingFunctors'[i] = pendingFunctors[i]
    BY <1>1, <1>3, QueueFacts DEF QueuedAdds
  <2> QED BY <1>2, <2>1 DEF OwnInv, QueuedTimers
<1>5. pendingFunctors' \in Seq(Functor) /\ batch' \in 0 .. Len(pendingFunctors')
  BY <1>1, <1>2, <1>3, QueueFacts DEF OwnInv, TypeOK
<1>6. TypeOK'
  BY <1>2, <1>5, Zenon DEF OwnInv, TypeOK
<1>7. WaitingTimers' /\ BatchTimers' /\ Numbered' /\ Phases'
  BY <1>2 DEF OwnInv, WaitingTimers, BatchTimers, Numbered, Phases
<1> QED BY <1>4, <1>6, <1>7 DEF OwnInv

\* handleRead() moves what has expired from the sets to the batch.
LEMMA OwnInvHandleRead == ASSUME OwnInv, HandleRead PROVE OwnInv'
<1>1. UNCHANGED <<now, pendingFunctors, batch, heap, alarm, numCreated, adding, idOf, asked,
                  found, fired>>
  BY DEF HandleRead, userVars
<1>2. /\ polled' = FALSE /\ readable' = FALSE /\ callingExpiredTimers' = TRUE
      /\ cancelingTimers' = {} /\ batchNow' = now /\ pc' = "timers"
  BY DEF HandleRead
<1>3. /\ expired' = getExpired /\ due' = getExpired /\ timers' = timers \ getExpired
      /\ activeTimers' = activeTimers \ {<<t[2], heap[t[2]].sequence>> : t \in getExpired}
      /\ getExpired \subseteq timers
  BY DEF HandleRead, getExpired
<1>4. timers \subseteq Expirations \X Addrs /\ activeTimers \subseteq Addrs \X Sequences_
  BY DEF OwnInv, TypeOK
<1> DEFINE same == \A t, u \in timers : t[2] = u[2] => t = u
<1>5. same
  <2> SUFFICES ASSUME NEW t \in timers, NEW u \in timers, t[2] = u[2] PROVE t = u
    OBVIOUS
  <2>1. t = <<t[1], t[2]>> /\ u = <<u[1], u[2]>>
    BY <1>4
  <2>2. t[1] = heap[t[2]].expiration /\ u[1] = heap[u[2]].expiration
    BY DEF OwnInv, WaitingTimers
  <2> QED BY <2>1, <2>2
<1>6. WaitingTimers'
  <2>1. ASSUME NEW t \in timers'
        PROVE  <<t[2], heap[t[2]].sequence>> \in activeTimers'
    <3>1. t \in timers /\ t \notin getExpired /\ t = <<t[1], t[2]>>
      BY <1>3, <1>4
    <3>2. \A u \in getExpired : u[2] # t[2]
      BY <1>3, <1>5, <3>1
    <3> QED BY <1>3, <3>1, <3>2 DEF OwnInv, WaitingTimers
  <2>2. ASSUME NEW t \in activeTimers'
        PROVE  <<heap[t[1]].expiration, t[1]>> \in timers'
    <3>1. t \in activeTimers /\ t = <<t[1], t[2]>> /\ heap[t[1]].sequence = t[2]
      <4>1. t \in activeTimers
        BY <1>3
      <4>2. t = <<t[1], t[2]>>
        BY <1>4, <4>1
      <4> QED BY <4>1, <4>2 DEF OwnInv, WaitingTimers
    <3>2. ASSUME <<heap[t[1]].expiration, t[1]>> \in getExpired
          PROVE  FALSE
      <4> DEFINE u == <<heap[t[1]].expiration, t[1]>>
      <4>1. u \in getExpired /\ t = <<u[2], heap[u[2]].sequence>>
        BY <3>1, <3>2
      <4>2. t \in {<<v[2], heap[v[2]].sequence>> : v \in getExpired}
        BY <4>1
      <4> QED BY <1>3, <4>2
    <3> QED BY <1>3, <3>1, <3>2 DEF OwnInv, WaitingTimers
  <2> QED BY <1>1, <1>3, <2>1, <2>2 DEF OwnInv, WaitingTimers
<1>7. BatchTimers'
  <2>1. ASSUME NEW t \in getExpired, NEW u \in timers' PROVE u[2] # t[2]
    BY <1>3, <1>5
  <2> QED BY <1>1, <1>3, <2>1 DEF OwnInv, WaitingTimers, BatchTimers
<1>8. QueuedTimers'
  <2>1. QueuedAdds' = QueuedAdds
    BY <1>1 DEF QueuedAdds
  <2> QED BY <1>1, <1>3, <2>1 DEF OwnInv, QueuedTimers
<1>9. Numbered' /\ Phases'
  BY <1>1, <1>2 DEF OwnInv, Numbered, Phases
<1>10. TypeOK'
  <2>1. /\ timers' \subseteq Expirations \X Addrs /\ activeTimers' \subseteq Addrs \X Sequences_
        /\ expired' \subseteq Expirations \X Addrs /\ due' \subseteq expired'
    BY <1>3, <1>4
  <2> QED BY <1>1, <1>2, <2>1, Zenon DEF OwnInv, TypeOK
<1> QED BY <1>6, <1>7, <1>8, <1>9, <1>10 DEF OwnInv

\* The callback of an expired timer begins.
LEMMA OwnInvRunTimer == ASSUME OwnInv, RunTimer PROVE OwnInv'
<1>1. UNCHANGED <<now, polled, pendingFunctors, batch, heap, timers, activeTimers, alarm, readable,
                  callingExpiredTimers, expired, batchNow, numCreated, adding, idOf,
                  cancelingTimers, asked, found>>
  BY DEF RunTimer, queueVars, userVars, cancelVars
<1>2. PICK t \in due : due' = due \ {t} /\ fired' = fired \cup {heap[t[2]].sequence}
  BY DEF RunTimer
<1>3. pc = "timers" /\ pc' = "callback"
  BY DEF RunTimer
<1>4. heap[t[2]].sequence \in Sequences_
  <2>1. t \in expired /\ t[2] \in Addrs /\ heap[t[2]] # Free
    BY DEF OwnInv, TypeOK, BatchTimers
  <2> QED BY <2>1, HeapFacts DEF OwnInv
<1>5. TypeOK'
  <2>1. due' \subseteq expired' /\ fired' \subseteq Sequences_
    BY <1>1, <1>2, <1>4 DEF OwnInv, TypeOK
  <2> QED BY <1>1, <1>3, <2>1, Zenon DEF OwnInv, TypeOK
<1>6. WaitingTimers' /\ BatchTimers' /\ QueuedTimers' /\ Numbered'
  BY <1>1 DEF OwnInv, WaitingTimers, BatchTimers, QueuedTimers, Numbered, QueuedAdds
<1>7. Phases'
  BY <1>1, <1>3 DEF OwnInv, Phases
<1> QED BY <1>5, <1>6, <1>7 DEF OwnInv

\* reset() ends the batch: a timer of it waits again or is deleted.
LEMMA ResetTimers ==
    ASSUME OwnInv, Reset
    PROVE  /\ heap' \in [Addrs -> {Free} \cup TimerObjects]
           /\ \A b \in Addrs :
                \/ heap'[b] = heap[b] /\ \A t \in expired : t[2] # b
                \/ /\ \E t \in expired : t[2] = b
                   /\ ~restarts(b) /\ heap'[b] = Free
                   /\ \A t \in timers' : t[2] # b
                \/ /\ \E t \in expired : t[2] = b
                   /\ restarts(b) /\ heap'[b] = restart(heap[b]) /\ heap'[b] # Free
                   /\ heap'[b].sequence = heap[b].sequence
                   /\ heap'[b].interval = heap[b].interval
                   /\ <<heap'[b].expiration, b>> \in timers'
                   /\ <<b, heap[b].sequence>> \in activeTimers'
           /\ \A t \in timers' : \/ t \in timers
                                 \/ /\ t[2] \in Addrs /\ t = <<heap'[t[2]].expiration, t[2]>>
                                    /\ \E u \in expired : u[2] = t[2] /\ restarts(t[2])
           /\ \A t \in activeTimers' : \/ t \in activeTimers
                                       \/ /\ t[1] \in Addrs /\ t = <<t[1], heap[t[1]].sequence>>
                                          /\ \E u \in expired : u[2] = t[1] /\ restarts(t[1])
           /\ timers \subseteq timers' /\ activeTimers \subseteq activeTimers'
<1> DEFINE restarted == {t[2] : t \in {u \in expired : restarts(u[2])}}
           deleted   == {t[2] : t \in expired} \ restarted
<1>1. /\ heap' = [a \in Addrs |-> IF a \in restarted THEN restart(heap[a])
                                  ELSE IF a \in deleted THEN Free ELSE heap[a]]
      /\ timers' = timers \cup {<<heap'[a].expiration, a>> : a \in restarted}
      /\ activeTimers' = activeTimers \cup {<<a, heap[a].sequence>> : a \in restarted}
  BY DEF Reset
<1>2. /\ heap \in [Addrs -> {Free} \cup TimerObjects]
      /\ timers \subseteq Expirations \X Addrs /\ activeTimers \subseteq Addrs \X Sequences_
      /\ expired \subseteq Expirations \X Addrs /\ batchNow \in Times
  BY DEF OwnInv, TypeOK, TimerObjects
<1>3. ASSUME NEW b \in Addrs
      PROVE  /\ b \in restarted <=> (\E t \in expired : t[2] = b) /\ restarts(b)
             /\ b \in deleted <=> (\E t \in expired : t[2] = b) /\ ~restarts(b)
  <2>1. b \in restarted <=> \E t \in expired : restarts(t[2]) /\ t[2] = b
    BY DEF restarted
  <2>2. b \in {t[2] : t \in expired} <=> \E t \in expired : t[2] = b
    BY DEF deleted
  <2> HIDE DEF restarted
  <2> QED BY <2>1, <2>2
<1>4. restarted \subseteq Addrs
  BY <1>2
<1> HIDE DEF restarted, deleted
<1>5. ASSUME NEW b \in restarted
      PROVE  /\ restart(heap[b]) \in TimerObjects
             /\ restart(heap[b]).sequence = heap[b].sequence
             /\ restart(heap[b]).interval = heap[b].interval
             /\ restart(heap[b]) # Free
  <2>1. heap[b] \in TimerObjects
    <3>1. b \in Addrs /\ \E t \in expired : t[2] = b
      BY <1>3, <1>4
    <3>2. heap[b] # Free
      BY <3>1 DEF OwnInv, BatchTimers
    <3> QED BY <1>2, <3>1, <3>2
  <2>2. batchNow + heap[b].interval \in Expirations
    <3>1. heap[b].interval \in Nat
      BY <2>1, BoundsAssumption DEF TimerObjects
    <3>2. batchNow \in Nat \ {0}
      BY <1>2, BoundsAssumption DEF Times
    <3> QED BY <3>1, <3>2 DEF Expirations
  <2>3. /\ restart(heap[b]) \in TimerObjects
        /\ restart(heap[b]).sequence = heap[b].sequence
        /\ restart(heap[b]).interval = heap[b].interval
    BY <2>1, <2>2 DEF restart, TimerObjects
  <2>4. restart(heap[b]).sequence # Free.sequence
    BY <2>1, <2>3, BoundsAssumption DEF TimerObjects, Free, Sequences_
  <2> QED BY <2>3, <2>4
<1>6. heap' \in [Addrs -> {Free} \cup TimerObjects]
  BY <1>1, <1>2, <1>5
<1>7. ASSUME NEW t \in timers'
      PROVE  \/ t \in timers
             \/ /\ t[2] \in restarted /\ t[2] \in Addrs /\ t = <<heap'[t[2]].expiration, t[2]>>
                /\ \E u \in expired : u[2] = t[2] /\ restarts(t[2])
  <2>1. CASE t \in {<<heap'[a].expiration, a>> : a \in restarted}
    <3>1. PICK a \in restarted : t = <<heap'[a].expiration, a>>
      BY <2>1
    <3>2. t[2] = a
      BY <3>1
    <3> QED BY <1>3, <1>4, <3>1, <3>2
  <2> QED BY <1>1, <2>1
<1>8. ASSUME NEW t \in activeTimers'
      PROVE  \/ t \in activeTimers
             \/ /\ t[1] \in Addrs /\ t = <<t[1], heap[t[1]].sequence>>
                /\ \E u \in expired : u[2] = t[1] /\ restarts(t[1])
  <2>1. CASE t \in {<<a, heap[a].sequence>> : a \in restarted}
    <3>1. PICK a \in restarted : t = <<a, heap[a].sequence>>
      BY <2>1
    <3>2. t[1] = a
      BY <3>1
    <3> QED BY <1>3, <1>4, <3>1, <3>2
  <2> QED BY <1>1, <2>1
<1>9. ASSUME NEW b \in Addrs
      PROVE  \/ heap'[b] = heap[b] /\ \A t \in expired : t[2] # b
             \/ /\ \E t \in expired : t[2] = b
                /\ ~restarts(b) /\ heap'[b] = Free
                /\ \A t \in timers' : t[2] # b
             \/ /\ \E t \in expired : t[2] = b
                /\ restarts(b) /\ heap'[b] = restart(heap[b]) /\ heap'[b] # Free
                /\ heap'[b].sequence = heap[b].sequence
                /\ heap'[b].interval = heap[b].interval
                /\ <<heap'[b].expiration, b>> \in timers'
                /\ <<b, heap[b].sequence>> \in activeTimers'
  <2>1. CASE ~\E t \in expired : t[2] = b
    BY <1>1, <1>3, <2>1
  <2>2. CASE (\E t \in expired : t[2] = b) /\ restarts(b)
    <3>1. b \in restarted
      BY <1>3, <2>2
    <3>2. heap'[b] = restart(heap[b])
      BY <1>1, <3>1
    <3>3. <<heap'[b].expiration, b>> \in timers' /\ <<b, heap[b].sequence>> \in activeTimers'
      BY <1>1, <3>1
    <3> QED BY <1>5, <2>2, <3>1, <3>2, <3>3
  <2>3. CASE (\E t \in expired : t[2] = b) /\ ~restarts(b)
    <3>1. \A t \in timers : t[2] # b
      BY <2>3 DEF OwnInv, BatchTimers
    <3>2. \A t \in timers' : t[2] # b
      BY <1>7, <2>3, <3>1
    <3> QED BY <1>1, <1>3, <2>3, <3>2
  <2> QED BY <2>1, <2>2, <2>3
<1> QED BY <1>1, <1>6, <1>7, <1>8, <1>9

LEMMA OwnInvReset == ASSUME OwnInv, Reset PROVE OwnInv'
<1>1. UNCHANGED <<now, polled, pendingFunctors, batch, due, numCreated, adding, idOf, cancelingTimers>>
  BY DEF Reset, userVars
<1>2. /\ pc = "timers" /\ due = {} /\ callingExpiredTimers' = FALSE /\ expired' = {}
      /\ batchNow' = 1 /\ pc' = "events" /\ rearm(timers')
      /\ asked' = Existing(asked) /\ found' = Existing(found) /\ fired' = Existing(fired)
  BY DEF Reset
<1>3. /\ heap \in [Addrs -> {Free} \cup TimerObjects]
      /\ timers \subseteq Expirations \X Addrs /\ activeTimers \subseteq Addrs \X Sequences_
      /\ expired \subseteq Expirations \X Addrs
  BY DEF OwnInv, TypeOK, TimerObjects
<1>4. heap' \in [Addrs -> {Free} \cup TimerObjects]
  BY ResetTimers
<1>5. timers' \subseteq Expirations \X Addrs
  <2> SUFFICES ASSUME NEW t \in timers', t \notin timers PROVE t \in Expirations \X Addrs
    BY <1>3
  <2>1. /\ t[2] \in Addrs /\ t = <<heap'[t[2]].expiration, t[2]>>
        /\ \E u \in expired : u[2] = t[2] /\ restarts(t[2])
    BY ResetTimers
  <2>2. heap'[t[2]] # Free
    BY <2>1, ResetTimers
  <2>3. heap'[t[2]] \in TimerObjects
    BY <1>4, <2>1, <2>2
  <2> QED BY <2>1, <2>3 DEF TimerObjects
<1>6. activeTimers' \subseteq Addrs \X Sequences_
  <2> SUFFICES ASSUME NEW t \in activeTimers', t \notin activeTimers PROVE t \in Addrs \X Sequences_
    BY <1>3
  <2>1. t[1] \in Addrs /\ t = <<t[1], heap[t[1]].sequence>> /\ \E u \in expired : u[2] = t[1]
    BY ResetTimers
  <2>2. heap[t[1]] # Free
    BY <2>1 DEF OwnInv, BatchTimers
  <2> QED BY <2>1, <2>2, HeapFacts DEF OwnInv
<1>7. alarm' \in {NoAlarm} \cup Expirations /\ readable' \in BOOLEAN
  <2>1. CASE alarm' = alarm /\ readable' = readable
    BY <2>1, Zenon DEF OwnInv, TypeOK
  <2>2. ASSUME NEW t \in timers', resetTimerfd(t[1])
        PROVE  alarm' \in {NoAlarm} \cup Expirations /\ readable' \in BOOLEAN
    <3>1. t[1] \in Expirations /\ now \in Nat \ {0}
      BY <1>5, BoundsAssumption DEF OwnInv, TypeOK, Times
    <3> QED BY <2>2, <3>1 DEF resetTimerfd, Deadline, Later, Expirations
  <2> QED BY <1>2, <2>1, <2>2 DEF rearm
<1>8. TypeOK'
  <2>1. due' \subseteq expired' /\ expired' \subseteq Expirations \X Addrs /\ batchNow' \in Times
    BY <1>1, <1>2, BoundsAssumption DEF Times
  <2>2. asked' \subseteq Sequences_ /\ found' \subseteq Sequences_ /\ fired' \subseteq Sequences_
    BY <1>2 DEF Existing, OwnInv, TypeOK
  <2> QED BY <1>1, <1>2, <1>4, <1>5, <1>6, <1>7, <2>1, <2>2, Zenon DEF OwnInv, TypeOK, TimerObjects
<1>9. WaitingTimers'
  <2>1. ASSUME NEW t \in timers'
        PROVE  /\ heap'[t[2]] # Free /\ heap'[t[2]].expiration = t[1]
               /\ <<t[2], heap'[t[2]].sequence>> \in activeTimers'
    <3>1. CASE t \in timers
      <4>1. t[2] \in Addrs /\ \A u \in expired : u[2] # t[2]
        BY <1>3, <3>1 DEF OwnInv, BatchTimers
      <4>2. heap'[t[2]] = heap[t[2]]
        BY <4>1, ResetTimers
      <4> QED BY <3>1, <4>2, ResetTimers DEF OwnInv, WaitingTimers
    <3>2. CASE t \notin timers
      <4>1. /\ t[2] \in Addrs /\ t = <<heap'[t[2]].expiration, t[2]>>
            /\ \E u \in expired : u[2] = t[2] /\ restarts(t[2])
        BY <3>2, ResetTimers
      <4>2. /\ heap'[t[2]] # Free /\ heap'[t[2]].sequence = heap[t[2]].sequence
            /\ <<t[2], heap[t[2]].sequence>> \in activeTimers'
        BY <4>1, ResetTimers
      <4> QED BY <4>1, <4>2
    <3> QED BY <3>1, <3>2
  <2>2. ASSUME NEW t \in activeTimers'
        PROVE  heap'[t[1]].sequence = t[2] /\ <<heap'[t[1]].expiration, t[1]>> \in timers'
    <3>1. CASE t \in activeTimers
      <4>1. t[1] \in Addrs /\ heap[t[1]].sequence = t[2] /\ <<heap[t[1]].expiration, t[1]>> \in timers
        BY <1>3, <3>1 DEF OwnInv, WaitingTimers
      <4>2. \A u \in expired : u[2] # t[1]
        BY <4>1 DEF OwnInv, BatchTimers
      <4>3. heap'[t[1]] = heap[t[1]]
        BY <4>1, <4>2, ResetTimers
      <4> QED BY <4>1, <4>3, ResetTimers
    <3>2. CASE t \notin activeTimers
      <4>1. /\ t[1] \in Addrs /\ t = <<t[1], heap[t[1]].sequence>>
            /\ \E u \in expired : u[2] = t[1] /\ restarts(t[1])
        BY <3>2, ResetTimers
      <4>2. /\ heap'[t[1]].sequence = heap[t[1]].sequence
            /\ <<heap'[t[1]].expiration, t[1]>> \in timers'
        BY <4>1, ResetTimers
      <4> QED BY <4>1, <4>2
    <3> QED BY <3>1, <3>2
  <2> QED BY <2>1, <2>2 DEF WaitingTimers
<1>10. BatchTimers'
  BY <1>2 DEF BatchTimers
<1>11. QueuedTimers'
  <2>1. QueuedAdds' = QueuedAdds
    BY <1>1 DEF QueuedAdds
  <2>2. ASSUME NEW i \in QueuedAdds
        PROVE  /\ heap'[pendingFunctors[i].addr] # Free
               /\ \A u \in timers' \cup expired' : u[2] # pendingFunctors[i].addr
    <3> DEFINE a == pendingFunctors[i].addr
    <3>1. a \in Addrs /\ heap[a] # Free /\ (\A u \in timers : u[2] # a) /\ \A u \in expired : u[2] # a
      BY QueueFacts DEF OwnInv, QueuedTimers
    <3> HIDE DEF a
    <3>2. heap'[a] = heap[a]
      BY <3>1, ResetTimers
    <3>3. \A u \in timers' : u[2] # a
      BY <3>1, ResetTimers
    <3> QED BY <1>2, <3>1, <3>2, <3>3 DEF a
  <2> QED BY <1>1, <2>1, <2>2 DEF OwnInv, QueuedTimers
<1>12. Numbered'
  <2>1. \A b \in Addrs : \/ heap'[b] = heap[b]
                         \/ heap'[b] = Free
                         \/ heap'[b] # Free /\ heap'[b].sequence = heap[b].sequence
    BY ResetTimers
  <2>2. Free.sequence = 0 /\ numCreated \in Nat
        /\ \A b \in Addrs : heap[b].sequence \in Nat /\ (heap[b] = Free <=> heap[b].sequence = 0)
    BY HeapFacts DEF Free, OwnInv, TypeOK
  <2>3. \A b \in Addrs : heap'[b].sequence <= numCreated'
    BY <1>1, <2>1, <2>2 DEF OwnInv, Numbered
  <2>4. \A b \in Addrs : heap'[b] # Free => heap'[b].sequence # 0
    BY <1>4, BoundsAssumption DEF TimerObjects, Sequences_
  <2>5. ASSUME NEW a \in Addrs, NEW b \in Addrs, heap'[a].sequence = heap'[b].sequence,
               heap'[a] # Free
        PROVE  a = b
    <3>1. heap'[a].sequence # 0 /\ heap'[b] # Free
      BY <2>2, <2>4, <2>5
    <3>2. heap[a].sequence = heap'[a].sequence /\ heap[b].sequence = heap'[b].sequence
      BY <2>1, <2>5, <3>1
    <3> QED BY <2>2, <2>5, <3>1, <3>2 DEF OwnInv, Numbered
  <2> QED BY <2>3, <2>5 DEF Numbered
<1>13. Phases'
  BY <1>1, <1>2 DEF OwnInv, Phases
<1> QED BY <1>8, <1>9, <1>10, <1>11, <1>12, <1>13 DEF OwnInv

\* A functor is run: addTimerInLoop() or cancelInLoop().
LEMMA OwnInvRunFunctor == ASSUME OwnInv, RunFunctor PROVE OwnInv'
<1> DEFINE functor == Head(pendingFunctors)
<1>1. UNCHANGED <<now, pc, polled, callingExpiredTimers, expired, due, batchNow, numCreated,
                  adding, idOf>>
  BY DEF RunFunctor, batchVars, userVars
<1>2. /\ batch > 0 /\ batch' = batch - 1 /\ pendingFunctors' = Tail(pendingFunctors)
      /\ pc = "functors"
  BY DEF RunFunctor
<1>3. /\ functor = pendingFunctors[1] /\ functor \in Functor /\ 1 \in 1 .. Len(pendingFunctors)
      /\ pendingFunctors' \in Seq(Functor) /\ batch' \in 0 .. Len(pendingFunctors')
  BY <1>2, QueueFacts
<1>4. \A i \in QueuedAdds' : /\ i + 1 \in QueuedAdds /\ pendingFunctors'[i] = pendingFunctors[i + 1]
                             /\ pendingFunctors[i + 1].addr \in Addrs /\ i \in Nat \ {0}
  BY <1>2, QueueFacts DEF QueuedAdds
<1>5. Phases'
  BY <1>1 DEF OwnInv, Phases
<1> HIDE DEF functor
<1>6. CASE functor.op = "add" /\ addTimerInLoop(functor.addr, heap[functor.addr])
           /\ UNCHANGED <<heap, cancelVars, fired>>
  <2> DEFINE a == functor.addr
  <2>1. 1 \in QueuedAdds /\ a = pendingFunctors[1].addr /\ a \in Addrs
    BY <1>3, <1>6, QueueFacts DEF QueuedAdds
  <2> HIDE DEF a
  <2>2. heap[a] # Free /\ \A u \in timers \cup expired : u[2] # a
    BY <2>1 DEF OwnInv, QueuedTimers
  <2>3. heap[a] \in TimerObjects /\ heap' = [heap EXCEPT ![a] = heap[a]]
    BY <1>6, <2>1, <2>2 DEF OwnInv, TypeOK, TimerObjects
  <2>4. /\ heap' \in [Addrs -> {Free} \cup TimerObjects]
        /\ timers' \subseteq Expirations \X Addrs /\ activeTimers' \subseteq Addrs \X Sequences_
        /\ alarm' \in {NoAlarm} \cup Expirations /\ readable' \in BOOLEAN
        /\ WaitingTimers' /\ BatchTimers'
    <3>1. addTimerInLoop(a, heap[a])
      BY <1>6 DEF a
    <3> QED BY <1>1, <2>1, <2>2, <2>3, <3>1, InsertTimer, Zenon
  <2>5. timers' = timers \cup {<<heap[a].expiration, a>>}
    BY <1>6 DEF addTimerInLoop, a
  <2>6. QueuedTimers'
    <3>1. \A i \in QueuedAdds' : pendingFunctors[i + 1].addr # a
      BY <1>4, <2>1 DEF OwnInv, QueuedTimers
    <3>2. \A i \in QueuedAdds' : \A u \in timers' \cup expired' : u[2] # pendingFunctors'[i].addr
      BY <1>1, <1>4, <2>5, <3>1 DEF OwnInv, QueuedTimers
    <3>3. \A i, j \in QueuedAdds' : pendingFunctors'[i].addr = pendingFunctors'[j].addr => i = j
      <4> SUFFICES ASSUME NEW i \in QueuedAdds', NEW j \in QueuedAdds',
                          pendingFunctors'[i].addr = pendingFunctors'[j].addr
                   PROVE  i = j
        OBVIOUS
      <4>1. i + 1 = j + 1
        BY <1>4 DEF OwnInv, QueuedTimers
      <4> QED BY <1>4, <4>1
    <3>4. \A i \in QueuedAdds' : heap'[pendingFunctors'[i].addr] # Free
      BY <1>4, <1>6 DEF OwnInv, QueuedTimers
    <3> QED BY <3>2, <3>3, <3>4 DEF QueuedTimers
  <2>7. Numbered'
    BY <1>1, <1>6 DEF OwnInv, Numbered
  <2>8. TypeOK'
    <3>1. UNCHANGED <<cancelingTimers, asked, found, fired>>
      BY <1>6 DEF cancelVars
    <3> QED BY <1>1, <1>3, <2>4, <3>1, Zenon DEF OwnInv, TypeOK, TimerObjects
  <2> QED BY <1>5, <2>4, <2>6, <2>7, <2>8 DEF OwnInv
<1>7. CASE functor.op = "cancel" /\ cancelInLoop(functor.id, functor.of)
  <2>1. functor.id \in Ids /\ functor.of \in Sequences_
    BY <1>3, <1>7 DEF Functor
  <2>2. /\ heap' \in [Addrs -> {Free} \cup TimerObjects]
        /\ timers' \subseteq timers /\ activeTimers' \subseteq activeTimers
        /\ cancelingTimers' \subseteq Ids
        /\ asked' \subseteq Sequences_ /\ found' \subseteq Sequences_ /\ fired' \subseteq Sequences_
        /\ \A b \in Addrs : heap'[b] = heap[b]
                            \/ (heap'[b] = Free /\ \E t \in timers : t[2] = b)
        /\ WaitingTimers' /\ BatchTimers' /\ Numbered'
    BY <1>1, <1>7, <2>1, CancelTimer, Zenon
  <2>3. QueuedTimers'
    <3>1. \A i \in QueuedAdds' : heap'[pendingFunctors'[i].addr] # Free
      BY <1>4, <2>2 DEF OwnInv, QueuedTimers
    <3>2. \A i \in QueuedAdds' : \A u \in timers' \cup expired' : u[2] # pendingFunctors'[i].addr
      BY <1>1, <1>4, <2>2 DEF OwnInv, QueuedTimers
    <3>3. \A i, j \in QueuedAdds' : pendingFunctors'[i].addr = pendingFunctors'[j].addr => i = j
      <4> SUFFICES ASSUME NEW i \in QueuedAdds', NEW j \in QueuedAdds',
                          pendingFunctors'[i].addr = pendingFunctors'[j].addr
                   PROVE  i = j
        OBVIOUS
      <4>1. i + 1 = j + 1
        BY <1>4 DEF OwnInv, QueuedTimers
      <4> QED BY <1>4, <4>1
    <3> QED BY <3>1, <3>2, <3>3 DEF QueuedTimers
  <2>4. UNCHANGED <<alarm, readable>>
    BY <1>7 DEF cancelInLoop
  <2>5. timers' \subseteq Expirations \X Addrs /\ activeTimers' \subseteq Addrs \X Sequences_
    BY <2>2 DEF OwnInv, TypeOK
  <2>6. TypeOK'
    BY <1>1, <1>3, <2>2, <2>4, <2>5, Zenon DEF OwnInv, TypeOK, TimerObjects
  <2> QED BY <1>5, <2>2, <2>3, <2>6 DEF OwnInv
<1> QED BY <1>6, <1>7 DEF RunFunctor, functor

-----------------------------------------------------------------------------
(* The theorems about the two sets and the batch.                          *)

LEMMA Ownership == Spec => []OwnInv
<1>1. Init => OwnInv
  BY OwnInvInit
<1>2. OwnInv /\ [Next]_vars => OwnInv'
  <2> SUFFICES ASSUME OwnInv, [Next]_vars PROVE OwnInv'
    OBVIOUS
  <2>1. CASE LoopStep
    BY <2>1, OwnInvHandleRead, OwnInvRunTimer, OwnInvQuiet, OwnInvReset, OwnInvRunFunctor
       DEF LoopStep
  <2>2. CASE Poll \/ AlarmFires \/ ClockTicks \/ UNCHANGED vars
    BY <2>2, OwnInvQuiet
  <2>3. CASE UserCode
    BY <2>3, OwnInvAddTimer, OwnInvCancel DEF UserCode
  <2>4. CASE ForeignThread
    BY <2>4, OwnInvForeignAddTimer, OwnInvForeignCancel, OwnInvQuiet DEF ForeignThread
  <2> QED BY <2>1, <2>2, <2>3, <2>4 DEF Next
<1> QED BY <1>1, <1>2, PTL DEF Spec

\* Every variable of the timer queue keeps its type: in particular no number of
\* a deleted Timer is ever put in activeTimers_ (TimerQueue.cc:166, 272).
THEOREM TypeCorrect == Spec => []TypeOK
<1>1. OwnInv => TypeOK
  BY DEF OwnInv
<1> QED BY <1>1, Ownership, PTL

\* The timers of the running batch stay alive and out of both sets until
\* reset(), whatever callbacks cancel or add (TimerQueue.cc:171-174, 229-239).
THEOREM BatchStaysAlive == Spec => []ExpiredStayAlive
<1>1. OwnInv => ExpiredStayAlive
  BY DEF OwnInv, BatchTimers, ExpiredStayAlive
<1> QED BY <1>1, Ownership, PTL

\* timers_ and activeTimers_ list the same live timers, and equally many: the
\* assertions of insert(), cancelInLoop() and getExpired() hold, whichever
\* threads add and cancel, and however addresses are reused
\* (TimerQueue.cc:161, 167, 175, 202, 215, 218, 257, 268, 273, 276).
THEOREM IndexesAlwaysAgree == Spec => []IndexesAgree
<1>1. ASSUME OwnInv PROVE IndexesAgree
  <2>1. /\ timers \subseteq Expirations \X Addrs /\ activeTimers \subseteq Addrs \X Sequences_
        /\ WaitingTimers
    BY <1>1 DEF OwnInv, TypeOK
  <2>2. IsFiniteSet(activeTimers)
    <3> DEFINE number == [t \in activeTimers |-> t[2]]
    <3>1. ASSUME NEW t \in activeTimers, NEW u \in activeTimers, t[2] = u[2] PROVE t = u
      <4>1. t = <<t[1], t[2]>> /\ u = <<u[1], u[2]>> /\ t[1] \in Addrs /\ u[1] \in Addrs
            /\ t[2] \in Sequences_
        BY <2>1
      <4>2. heap[t[1]].sequence = t[2] /\ heap[u[1]].sequence = u[2]
        BY <2>1 DEF WaitingTimers
      <4>3. heap[t[1]] # Free
        BY <1>1, <4>1, <4>2, HeapFacts DEF OwnInv
      <4>4. t[1] = u[1]
        BY <1>1, <3>1, <4>1, <4>2, <4>3 DEF OwnInv, Numbered
      <4> QED BY <3>1, <4>1, <4>4
    <3>2. number \in [activeTimers -> Sequences_]
      BY <2>1
    <3>3. IsInjective(number)
      BY <3>1 DEF IsInjective
    <3>4. number \in Injection(activeTimers, Sequences_)
      BY <3>2, <3>3 DEF Injection
    <3>5. IsFiniteSet(Sequences_)
      BY FS_Interval, BoundsAssumption DEF Sequences_
    <3> QED BY <3>4, <3>5, FS_Injection
  <2>3. Cardinality(timers) = Cardinality(activeTimers)
    <3> DEFINE entry == [t \in activeTimers |-> <<heap[t[1]].expiration, t[1]>>]
    <3>1. entry \in [activeTimers -> timers]
      BY <2>1 DEF WaitingTimers
    <3>2. ASSUME NEW t \in activeTimers, NEW u \in activeTimers, entry[t] = entry[u] PROVE t = u
      <4>1. t = <<t[1], t[2]>> /\ u = <<u[1], u[2]>> /\ t[1] = u[1]
        BY <2>1, <3>2
      <4>2. t[2] = u[2]
        BY <2>1, <4>1 DEF WaitingTimers
      <4> QED BY <4>1, <4>2
    <3>3. ASSUME NEW t \in timers PROVE \E u \in activeTimers : entry[u] = t
      <4> DEFINE u == <<t[2], heap[t[2]].sequence>>
      <4>1. u \in activeTimers /\ heap[t[2]].expiration = t[1] /\ t = <<t[1], t[2]>>
        BY <2>1 DEF WaitingTimers
      <4>2. entry[u] = t
        BY <4>1
      <4> QED BY <4>1, <4>2
    <3>4. IsInjective(entry)
      BY <3>1, <3>2 DEF IsInjective
    <3>5. entry \in Bijection(activeTimers, timers)
      BY <3>1, <3>3, <3>4 DEF Bijection, Injection, Surjection
    <3> QED BY <2>2, <3>5, FS_Bijection DEF ExistsBijection
  <2> QED BY <2>1, <2>3 DEF IndexesAgree, WaitingTimers
<1> QED BY <1>1, Ownership, PTL

-----------------------------------------------------------------------------
(* The alarm.                                                              *)

\* While the timerfd is neither readable nor about to be handled, it is set
\* for the earliest timer or sooner: no insertion, cancellation, batch or late
\* callback loses the wakeup (TimerQueue.cc:150-155, 243-251, 260-264).
THEOREM AlarmIsNeverLost == Spec => []NoLostAlarm
<1> USE BoundsAssumption
<1>1. Init => NoLostAlarm
  BY DEF Init, NoLostAlarm
<1>2. OwnInv /\ OwnInv' /\ NoLostAlarm /\ [Next]_vars => NoLostAlarm'
  <2> SUFFICES ASSUME OwnInv, OwnInv', NoLostAlarm, [Next]_vars,
                      timers' # {}, ~callingExpiredTimers', ~polled', ~readable'
               PROVE  /\ alarm' # NoAlarm
                      /\ \A t \in timers' : alarm' <= Later(t[1], now')
    BY DEF NoLostAlarm
  <2>1. /\ now \in Nat \ {0} /\ now' \in Nat \ {0} /\ (alarm \in Nat) /\ (alarm' \in Nat)
        /\ \A t \in timers : t[1] \in Nat \ {0}
        /\ \A t \in timers' : t[1] \in Nat \ {0}
    <3>1. now \in Times /\ timers \subseteq Expirations \X Addrs /\ alarm \in {NoAlarm} \cup Expirations
      BY DEF OwnInv, TypeOK
    <3>2. now' \in Times /\ timers' \subseteq Expirations \X Addrs /\ alarm' \in {NoAlarm} \cup Expirations
      BY DEF OwnInv, TypeOK
    <3> QED BY <3>1, <3>2 DEF Times, Expirations, NoAlarm
  <2>2. CASE UNCHANGED <<timers, alarm, readable, callingExpiredTimers, polled>> /\ now <= now'
    BY <2>1, <2>2 DEF NoLostAlarm, Later
  <2>3. ASSUME NEW a, NEW timer, addTimerInLoop(a, timer), timer.expiration \in Nat \ {0},
               UNCHANGED <<callingExpiredTimers, polled, now>>
        PROVE  /\ alarm' # NoAlarm
               /\ \A t \in timers' : alarm' <= Later(t[1], now')
    <3> DEFINE when == timer.expiration
    <3>1. \A t \in timers' : t \in timers \/ t[1] = when
      BY <2>3 DEF addTimerInLoop
    <3>2. CASE earliestChanged(when)
      <4>1. alarm' = Later(when, now)
        BY <2>3, <3>2 DEF addTimerInLoop, resetTimerfd, Deadline
      <4>2. \A t \in timers : when < t[1]
        BY <3>2 DEF earliestChanged
      <4> QED BY <2>1, <2>3, <3>1, <4>1, <4>2 DEF Later, NoAlarm
    <3>3. CASE ~earliestChanged(when)
      <4>1. alarm' = alarm /\ readable' = readable
        BY <2>3, <3>3 DEF addTimerInLoop
      <4>2. PICK u \in timers : ~(when < u[1])
        BY <3>3 DEF earliestChanged
      <4>3. alarm # NoAlarm /\ \A t \in timers : alarm <= Later(t[1], now)
        BY <2>3, <4>1, <4>2 DEF NoLostAlarm
      <4> QED BY <2>1, <2>3, <3>1, <4>1, <4>2, <4>3 DEF Later
    <3> QED BY <3>2, <3>3
  <2>4. ASSUME NEW id, NEW of, cancelInLoop(id, of), UNCHANGED <<callingExpiredTimers, polled, now>>
        PROVE  /\ alarm' # NoAlarm
               /\ \A t \in timers' : alarm' <= Later(t[1], now')
    BY <2>4 DEF cancelInLoop, NoLostAlarm
  <2>5. ASSUME NEW a \in Addrs, NEW when \in now .. MaxTime, NEW interval \in Intervals,
               AddTimer(a, when, interval)
        PROVE  /\ alarm' # NoAlarm
               /\ \A t \in timers' : alarm' <= Later(t[1], now')
    <3> DEFINE timer == NewTimer(when, interval)
    <3>1. timer.expiration \in Nat \ {0}
      BY <2>1 DEF NewTimer
    <3>2. addTimerInLoop(a, timer) /\ UNCHANGED <<callingExpiredTimers, polled, now>>
      BY <2>5 DEF AddTimer, loopVars, batchVars
    <3> HIDE DEF timer
    <3> QED BY <2>3, <3>1, <3>2
  <2>6. CASE RunFunctor
    <3> DEFINE functor == Head(pendingFunctors)
    <3>1. UNCHANGED <<callingExpiredTimers, polled, now>>
      BY <2>6 DEF RunFunctor, batchVars
    <3>2. CASE functor.op = "add" /\ addTimerInLoop(functor.addr, heap[functor.addr])
      <4>1. 1 \in QueuedAdds /\ functor = pendingFunctors[1] /\ functor.addr \in Addrs
        BY <2>6, <3>2, QueueFacts DEF RunFunctor, QueuedAdds
      <4>2. heap[functor.addr] # Free
        BY <4>1 DEF OwnInv, QueuedTimers
      <4>3. heap[functor.addr].expiration \in Nat \ {0}
        BY <4>1, <4>2, HeapFacts DEF OwnInv, Expirations
      <4> QED BY <2>3, <3>1, <3>2, <4>3
    <3>3. CASE cancelInLoop(functor.id, functor.of)
      BY <2>4, <3>1, <3>3
    <3> QED BY <2>6, <3>2, <3>3 DEF RunFunctor
  <2>7. ASSUME NEW s \in Sequences_, Cancel(s)
        PROVE  /\ alarm' # NoAlarm
               /\ \A t \in timers' : alarm' <= Later(t[1], now')
    BY <2>4, <2>7 DEF Cancel, loopVars, batchVars
  <2>8. CASE HandleRead \/ AlarmFires
    BY <2>8 DEF HandleRead, AlarmFires
  <2>9. CASE Reset
    <3>1. PICK t \in timers' : (\A u \in timers' : Precedes(t, u)) /\ resetTimerfd(t[1])
      BY <2>9 DEF Reset, rearm
    <3>2. alarm' = Later(t[1], now) /\ now' = now
      BY <2>9, <3>1 DEF resetTimerfd, Deadline, Reset
    <3>3. \A u \in timers' : t[1] <= u[1]
      BY <2>1, <3>1 DEF Precedes
    <3> QED BY <2>1, <3>2, <3>3 DEF Later, NoAlarm
  <2>10. CASE Poll
    <3>1. ~polled /\ ~readable /\ UNCHANGED <<timers, alarm, callingExpiredTimers, now>>
      BY <2>10 DEF Poll, queueVars, batchVars, OwnInv, Phases
    <3> QED BY <3>1 DEF NoLostAlarm
  <2>11. CASE ClockTicks
    BY <2>1, <2>2, <2>11 DEF ClockTicks, queueVars, batchVars
  <2>12. CASE RunTimer \/ CallbackReturns \/ EventsDone \/ FunctorsDone \/ UNCHANGED vars
    <3>1. UNCHANGED <<timers, alarm, readable, callingExpiredTimers, polled, now>>
      BY <2>12 DEF RunTimer, CallbackReturns, EventsDone, FunctorsDone, vars, loopVars, queueVars,
                   batchVars
    <3> QED BY <2>1, <2>2, <3>1
  <2>13. CASE ForeignThread
    <3>1. UNCHANGED <<timers, alarm, readable, callingExpiredTimers, polled, now>>
      BY <2>13 DEF ForeignThread, ForeignAddTimer, ForeignAddTimerReturns, ForeignCancel,
                   loopVars, queueVars, batchVars
    <3> QED BY <2>1, <2>2, <3>1
  <2> QED BY <2>5, <2>6, <2>7, <2>8, <2>9, <2>10, <2>11, <2>12, <2>13
          DEF Next, LoopStep, UserCode
<1> QED BY <1>1, <1>2, Ownership, PTL DEF Spec

-----------------------------------------------------------------------------
(* Cancellation and one-shot timers.                                       *)

\* insert() of a queued or new timer: its number is in no history.
LEMMA HistoryInsert ==
    ASSUME HistoryInv, NEW a, NEW timer, addTimerInLoop(a, timer),
           timer.sequence \notin found \cup fired, found' = found, fired' = fired,
           \A t \in activeTimers : heap'[t[1]] = heap[t[1]]
    PROVE  CancelSticks' /\ OneShotRunsOnce'
<1>1. activeTimers' = activeTimers \cup {<<a, timer.sequence>>}
  BY DEF addTimerInLoop
<1>2. \A t \in activeTimers' : t \in activeTimers \/ t[2] = timer.sequence
  BY <1>1
<1> QED BY <1>2 DEF HistoryInv, CancelSticks, OneShotRunsOnce

\* cancelInLoop(): a timer it finds in the batch is remembered for reset().
LEMMA HistoryCancel ==
    ASSUME OwnInv, HistoryInv, NEW id \in Ids, NEW of \in Sequences_, cancelInLoop(id, of),
           expired' = expired, numCreated' = numCreated,
           \A i \in QueuedAdds' : \E j \in QueuedAdds : pendingFunctors'[i] = pendingFunctors[j]
    PROVE  HistoryInv'
<1>1. /\ heap' \in [Addrs -> {Free} \cup TimerObjects]
      /\ timers' \subseteq timers /\ activeTimers' \subseteq activeTimers
      /\ \A b \in Addrs : heap'[b] = heap[b]
                          \/ (heap'[b] = Free /\ \E t \in timers : t[2] = b)
      /\ WaitingTimers' /\ BatchTimers'
  BY CancelTimer, Zenon
<1>2. /\ timers \subseteq Expirations \X Addrs /\ activeTimers \subseteq Addrs \X Sequences_
      /\ expired \subseteq Expirations \X Addrs
  BY DEF OwnInv, TypeOK
<1>3. fired' \subseteq fired
  BY DEF cancelInLoop, Existing
<1>4. \A t \in expired : heap'[t[2]] = heap[t[2]]
  BY <1>1, <1>2 DEF OwnInv, BatchTimers
<1>5. \A t \in activeTimers' : heap'[t[1]] = heap[t[1]]
  <2> SUFFICES ASSUME NEW t \in activeTimers' PROVE heap'[t[1]] = heap[t[1]]
    OBVIOUS
  <2>1. <<heap'[t[1]].expiration, t[1]>> \in timers' /\ t[1] \in Addrs
    BY <1>1, <1>2 DEF WaitingTimers
  <2>2. heap'[t[1]] # Free
    BY <1>1, <2>1 DEF WaitingTimers
  <2> QED BY <1>1, <2>1, <2>2
<1>6. \A i \in QueuedAdds' : \E j \in QueuedAdds :
          /\ pendingFunctors'[i] = pendingFunctors[j]
          /\ pendingFunctors[j].addr \in Addrs
          /\ heap'[pendingFunctors[j].addr] = heap[pendingFunctors[j].addr]
          /\ heap[pendingFunctors[j].addr] # Free
          /\ \A t \in expired : t[2] # pendingFunctors[j].addr
  <2> SUFFICES ASSUME NEW j \in QueuedAdds
               PROVE  /\ pendingFunctors[j].addr \in Addrs
                      /\ heap'[pendingFunctors[j].addr] = heap[pendingFunctors[j].addr]
                      /\ heap[pendingFunctors[j].addr] # Free
                      /\ \A t \in expired : t[2] # pendingFunctors[j].addr
    OBVIOUS
  <2>1. pendingFunctors[j].addr \in Addrs
    BY QueueFacts
  <2> QED BY <1>1, <2>1 DEF OwnInv, QueuedTimers
<1>7. CASE ~\E t \in expired : id = <<t[2], heap[t[2]].sequence>>
  <2>1. found' \subseteq found /\ cancelingTimers \subseteq cancelingTimers'
    BY <1>7 DEF cancelInLoop, Existing
  <2>2. \A i \in QueuedAdds' : heap'[pendingFunctors'[i].addr].sequence \notin found' \cup fired'
    BY <1>3, <1>6, <2>1 DEF HistoryInv
  <2>3. \A t \in expired' : heap'[t[2]].sequence \in found'
                              => <<t[2], heap'[t[2]].sequence>> \in cancelingTimers'
    BY <1>4, <2>1 DEF HistoryInv
  <2>4. CancelSticks' /\ OneShotRunsOnce'
    BY <1>1, <1>3, <1>5, <2>1 DEF HistoryInv, CancelSticks, OneShotRunsOnce
  <2>5. \A s \in found' \cup fired' : s <= numCreated'
    BY <1>3, <2>1 DEF HistoryInv
  <2> QED BY <2>2, <2>3, <2>4, <2>5 DEF HistoryInv
<1>8. ASSUME NEW e \in expired, id = <<e[2], heap[e[2]].sequence>>
      PROVE  HistoryInv'
  <2> DEFINE n == heap[e[2]].sequence
  <2>1. e[2] \in Addrs /\ heap[e[2]] # Free /\ id[1] = e[2] /\ id[2] = n
    BY <1>2, <1>8 DEF OwnInv, BatchTimers
  <2>2. ~isActive(id)
    <3> SUFFICES ASSUME id \in activeTimers PROVE FALSE
      BY DEF isActive
    <3>1. <<heap[e[2]].expiration, e[2]>> \in timers
      BY <2>1 DEF OwnInv, WaitingTimers
    <3> QED BY <3>1 DEF OwnInv, BatchTimers
  <2>3. callingExpiredTimers
    BY DEF OwnInv, Phases
  <2>4. cancelingTimers' = cancelingTimers \cup {id} /\ found' \subseteq found \cup {n}
    <3>1. cancelingTimers' = cancelingTimers \cup {id}
      BY <2>2, <2>3 DEF cancelInLoop
    <3>2. found' = Existing(found \cup {id[2]})
      BY <1>8 DEF cancelInLoop
    <3> QED BY <2>1, <3>1, <3>2 DEF Existing
  <2> HIDE DEF n
  <2>5. \A b \in Addrs : heap[b].sequence = n => b = e[2]
    BY <2>1 DEF OwnInv, Numbered, n
  <2>6. \A i \in QueuedAdds' : heap'[pendingFunctors'[i].addr].sequence \notin found' \cup fired'
    BY <1>3, <1>6, <2>4, <2>5 DEF HistoryInv
  <2>7. \A t \in expired' : heap'[t[2]].sequence \in found'
                              => <<t[2], heap'[t[2]].sequence>> \in cancelingTimers'
    <3> SUFFICES ASSUME NEW t \in expired, heap[t[2]].sequence \in found \cup {n}
                 PROVE  <<t[2], heap[t[2]].sequence>> \in cancelingTimers \cup {id}
      BY <1>4, <2>4
    <3>1. CASE heap[t[2]].sequence \in found
      BY <3>1 DEF HistoryInv
    <3>2. CASE heap[t[2]].sequence = n
      <4>1. t[2] = e[2]
        BY <1>2, <2>5, <3>2
      <4> QED BY <1>8, <4>1
    <3> QED BY <3>1, <3>2
  <2>8. CancelSticks'
    <3> SUFFICES ASSUME NEW t \in activeTimers', t[2] = n PROVE FALSE
      BY <1>1, <2>4 DEF HistoryInv, CancelSticks
    <3>1. t \in activeTimers /\ t[1] \in Addrs /\ t = <<t[1], t[2]>>
      BY <1>1, <1>2
    <3>2. t[1] = e[2]
      BY <2>5, <3>1 DEF OwnInv, WaitingTimers
    <3>3. t = id
      BY <1>8, <3>1, <3>2 DEF n
    <3> QED BY <2>2, <3>1, <3>3 DEF isActive
  <2>9. OneShotRunsOnce'
    BY <1>1, <1>3, <1>5 DEF HistoryInv, OneShotRunsOnce
  <2>10. \A s \in found' \cup fired' : s <= numCreated'
    BY <1>3, <2>1, <2>4 DEF HistoryInv, OwnInv, Numbered, n
  <2> QED BY <2>6, <2>7, <2>8, <2>9, <2>10 DEF HistoryInv
<1> QED BY <1>7, <1>8

\* A new timer's number is in no history, and it is not of the batch.
LEMMA HistoryCreate ==
    ASSUME OwnInv, HistoryInv, NEW a \in Addrs, heap[a] = Free, numCreated < MaxTimers,
           NEW when \in now .. MaxTime, NEW interval \in Intervals,
           heap' = [heap EXCEPT ![a] = NewTimer(when, interval)],
           numCreated' = numCreated + 1, UNCHANGED <<found, fired, expired, cancelingTimers>>
    PROVE  /\ NewTimer(when, interval).sequence \notin found \cup fired
           /\ heap'[a] = NewTimer(when, interval)
           /\ \A t \in activeTimers : heap'[t[1]] = heap[t[1]]
           /\ \A i \in QueuedAdds :
                 heap'[pendingFunctors[i].addr].sequence \notin found' \cup fired'
           /\ \A s \in found' \cup fired' : s <= numCreated'
           /\ \A t \in expired' : heap'[t[2]].sequence \in found'
                                    => <<t[2], heap'[t[2]].sequence>> \in cancelingTimers'
<1> DEFINE timer == NewTimer(when, interval)
<1>1. /\ timer.sequence = numCreated + 1
      /\ \A b \in Addrs : b # a => heap'[b] = heap[b]
      /\ \A u \in timers \cup expired : u[2] # a
      /\ \A i \in QueuedAdds : pendingFunctors[i].addr # a
  BY CreateTimer, Zenon
<1>2. /\ timers \subseteq Expirations \X Addrs /\ activeTimers \subseteq Addrs \X Sequences_
      /\ expired \subseteq Expirations \X Addrs /\ numCreated \in Nat
      /\ found \subseteq Nat /\ fired \subseteq Nat
      /\ heap \in [Addrs -> {Free} \cup TimerObjects]
  BY BoundsAssumption DEF OwnInv, TypeOK, TimerObjects, Sequences_
<1>3. heap'[a] = timer
  BY <1>2
<1> HIDE DEF timer
<1>4. \A s \in found \cup fired : s <= numCreated /\ s \in Nat
  BY <1>2 DEF HistoryInv
<1>5. timer.sequence \notin found \cup fired /\ \A s \in found' \cup fired' : s <= numCreated'
  BY <1>1, <1>2, <1>4
<1>6. \A t \in activeTimers : heap'[t[1]] = heap[t[1]]
  <2> SUFFICES ASSUME NEW t \in activeTimers PROVE t[1] # a
    BY <1>1, <1>2
  <2>1. <<heap[t[1]].expiration, t[1]>> \in timers
    BY DEF OwnInv, WaitingTimers
  <2>2. <<heap[t[1]].expiration, t[1]>>[2] # a
    BY <1>1, <2>1
  <2> QED BY <2>2
<1>7. \A i \in QueuedAdds : heap'[pendingFunctors[i].addr].sequence \notin found' \cup fired'
  BY <1>1, QueueFacts DEF HistoryInv
<1>8. \A t \in expired' : heap'[t[2]].sequence \in found'
                            => <<t[2], heap'[t[2]].sequence>> \in cancelingTimers'
  BY <1>1, <1>2 DEF HistoryInv
<1> QED BY <1>3, <1>5, <1>6, <1>7, <1>8 DEF timer

LEMMA HistoryInvariant == Spec => []HistoryInv
<1>1. Init => HistoryInv
  <2> SUFFICES ASSUME Init PROVE HistoryInv
    OBVIOUS
  <2>1. QueuedAdds = {}
    BY EmptySeq DEF Init, QueuedAdds
  <2> QED BY <2>1 DEF Init, HistoryInv, CancelSticks, OneShotRunsOnce
<1>2. OwnInv /\ HistoryInv /\ [Next]_vars => HistoryInv'
  <2> SUFFICES ASSUME OwnInv, HistoryInv, [Next]_vars PROVE HistoryInv'
    OBVIOUS
  <2>1. CASE UNCHANGED <<heap, numCreated, activeTimers, cancelingTimers, expired, pendingFunctors,
                         found, fired>>
    BY <2>1 DEF HistoryInv, QueuedAdds, CancelSticks, OneShotRunsOnce
  <2>2. ASSUME NEW a \in Addrs, NEW when \in now .. MaxTime, NEW interval \in Intervals,
               AddTimer(a, when, interval)
        PROVE  HistoryInv'
    <3> DEFINE timer == NewTimer(when, interval)
    <3>1. /\ heap[a] = Free /\ numCreated < MaxTimers
          /\ heap' = [heap EXCEPT ![a] = timer] /\ addTimerInLoop(a, timer)
          /\ numCreated' = numCreated + 1
          /\ UNCHANGED <<found, fired, expired, cancelingTimers, pendingFunctors>>
      BY <2>2 DEF AddTimer, NewTimer, cancelVars, batchVars, loopVars
    <3>2. /\ timer.sequence \notin found \cup fired
          /\ \A t \in activeTimers : heap'[t[1]] = heap[t[1]]
          /\ \A i \in QueuedAdds :
                heap'[pendingFunctors[i].addr].sequence \notin found' \cup fired'
          /\ \A s \in found' \cup fired' : s <= numCreated'
          /\ \A t \in expired' : heap'[t[2]].sequence \in found'
                                   => <<t[2], heap'[t[2]].sequence>> \in cancelingTimers'
      BY <3>1, HistoryCreate, Zenon
    <3> HIDE DEF timer
    <3>3. CancelSticks' /\ OneShotRunsOnce'
      BY <3>1, <3>2, HistoryInsert, Zenon
    <3>4. QueuedAdds' = QueuedAdds
      BY <3>1 DEF QueuedAdds
    <3> QED BY <3>1, <3>2, <3>3, <3>4 DEF HistoryInv
  <2>3. ASSUME NEW s \in Sequences_, Cancel(s) PROVE HistoryInv'
    <3>1. /\ idOf[s] \in Ids /\ cancelInLoop(idOf[s], s)
          /\ expired' = expired /\ numCreated' = numCreated /\ pendingFunctors' = pendingFunctors
      BY <2>3 DEF Cancel, OwnInv, TypeOK, batchVars, userVars, loopVars
    <3>2. \A i \in QueuedAdds' : \E j \in QueuedAdds : pendingFunctors'[i] = pendingFunctors[j]
      BY <3>1 DEF QueuedAdds
    <3> QED BY <3>1, <3>2, HistoryCancel
  <2>4. ASSUME NEW a \in Addrs, NEW when \in now .. MaxTime, NEW interval \in Intervals,
               ForeignAddTimer(a, when, interval)
        PROVE  HistoryInv'
    <3> DEFINE timer == NewTimer(when, interval)
    <3> DEFINE f == [op |-> "add", addr |-> a]
    <3>1. /\ heap[a] = Free /\ numCreated < MaxTimers
          /\ heap' = [heap EXCEPT ![a] = timer]
          /\ numCreated' = numCreated + 1
          /\ pendingFunctors' = Append(pendingFunctors, f)
          /\ UNCHANGED <<found, fired, expired, cancelingTimers, activeTimers>>
      BY <2>4 DEF ForeignAddTimer, NewTimer, cancelVars, batchVars
    <3>2. /\ timer.sequence \notin found \cup fired
          /\ heap'[a] = timer
          /\ \A t \in activeTimers : heap'[t[1]] = heap[t[1]]
          /\ \A i \in QueuedAdds :
                heap'[pendingFunctors[i].addr].sequence \notin found' \cup fired'
          /\ \A s \in found' \cup fired' : s <= numCreated'
          /\ \A t \in expired' : heap'[t[2]].sequence \in found'
                                   => <<t[2], heap'[t[2]].sequence>> \in cancelingTimers'
      BY <3>1, HistoryCreate, Zenon
    <3>3. f \in Functor /\ f.addr = a
      BY DEF Functor
    <3> HIDE DEF timer, f
    <3>4. \A i \in QueuedAdds' : \/ i \in QueuedAdds /\ pendingFunctors'[i] = pendingFunctors[i]
                                 \/ pendingFunctors'[i] = f
      BY <3>1, <3>3, QueueFacts DEF QueuedAdds
    <3>5. \A i \in QueuedAdds' : heap'[pendingFunctors'[i].addr].sequence \notin found' \cup fired'
      BY <3>1, <3>2, <3>3, <3>4
    <3>6. CancelSticks' /\ OneShotRunsOnce'
      BY <3>1, <3>2 DEF HistoryInv, CancelSticks, OneShotRunsOnce
    <3> QED BY <3>2, <3>5, <3>6 DEF HistoryInv
  <2>5. ASSUME NEW s \in Sequences_, ForeignCancel(s) PROVE HistoryInv'
    <3> DEFINE f == [op |-> "cancel", id |-> idOf[s], of |-> s]
    <3>1. /\ pendingFunctors' = Append(pendingFunctors, f)
          /\ UNCHANGED <<heap, numCreated, activeTimers, cancelingTimers, expired, found, fired>>
      BY <2>5 DEF ForeignCancel, queueVars, batchVars, userVars, cancelVars
    <3>2. f \in Functor /\ f.op = "cancel"
      BY DEF Functor, OwnInv, TypeOK
    <3> HIDE DEF f
    <3>3. \A i \in QueuedAdds' : i \in QueuedAdds /\ pendingFunctors'[i] = pendingFunctors[i]
      BY <3>1, <3>2, QueueFacts DEF QueuedAdds
    <3> QED BY <3>1, <3>3 DEF HistoryInv, CancelSticks, OneShotRunsOnce
  <2>6. CASE HandleRead
    <3>1. /\ UNCHANGED <<heap, numCreated, pendingFunctors, found, fired>>
          /\ activeTimers' \subseteq activeTimers /\ expired' \subseteq timers
      BY <2>6 DEF HandleRead, getExpired, userVars
    <3>2. \A t \in expired' : heap'[t[2]].sequence \notin found'
      <4> SUFFICES ASSUME NEW t \in timers PROVE heap[t[2]].sequence \notin found
        BY <3>1
      <4>1. <<t[2], heap[t[2]].sequence>> \in activeTimers
        BY DEF OwnInv, WaitingTimers
      <4>2. <<t[2], heap[t[2]].sequence>>[2] \notin found
        BY <4>1 DEF HistoryInv, CancelSticks
      <4> QED BY <4>2
    <3>3. CancelSticks' /\ OneShotRunsOnce'
      BY <3>1 DEF HistoryInv, CancelSticks, OneShotRunsOnce
    <3> QED BY <3>1, <3>2, <3>3 DEF HistoryInv, QueuedAdds
  <2>7. CASE RunTimer
    <3>1. UNCHANGED <<heap, numCreated, pendingFunctors, activeTimers, cancelingTimers, expired, found>>
      BY <2>7 DEF RunTimer, queueVars, userVars, cancelVars
    <3>2. PICK e \in due : fired' = fired \cup {heap[e[2]].sequence}
      BY <2>7 DEF RunTimer
    <3> DEFINE n == heap[e[2]].sequence
    <3>3. e \in expired /\ e[2] \in Addrs /\ heap[e[2]] # Free /\ n <= numCreated
      BY DEF OwnInv, TypeOK, BatchTimers, Numbered
    <3>4. \A b \in Addrs : heap[b].sequence = n => b = e[2]
      BY <3>3 DEF OwnInv, Numbered
    <3> HIDE DEF n
    <3>5. \A i \in QueuedAdds : heap[pendingFunctors[i].addr].sequence # n
      BY <3>3, <3>4, QueueFacts DEF OwnInv, QueuedTimers
    <3>6. \A t \in activeTimers : t[2] # n
      <4> SUFFICES ASSUME NEW t \in activeTimers, t[2] = n PROVE FALSE
        OBVIOUS
      <4>1. t[1] \in Addrs /\ heap[t[1]].sequence = n /\ <<heap[t[1]].expiration, t[1]>> \in timers
        BY DEF OwnInv, TypeOK, WaitingTimers
      <4>2. t[1] = e[2]
        BY <3>4, <4>1
      <4> QED BY <3>3, <4>1, <4>2 DEF OwnInv, BatchTimers
    <3>7. CancelSticks' /\ OneShotRunsOnce'
      BY <3>1, <3>2, <3>6 DEF HistoryInv, CancelSticks, OneShotRunsOnce, n
    <3>8. \A i \in QueuedAdds' : heap'[pendingFunctors'[i].addr].sequence \notin found' \cup fired'
      BY <3>1, <3>2, <3>5 DEF HistoryInv, QueuedAdds, n
    <3>9. \A s \in found' \cup fired' : s <= numCreated'
      BY <3>1, <3>2, <3>3 DEF HistoryInv, n
    <3> QED BY <3>1, <3>7, <3>8, <3>9 DEF HistoryInv
  <2>8. CASE Reset
    <3>1. /\ UNCHANGED <<pendingFunctors, numCreated>> /\ expired' = {}
          /\ found' \subseteq found /\ fired' \subseteq fired
      BY <2>8 DEF Reset, Existing, userVars
    <3>2. \A i \in QueuedAdds : /\ pendingFunctors[i].addr \in Addrs
                                /\ \A t \in expired : t[2] # pendingFunctors[i].addr
      BY QueueFacts DEF OwnInv, QueuedTimers
    <3>3. \A i \in QueuedAdds : heap'[pendingFunctors[i].addr] = heap[pendingFunctors[i].addr]
      BY <2>8, <3>2, ResetTimers
    <3>4. ASSUME NEW t \in activeTimers'
          PROVE  t[2] \notin found' /\ (t[2] \in fired' => heap'[t[1]].interval > 0)
      <4>1. CASE t \in activeTimers
        <5>1. t[1] \in Addrs /\ <<heap[t[1]].expiration, t[1]>> \in timers
          BY <4>1 DEF OwnInv, TypeOK, WaitingTimers
        <5>2. \A u \in expired : u[2] # t[1]
          BY <5>1 DEF OwnInv, BatchTimers
        <5>3. heap'[t[1]] = heap[t[1]]
          BY <2>8, <5>1, <5>2, ResetTimers
        <5> QED BY <3>1, <4>1, <5>3 DEF HistoryInv, CancelSticks, OneShotRunsOnce
      <4>2. CASE t \notin activeTimers
        <5>1. /\ t[1] \in Addrs /\ t = <<t[1], heap[t[1]].sequence>>
              /\ \E u \in expired : u[2] = t[1] /\ restarts(t[1])
          BY <2>8, <4>2, ResetTimers
        <5>2. heap'[t[1]].interval = heap[t[1]].interval
          BY <2>8, <5>1, ResetTimers
        <5>3. heap[t[1]].interval > 0 /\ <<t[1], heap[t[1]].sequence>> \notin cancelingTimers
          BY <5>1 DEF restarts
        <5>4. heap[t[1]].sequence \notin found
          BY <5>1, <5>3 DEF HistoryInv
        <5>5. t[2] = heap[t[1]].sequence
          BY <5>1
        <5> QED BY <3>1, <5>2, <5>3, <5>4, <5>5
      <4> QED BY <4>1, <4>2
    <3>5. \A i \in QueuedAdds' : heap'[pendingFunctors'[i].addr].sequence \notin found' \cup fired'
      BY <3>1, <3>3 DEF HistoryInv, QueuedAdds
    <3>6. \A s \in found' \cup fired' : s <= numCreated'
      BY <3>1 DEF HistoryInv
    <3> QED BY <3>1, <3>4, <3>5, <3>6 DEF HistoryInv, CancelSticks, OneShotRunsOnce
  <2>9. CASE RunFunctor
    <3> DEFINE functor == Head(pendingFunctors)
    <3>1. UNCHANGED <<expired, numCreated>>
      BY <2>9 DEF RunFunctor, batchVars, userVars
    <3>2. batch > 0 /\ pendingFunctors' = Tail(pendingFunctors)
      BY <2>9 DEF RunFunctor
    <3>3. functor = pendingFunctors[1] /\ functor \in Functor /\ 1 \in 1 .. Len(pendingFunctors)
      BY <3>2, QueueFacts
    <3>4. \A i \in QueuedAdds' : i + 1 \in QueuedAdds /\ pendingFunctors'[i] = pendingFunctors[i + 1]
      BY <3>2, QueueFacts DEF QueuedAdds
    <3> HIDE DEF functor
    <3>5. CASE functor.op = "add" /\ addTimerInLoop(functor.addr, heap[functor.addr])
               /\ UNCHANGED <<heap, cancelVars, fired>>
      <4>1. 1 \in QueuedAdds
        BY <3>3, <3>5 DEF QueuedAdds
      <4>2. heap[functor.addr].sequence \notin found \cup fired
        BY <3>3, <4>1 DEF HistoryInv
      <4>3. UNCHANGED <<heap, cancelingTimers, found, fired>>
        BY <3>5 DEF cancelVars
      <4>4. CancelSticks' /\ OneShotRunsOnce'
        BY <3>5, <4>2, <4>3, HistoryInsert
      <4>5. \A i \in QueuedAdds' : heap'[pendingFunctors'[i].addr].sequence \notin found' \cup fired'
        BY <3>4, <4>3 DEF HistoryInv
      <4> QED BY <3>1, <4>3, <4>4, <4>5 DEF HistoryInv
    <3>6. CASE functor.op = "cancel" /\ cancelInLoop(functor.id, functor.of)
      <4>1. functor.id \in Ids /\ functor.of \in Sequences_
        BY <3>3, <3>6 DEF Functor
      <4>2. \A i \in QueuedAdds' : \E j \in QueuedAdds : pendingFunctors'[i] = pendingFunctors[j]
        BY <3>4
      <4> QED BY <3>1, <3>6, <4>1, <4>2, HistoryCancel
    <3> QED BY <2>9, <3>5, <3>6 DEF RunFunctor, functor
  <2>10. CASE \/ Poll \/ AlarmFires \/ ClockTicks \/ CallbackReturns \/ EventsDone
              \/ FunctorsDone \/ UNCHANGED vars
              \/ \E sequence \in 0 .. MaxTimers : ForeignAddTimerReturns(sequence)
    BY <2>1, <2>10 DEF AlarmFires, ClockTicks, Poll, CallbackReturns, EventsDone, FunctorsDone,
            ForeignAddTimerReturns, vars, loopVars, queueVars, batchVars, userVars, cancelVars
  <2> QED BY <2>2, <2>3, <2>4, <2>5, <2>6, <2>7, <2>8, <2>9, <2>10
          DEF Next, LoopStep, UserCode, ForeignThread
<1> QED BY <1>1, <1>2, Ownership, PTL DEF Spec

\* A timer that a callback cancels while it is part of the running batch, its
\* own callback included, is not scheduled again by reset() (TimerQueue.cc:171,
\* 229-234).
THEOREM CancelInBatchSticks == Spec => []CancelSticks
<1>1. HistoryInv => CancelSticks
  BY DEF HistoryInv
<1> QED BY <1>1, HistoryInvariant, PTL

\* A one-shot timer that has run is never scheduled again (TimerQueue.cc:230-240).
THEOREM OneShotsRunOnce == Spec => []OneShotRunsOnce
<1>1. HistoryInv => OneShotRunsOnce
  BY DEF HistoryInv
<1> QED BY <1>1, HistoryInvariant, PTL
=============================================================================
