-------------------------- MODULE EventLoopProofs --------------------------
(***************************************************************************)
(* Proofs about EventLoop for every set of foreign threads and every set   *)
(* of functors: type correctness, no lost wakeup, and the refinement of    *)
(* FunctorQueue.                                                           *)
(***************************************************************************)
EXTENDS EventLoop, SequenceTheorems, TLAPS

-----------------------------------------------------------------------------
(* Sequences: what the swap and the batch do to the queue as a whole.      *)

\* Appending behind the pending part appends to the whole queue.
LEMMA AppendConcat ==
    ASSUME NEW S, NEW s \in Seq(S), NEW t \in Seq(S), NEW e \in S
    PROVE  s \o Append(t, e) = Append(s \o t, e)
<1>1. Append(t, e) = t \o <<e>> /\ Append(s \o t, e) = (s \o t) \o <<e>>
  BY AppendIsConcat, ConcatProperties
<1>2. <<e>> \in Seq(S)
  OBVIOUS
<1> QED BY <1>1, <1>2, ConcatAssociative

\* Taking the first functor of the batch takes the first of the whole queue.
LEMMA HeadTailConcat ==
    ASSUME NEW S, NEW s \in Seq(S), NEW t \in Seq(S), s # <<>>
    PROVE  /\ s \o t # <<>>
           /\ Head(s \o t) = Head(s)
           /\ Tail(s \o t) = Tail(s) \o t
<1>1. /\ Head(s) \in S /\ Tail(s) \in Seq(S)
      /\ Len(Tail(s)) = Len(s) - 1
      /\ \A i \in 1 .. Len(Tail(s)) : Tail(s)[i] = s[i + 1]
      /\ Len(s) \in Nat /\ Len(s) > 0 /\ Head(s) = s[1]
  BY HeadTailProperties, EmptySeq, LenProperties
<1>2. /\ s \o t \in Seq(S)
      /\ Len(s \o t) = Len(s) + Len(t)
      /\ \A i \in 1 .. Len(s) + Len(t) :
            (s \o t)[i] = IF i <= Len(s) THEN s[i] ELSE t[i - Len(s)]
      /\ Len(t) \in Nat
  BY ConcatProperties, LenProperties
<1>3. s \o t # <<>> /\ Head(s \o t) = Head(s)
  BY <1>1, <1>2
<1>4. Tail(s \o t) = Tail(s) \o t
  <2>1. /\ Tail(s \o t) \in Seq(S)
        /\ Len(Tail(s \o t)) = Len(s) + Len(t) - 1
        /\ \A i \in 1 .. Len(Tail(s \o t)) : Tail(s \o t)[i] = (s \o t)[i + 1]
    BY <1>2, <1>3, HeadTailProperties
  <2>2. /\ Tail(s) \o t \in Seq(S)
        /\ Len(Tail(s) \o t) = Len(s) - 1 + Len(t)
        /\ \A i \in 1 .. (Len(s) - 1 + Len(t)) :
              (Tail(s) \o t)[i] = IF i <= Len(s) - 1 THEN Tail(s)[i] ELSE t[i - (Len(s) - 1)]
    BY <1>1, <1>2, ConcatProperties
  <2>3. ASSUME NEW i \in 1 .. Len(Tail(s \o t))
        PROVE  Tail(s \o t)[i] = (Tail(s) \o t)[i]
    BY <1>1, <1>2, <2>1, <2>2, SMT
  <2> QED BY <1>1, <1>2, <2>1, <2>2, <2>3, SeqEqual
<1> QED BY <1>3, <1>4

\* The elements of a concatenation are those of its parts.
LEMMA ElementsConcat ==
    ASSUME NEW S, NEW s \in Seq(S), NEW t \in Seq(S), NEW e,
           e \in Elements(s \o t)
    PROVE  e \in Elements(s) \cup Elements(t)
<1>1. /\ DOMAIN (s \o t) = 1 .. Len(s) + Len(t)
      /\ DOMAIN s = 1 .. Len(s) /\ DOMAIN t = 1 .. Len(t)
      /\ Len(s) \in Nat /\ Len(t) \in Nat
      /\ \A i \in 1 .. Len(s) + Len(t) :
            (s \o t)[i] = IF i <= Len(s) THEN s[i] ELSE t[i - Len(s)]
  BY ConcatProperties, LenProperties
<1>2. PICK i \in 1 .. Len(s) + Len(t) : e = (s \o t)[i]
  BY <1>1 DEF Elements
<1>3. CASE i <= Len(s)
  BY <1>1, <1>2, <1>3 DEF Elements
<1>4. CASE i > Len(s)
  <2>1. i - Len(s) \in DOMAIN t /\ e = t[i - Len(s)]
    BY <1>1, <1>2, <1>4
  <2> QED BY <2>1 DEF Elements
<1> QED BY <1>1, <1>2, <1>3, <1>4

-----------------------------------------------------------------------------
(* Type correctness.                                                       *)

\* What the steps of the loop do to its vectors keeps them vectors of functors.
LEMMA SeqOps ==
    ASSUME NEW S, NEW s \in Seq(S), NEW e \in S
    PROVE  /\ Append(s, e) \in Seq(S)
           /\ Append(s, e) # <<>>
           /\ s # <<>> => Head(s) \in S /\ Tail(s) \in Seq(S)
<1>1. Append(s, e) \in Seq(S) /\ Append(s, e) # <<>>
  BY AppendProperties
<1>2. s # <<>> => Head(s) \in S /\ Tail(s) \in Seq(S)
  BY HeadTailProperties
<1> QED BY <1>1, <1>2

\* Every variable of the loop and of its callers keeps its type, whatever the
\* threads do (EventLoop.h: the members of class EventLoop).
THEOREM TypeCorrect == Spec => []TypeOK
<1>1. Init => TypeOK
  BY EmptySeq DEF Init, TypeOK, LoopPc
<1>2. TypeOK /\ [Next]_vars => TypeOK'
  <2> SUFFICES ASSUME TypeOK, [Next]_vars PROVE TypeOK'
    OBVIOUS
  <2> USE DEF TypeOK
  <2>1. CASE EnterLoop \/ ResetQuit \/ CheckQuit
    BY <2>1 DEF EnterLoop, ResetQuit, CheckQuit, LoopPc
  <2>2. CASE PollSignalled \/ PollIo \/ PollTimeout
    BY <2>2 DEF PollSignalled, PollIo, PollTimeout, PollReturns, LoopPc, Channels
  <2>3. CASE HandleWakeup \/ HandleIo \/ HandlerReturns
    BY <2>3 DEF HandleWakeup, HandleIo, HandlerReturns, LoopPc, DrainedWakeupFd
  <2>4. CASE BeginPendingFunctors \/ FunctorReturns \/ EndPendingFunctors
    BY <2>4 DEF BeginPendingFunctors, FunctorReturns, EndPendingFunctors, LoopPc
  <2>5. CASE SwapPendingFunctors
    BY <2>5, EmptySeq DEF SwapPendingFunctors, LeftAfterSwap, LoopPc
  <2>6. CASE CallFunctor
    <3>1. Head(functors) \in Functors /\ Tail(functors) \in Seq(Functors)
      BY <2>6, HeadTailProperties DEF CallFunctor
    <3>2. Append(ran, Head(functors)) \in Seq(Functors)
      BY <3>1, SeqOps
    <3> QED BY <2>6, <3>1, <3>2 DEF CallFunctor, LoopPc
  <2>7. CASE LocalQuit
    BY <2>7 DEF LocalQuit
  <2>8. ASSUME NEW f \in Functors, LocalQueueInLoop(f) \/ LocalRunInLoop(f)
        PROVE  TypeOK'
    <3>1. Append(pendingFunctors, f) \in Seq(Functors) /\ Append(ran, f) \in Seq(Functors)
      BY SeqOps
    <3> QED BY <2>8, <3>1 DEF LocalQueueInLoop, LocalRunInLoop, PushBack, NeedsWakeup
  <2>9. ASSUME NEW c \in Callers, Quit(c) \/ Wakeup(c)
        PROVE  TypeOK'
    BY <2>9 DEF Quit, Wakeup, AfterQuit
  <2>10. ASSUME NEW c \in Callers, NEW f \in Functors, QueueInLoop(c, f)
         PROVE  TypeOK'
    <3>1. Append(pendingFunctors, f) \in Seq(Functors)
      BY SeqOps
    <3> QED BY <2>10, <3>1 DEF QueueInLoop, PushBack, NeedsWakeup
  <2>11. CASE UNCHANGED vars
    BY <2>11 DEF vars
  <2> QED
    BY <2>1, <2>2, <2>3, <2>4, <2>5, <2>6, <2>7, <2>8, <2>9, <2>10, <2>11
    DEF Next, LoopStep, UserCode, CallerStep
<1> QED BY <1>1, <1>2, PTL DEF Spec

-----------------------------------------------------------------------------
(* No lost wakeup.  NoLostWakeup alone is not inductive: it says nothing   *)
(* of the moment before poll().  WakeupInv follows the pending functors    *)
(* through the whole iteration.                                            *)

\* Between a batch and the next one the loop never forgets a pending functor
\* (EventLoop.cc, queueInLoop() against doPendingFunctors() and handleRead()).
THEOREM WakeupInvariant == Spec => []WakeupInv
<1>1. Init => WakeupInv
  BY DEF Init, WakeupInv
<1>2. TypeOK /\ TypeOK' /\ WakeupInv /\ [Next]_vars => WakeupInv'
  <2> SUFFICES ASSUME TypeOK, TypeOK', WakeupInv, [Next]_vars PROVE WakeupInv'
    OBVIOUS
  <2> USE DEF WakeupInv, Signalled
  <2>1. CASE EnterLoop \/ ResetQuit \/ CheckQuit
    BY <2>1 DEF EnterLoop, ResetQuit, CheckQuit
  <2>2. CASE PollSignalled \/ PollIo \/ PollTimeout
    BY <2>2 DEF PollSignalled, PollIo, PollTimeout, PollReturns
  <2>3. CASE HandleWakeup \/ HandleIo \/ HandlerReturns
    BY <2>3 DEF HandleWakeup, HandleIo, HandlerReturns
  <2>4. CASE BeginPendingFunctors \/ FunctorReturns \/ EndPendingFunctors
    BY <2>4 DEF BeginPendingFunctors, FunctorReturns, EndPendingFunctors
  <2>5. CASE SwapPendingFunctors
    BY <2>5 DEF SwapPendingFunctors, LeftAfterSwap
  <2>6. CASE CallFunctor
    BY <2>6 DEF CallFunctor
  <2>7. CASE LocalQuit
    BY <2>7 DEF LocalQuit
  <2>8. ASSUME NEW f \in Functors, LocalQueueInLoop(f) \/ LocalRunInLoop(f)
        PROVE  WakeupInv'
    <3>1. CASE LocalRunInLoop(f)
      BY <3>1 DEF LocalRunInLoop
    <3>2. CASE LocalQueueInLoop(f)
      <4>1. pc = "idle" => early'
        BY <3>2 DEF LocalQueueInLoop
      <4>2. pc = "functor" => wakeupReadable'
        BY <3>2, Zenon DEF LocalQueueInLoop, NeedsWakeup
      <4> QED BY <3>2, <4>1, <4>2 DEF LocalQueueInLoop, InUserCode
    <3> QED BY <2>8, <3>1, <3>2
  <2>9. ASSUME NEW c \in Callers, Quit(c) \/ Wakeup(c)
        PROVE  WakeupInv'
    BY <2>9 DEF Quit, Wakeup, AfterQuit, TypeOK
  <2>10. ASSUME NEW c \in Callers, NEW f \in Functors, QueueInLoop(c, f)
         PROVE  WakeupInv'
    BY <2>10 DEF QueueInLoop, NeedsWakeup, TypeOK
  <2>11. CASE UNCHANGED vars
    BY <2>11 DEF vars
  <2> QED
    BY <2>1, <2>2, <2>3, <2>4, <2>5, <2>6, <2>7, <2>8, <2>9, <2>10, <2>11
    DEF Next, LoopStep, UserCode, CallerStep
<1> QED BY <1>1, <1>2, TypeCorrect, PTL DEF Spec

\* The loop never blocks in poll() over a functor nobody will wake it up for.
THEOREM NoWakeupLost == Spec => []NoLostWakeup
<1>1. WakeupInv => NoLostWakeup
  BY DEF WakeupInv, NoLostWakeup
<1> QED BY <1>1, WakeupInvariant, PTL

\* The loop never blocks in poll() over a quit() nobody will wake it up for: it
\* enters poll() only after reading quit_ (EventLoop.cc:112), and whoever sets
\* quit_ meanwhile writes the eventfd next, which only the loop itself drains,
\* outside poll().
THEOREM NoQuitLost == Spec => []NoLostQuit
<1>1. Init => NoLostQuit
  BY DEF Init, NoLostQuit
<1>2. TypeOK /\ NoLostQuit /\ [Next]_vars => NoLostQuit'
  <2> SUFFICES ASSUME TypeOK, NoLostQuit, [Next]_vars PROVE NoLostQuit'
    OBVIOUS
  <2> USE DEF NoLostQuit
  <2>1. CASE EnterLoop \/ ResetQuit \/ CheckQuit
    BY <2>1 DEF EnterLoop, ResetQuit, CheckQuit
  <2>2. CASE \/ PollSignalled \/ PollIo \/ PollTimeout \/ HandleIo \/ HandlerReturns
             \/ BeginPendingFunctors \/ SwapPendingFunctors \/ CallFunctor
             \/ FunctorReturns \/ EndPendingFunctors
    BY <2>2 DEF PollSignalled, PollIo, PollTimeout, PollReturns, HandleIo, HandlerReturns,
       BeginPendingFunctors, SwapPendingFunctors, CallFunctor, FunctorReturns,
       EndPendingFunctors
  <2>3. CASE HandleWakeup \/ LocalQuit
    BY <2>3 DEF HandleWakeup, LocalQuit, InUserCode
  <2>4. ASSUME NEW f \in Functors, LocalQueueInLoop(f) \/ LocalRunInLoop(f)
        PROVE  NoLostQuit'
    BY <2>4 DEF LocalQueueInLoop, LocalRunInLoop, InUserCode
  <2>5. ASSUME NEW c \in Callers, Quit(c)
        PROVE  NoLostQuit'
    BY <2>5 DEF Quit, AfterQuit, TypeOK
  <2>6. ASSUME NEW c \in Callers, Wakeup(c)
        PROVE  NoLostQuit'
    BY <2>6 DEF Wakeup
  <2>7. ASSUME NEW c \in Callers, NEW f \in Functors, QueueInLoop(c, f)
        PROVE  NoLostQuit'
    BY <2>7 DEF QueueInLoop, TypeOK
  <2>8. CASE UNCHANGED vars
    BY <2>8 DEF vars
  <2> QED
    BY <2>1, <2>2, <2>3, <2>4, <2>5, <2>6, <2>7, <2>8
    DEF Next, LoopStep, UserCode, CallerStep
<1> QED BY <1>1, <1>2, TypeCorrect, PTL DEF Spec

-----------------------------------------------------------------------------
(* The refinement.                                                         *)

\* A functor the loop does not hold is not accepted in the abstract queue.
LEMMA FreshIsNotAccepted ==
    ASSUME TypeOK, NEW f, Fresh(f)
    PROVE  f \notin FQ!Accepted
<1>1. f \notin Elements(functors \o pendingFunctors)
  BY ElementsConcat DEF TypeOK, Fresh
<1> QED BY <1>1 DEF Fresh, Elements, FQ!Accepted

\* loop() implements the at-most-once FIFO executor: the swap moves functors
\* from one vector to the other without changing their order, and every other
\* step of any thread submits one, executes one or changes neither
\* (EventLoop.cc, queueInLoop() and doPendingFunctors()).
THEOREM Refinement == Spec => RefinesFunctorQueue
<1>1. Init => FQ!Init
  BY ConcatEmptySeq, EmptySeq DEF Init, FQ!Init
<1>2. TypeOK /\ WakeupInv /\ [Next]_vars => [FQ!Next]_(FQ!vars)
  <2> SUFFICES ASSUME TypeOK, WakeupInv, [Next]_vars
               PROVE  [FQ!Next]_(FQ!vars)
    OBVIOUS
  <2>1. CASE UNCHANGED <<pendingFunctors, functors, ran>>
    BY <2>1 DEF FQ!vars
  <2>2. CASE SwapPendingFunctors
    <3>1. functors = <<>>
      BY <2>2 DEF SwapPendingFunctors, WakeupInv
    <3>2. (functors \o pendingFunctors)' = functors \o pendingFunctors
      BY <2>2, <3>1, ConcatEmptySeq DEF SwapPendingFunctors, LeftAfterSwap, TypeOK
    <3> QED BY <2>2, <3>2 DEF SwapPendingFunctors, FQ!vars
  <2>3. CASE CallFunctor
    <3>1. /\ functors \o pendingFunctors # <<>>
          /\ Head(functors \o pendingFunctors) = Head(functors)
          /\ Tail(functors \o pendingFunctors) = Tail(functors) \o pendingFunctors
      BY <2>3, HeadTailConcat DEF CallFunctor, TypeOK
    <3>2. FQ!RunNext
      BY <2>3, <3>1 DEF CallFunctor, FQ!RunNext
    <3> QED BY <3>2 DEF FQ!Next
  <2>4. ASSUME NEW f \in Functors,
               Fresh(f), pendingFunctors' = PushBack(pendingFunctors, f),
               UNCHANGED <<functors, ran>>
        PROVE  FQ!Next
    <3>1. (functors \o pendingFunctors)' = Append(functors \o pendingFunctors, f)
      BY <2>4, AppendConcat DEF PushBack, TypeOK
    <3>2. FQ!Submit(f)
      BY <2>4, <3>1, FreshIsNotAccepted DEF FQ!Submit
    <3> QED BY <3>2 DEF FQ!Next
  <2>5. ASSUME NEW f \in Functors, LocalRunInLoop(f)
        PROVE  FQ!Next
    <3>1. FQ!RunDirect(f)
      BY <2>5, FreshIsNotAccepted DEF LocalRunInLoop, FQ!RunDirect
    <3> QED BY <3>1 DEF FQ!Next
  <2>6. CASE EnterLoop \/ LoopStep \/ PollIo \/ PollTimeout
    <3>1. ASSUME ~SwapPendingFunctors, ~CallFunctor
          PROVE  UNCHANGED <<pendingFunctors, functors, ran>>
      BY <2>6, <3>1
      DEF LoopStep, EnterLoop, ResetQuit, CheckQuit, PollSignalled, PollIo, PollTimeout,
          PollReturns, HandleWakeup, HandleIo, HandlerReturns, BeginPendingFunctors,
          FunctorReturns, EndPendingFunctors
    <3> QED BY <2>1, <2>2, <2>3, <3>1
  <2>7. CASE UserCode
    BY <2>1, <2>4, <2>5, <2>7 DEF UserCode, LocalQuit, LocalQueueInLoop
  <2>8. ASSUME NEW c \in Callers, CallerStep(c)
        PROVE  [FQ!Next]_(FQ!vars)
    BY <2>1, <2>4, <2>8 DEF CallerStep, Quit, Wakeup, QueueInLoop
  <2>9. CASE UNCHANGED vars
    BY <2>1, <2>9 DEF vars
  <2> QED BY <2>6, <2>7, <2>8, <2>9 DEF Next
<1> QED BY <1>1, <1>2, TypeCorrect, WakeupInvariant, PTL DEF Spec, RefinesFunctorQueue, FQ!Spec
=============================================================================
