----------------------- MODULE EventLoopThreadProofs -----------------------
(***************************************************************************)
(* Proofs about EventLoopThread: the loop that runs in the thread is a     *)
(* behaviour of EventLoop with the owner as its only foreign thread, so    *)
(* what EventLoopProofs shows holds of it; and an owner that waits until   *)
(* the loop is known to run destroys the object safely.                    *)
(***************************************************************************)
EXTENDS EventLoopThread, SequenceTheorems, TLAPS

ELP == INSTANCE EventLoopProofs WITH Callers <- {Owner}

-----------------------------------------------------------------------------
(* The thread runs a loop of module EventLoop.                             *)

(* The loop starts as EventLoop's constructor leaves it.                   *)
LEMMA LoopInit == Init => ELP!Init
  BY DEF Init, EL!Init, ELP!Init

(* An iteration step of the thread is one of loop() (EventLoop.cc:104-130).*)
LEMMA LoopStepIs == EL!LoopStep => ELP!LoopStep
<1>1. EL!ResetQuit => ELP!ResetQuit
  BY DEF EL!ResetQuit, ELP!ResetQuit
<1>2. EL!CheckQuit => ELP!CheckQuit
  BY DEF EL!CheckQuit, ELP!CheckQuit
<1>3. EL!PollSignalled => ELP!PollSignalled
  BY DEF EL!PollSignalled, ELP!PollSignalled, EL!PollReturns, ELP!PollReturns, EL!Channels, ELP!Channels
<1>4. EL!HandleWakeup => ELP!HandleWakeup
  BY DEF EL!HandleWakeup, ELP!HandleWakeup, EL!DrainedWakeupFd, ELP!DrainedWakeupFd
<1>5. EL!HandleIo => ELP!HandleIo
  BY DEF EL!HandleIo, ELP!HandleIo
<1>6. EL!HandlerReturns => ELP!HandlerReturns
  BY DEF EL!HandlerReturns, ELP!HandlerReturns
<1>7. EL!BeginPendingFunctors => ELP!BeginPendingFunctors
  BY DEF EL!BeginPendingFunctors, ELP!BeginPendingFunctors
<1>8. EL!SwapPendingFunctors => ELP!SwapPendingFunctors
  BY DEF EL!SwapPendingFunctors, ELP!SwapPendingFunctors, EL!LeftAfterSwap, ELP!LeftAfterSwap
<1>9. EL!CallFunctor => ELP!CallFunctor
  BY DEF EL!CallFunctor, ELP!CallFunctor
<1>10. EL!FunctorReturns => ELP!FunctorReturns
  BY DEF EL!FunctorReturns, ELP!FunctorReturns
<1>11. EL!EndPendingFunctors => ELP!EndPendingFunctors
  BY DEF EL!EndPendingFunctors, ELP!EndPendingFunctors
<1> QED BY <1>1, <1>2, <1>3, <1>4, <1>5, <1>6, <1>7, <1>8, <1>9, <1>10, <1>11
       DEF EL!LoopStep, ELP!LoopStep

(* What the thread and the owner do to the loop are steps of the loop or   *)
(* of a foreign thread (queueInLoop(), quit(), wakeup()).                  *)
LEMMA LoopSteps ==
    ASSUME [Next]_vars
    PROVE  [ELP!Next]_(ELP!vars)
<1>1. CASE UNCHANGED loopVars
  BY <1>1 DEF loopVars, ELP!vars
<1>2. CASE \E f \in Functors : EL!LocalQueueInLoop(f)
  <2>1. ELP!UserCode
    BY <1>2 DEF ELP!UserCode, EL!LocalQueueInLoop, EL!InUserCode, EL!Fresh, EL!Elements,
                EL!PushBack, EL!NeedsWakeup, ELP!LocalQueueInLoop, ELP!InUserCode,
                ELP!Fresh, ELP!Elements, ELP!PushBack, ELP!NeedsWakeup
  <2> QED BY <2>1, Zenon DEF ELP!Next
<1>3. CASE EL!EnterLoop
  <2>1. ELP!EnterLoop
    BY <1>3 DEF EL!EnterLoop, ELP!EnterLoop
  <2> QED BY <2>1, Zenon DEF ELP!Next
<1>4. CASE EL!LocalQuit
  <2>1. ELP!UserCode
    BY <1>4 DEF ELP!UserCode, EL!LocalQuit, ELP!LocalQuit, EL!InUserCode, ELP!InUserCode
  <2> QED BY <2>1, Zenon DEF ELP!Next
<1>5. CASE EL!LoopStep
  <2>1. ELP!LoopStep
    BY <1>5, LoopStepIs
  <2> QED BY <2>1, Zenon DEF ELP!Next
<1>6. CASE EL!PollIo \/ EL!PollTimeout
  <2>1. ELP!PollIo \/ ELP!PollTimeout
    BY <1>6 DEF EL!PollIo, ELP!PollIo, EL!PollTimeout, ELP!PollTimeout, EL!PollReturns,
                ELP!PollReturns
  <2> QED BY <2>1, Zenon DEF ELP!Next
<1>7. CASE EL!Quit(Owner) \/ EL!Wakeup(Owner) \/ \E f \in Functors : EL!QueueInLoop(Owner, f)
  <2>1. ELP!CallerStep(Owner)
    <3>1. EL!Quit(Owner) => ELP!Quit(Owner)
      BY DEF EL!Quit, ELP!Quit, EL!AfterQuit, ELP!AfterQuit
    <3>2. EL!Wakeup(Owner) => ELP!Wakeup(Owner)
      BY DEF EL!Wakeup, ELP!Wakeup
    <3>3. ASSUME NEW f \in Functors
          PROVE  EL!QueueInLoop(Owner, f) => ELP!QueueInLoop(Owner, f)
      BY DEF EL!QueueInLoop, ELP!QueueInLoop, EL!Fresh, EL!Elements, EL!PushBack,
             EL!NeedsWakeup, ELP!Fresh, ELP!Elements, ELP!PushBack, ELP!NeedsWakeup
    <3> QED BY <1>7, <3>1, <3>2, <3>3, Zenon DEF ELP!CallerStep
  <2>2. \E c \in {Owner} : ELP!CallerStep(c)
    BY <2>1, Zenon
  <2> QED BY <2>2, Zenon DEF ELP!Next
<1>8. CASE UNCHANGED vars
  BY <1>1, <1>8 DEF vars
<1>9. CASE WorkerStep
  BY <1>1, <1>3, <1>4, <1>5, <1>9 DEF WorkerStep, WorkerStarts, ConstructLoop,
     InitCallbackReturns, Publish, EnterLoop, FunctorQuits, LoopRuns, Unpublish,
     UnlockMutex, DestructLoop
<1>10. CASE OwnerCallStep
  BY <1>1, <1>7, <1>10 DEF OwnerCallStep, LatchOpens, TestLoopPtr, OwnerWakesLoop,
     DestructorTests, DestructorQuits, DestructorWakesLoop, Join
<1>11. CASE InitCallbackQueues
  BY <1>2, <1>11 DEF InitCallbackQueues
<1>12. CASE PollEnds
  BY <1>6, <1>12 DEF PollEnds
<1>13. CASE StartLoop \/ SpuriousWakeup \/ BeginDestructor
  BY <1>1, <1>13 DEF StartLoop, SpuriousWakeup, BeginDestructor
<1>14. CASE OwnerRunsInLoop
  BY <1>7, <1>14 DEF OwnerRunsInLoop
<1>15. CASE InitCallbackQuits
  BY <1>4, <1>15 DEF InitCallbackQuits
<1> QED BY <1>8, <1>9, <1>10, <1>11, <1>12, <1>13, <1>14, <1>15 DEF Next

(* The loop on the thread's stack behaves as EventLoop says, with the      *)
(* owner as its foreign thread: EventLoopThread adds no step to the loop   *)
(* that EventLoop does not have.                                           *)
THEOREM RunsAnEventLoop == Spec => ELP!Spec
  BY LoopInit, LoopSteps, PTL DEF Spec, ELP!Spec

(* What the owner tells the loop is not lost in poll(): while a functor of *)
(* runInLoop() waits or quit_ is set there, the loop is or will be woken   *)
(* up.  A quit() of ~EventLoopThread() that comes before quit_ = false     *)
(* (EventLoop.cc:109) is not in quit_ any more when the loop gets to       *)
(* poll(); that one is lost, as the run eventloopthread_dtor shows.        *)
THEOREM OwnerIsHeard == Spec => [](ELP!NoLostWakeup /\ ELP!NoLostQuit)
  BY RunsAnEventLoop, ELP!NoWakeupLost, ELP!NoQuitLost, PTL

-----------------------------------------------------------------------------
(* The phases of the owner and of the thread.                              *)

\* The latch is counted down once and loop_ is set while the loop may run.
PhaseInv ==
    /\ workerPc \in WorkerPc /\ ownerPc \in OwnerPc
    /\ latch = (IF workerPc \in {"none", "start"} THEN 1 ELSE 0)
    /\ loopPtr \in BOOLEAN /\ (loopPtr <=> workerPc \in {"enter", "loop"})
    /\ ownerPc = "new" => workerPc = "none"
    /\ workerPc = "none" => ownerPc \in {"new", "dtorTest", "destroyed"}
    /\ ownerPc = "started" => workerPc \in {"enter", "loop", "unlock", "destruct", "ended"}

(* Every step keeps the phases.                                            *)
LEMMA PhaseStep ==
    ASSUME PhaseInv, [Next]_vars
    PROVE  PhaseInv'
<1> USE DEF PhaseInv
<1>1. CASE UNCHANGED <<ownerPc, workerPc, latch, loopPtr>>
  BY <1>1
<1>2. CASE WorkerStarts
  BY <1>2 DEF WorkerStarts, countDown, WorkerPc
<1>3. CASE ConstructLoop \/ InitCallbackReturns \/ EnterLoop \/ UnlockMutex \/ DestructLoop
  BY <1>3 DEF ConstructLoop, InitCallbackReturns, EnterLoop, UnlockMutex, DestructLoop, WorkerPc
<1>4. CASE Publish
  BY <1>4 DEF Publish, Notified, WorkerPc, OwnerPc
<1>5. CASE Unpublish
  BY <1>5 DEF Unpublish, ClearedAtExit, WorkerPc
<1>6. CASE LatchOpens \/ SpuriousWakeup \/ BeginDestructor
  BY <1>6 DEF LatchOpens, SpuriousWakeup, BeginDestructor, OwnerPc
<1>7. CASE TestLoopPtr
  BY <1>7 DEF TestLoopPtr, OwnerPc
<1>8. CASE StartLoop
  BY <1>8 DEF StartLoop, OwnerPc, WorkerPc
<1>9. CASE DestructorTests \/ DestructorQuits \/ DestructorWakesLoop \/ Join
  BY <1>9 DEF DestructorTests, DestructorQuits, DestructorWakesLoop, Join, OwnerPc,
              QuitsAndJoins, AfterDtorWakeup
<1>10. \/ UNCHANGED <<ownerPc, workerPc, latch, loopPtr>>
       \/ WorkerStarts \/ ConstructLoop \/ InitCallbackReturns \/ EnterLoop \/ UnlockMutex
       \/ DestructLoop \/ Publish \/ Unpublish \/ LatchOpens \/ SpuriousWakeup
       \/ BeginDestructor \/ TestLoopPtr \/ StartLoop
       \/ DestructorTests \/ DestructorQuits \/ DestructorWakesLoop \/ Join
  BY DEF Next, WorkerStep, OwnerCallStep, vars, threadVars, InitCallbackQueues,
         InitCallbackQuits, PollEnds, FunctorQuits, LoopRuns, OwnerRunsInLoop, OwnerWakesLoop
<1> QED BY <1>1, <1>2, <1>3, <1>4, <1>5, <1>6, <1>7, <1>8, <1>9, <1>10

(* startLoop(), the latch and loop_ go together with the thread's place.   *)
THEOREM PhasesAlways == Spec => []PhaseInv
<1>1. Init => PhaseInv
  BY DEF Init, PhaseInv, WorkerPc, OwnerPc
<1> QED BY <1>1, PhaseStep, PTL DEF Spec

\* Only the two kinds of misuse are recorded.
MisuseOK == misuse \subseteq Misuses

(* Every variable of the loop, of the owner and of the thread keeps its    *)
(* type; the latch in particular is counted down exactly once.             *)
THEOREM TypeCorrect == Spec => []TypeOK
<1>1. Spec => []ELP!TypeOK
  BY RunsAnEventLoop, ELP!TypeCorrect, PTL
<1>2. Init => MisuseOK
  BY DEF Init, MisuseOK
<1>3. MisuseOK /\ [Next]_vars => MisuseOK'
  <2> SUFFICES ASSUME MisuseOK, [Next]_vars PROVE MisuseOK'
    OBVIOUS
  <2>1. \/ misuse' = misuse \/ misuse' = misuse \cup {} \/ misuse' = misuse \cup {"mutex"}
        \/ misuse' = misuse \cup {"quit"}
    BY DEF Next, WorkerStep, OwnerCallStep, vars, threadVars, InitCallbackQueues,
           InitCallbackQuits, PollEnds, FunctorQuits, LoopRuns, OwnerRunsInLoop, OwnerWakesLoop, WorkerStarts,
           ConstructLoop, InitCallbackReturns, EnterLoop, UnlockMutex, DestructLoop, Publish,
           Unpublish, LatchOpens, SpuriousWakeup, BeginDestructor, TestLoopPtr, StartLoop,
           DestructorTests, DestructorQuits, DestructorWakesLoop, Join, MisusedIf
  <2> QED BY <2>1 DEF MisuseOK, Misuses
<1>4. ELP!TypeOK /\ PhaseInv /\ MisuseOK => TypeOK
  <2> SUFFICES ASSUME ELP!TypeOK, PhaseInv, MisuseOK PROVE TypeOK
    OBVIOUS
  <2>1. EL!TypeOK
    BY DEF EL!TypeOK, ELP!TypeOK, EL!LoopPc, ELP!LoopPc, EL!Channels, ELP!Channels
  <2>2. latch \in {0, 1}
    BY DEF PhaseInv
  <2> QED BY <2>1, <2>2 DEF TypeOK, PhaseInv, MisuseOK
<1> QED BY <1>1, <1>2, <1>3, <1>4, PhasesAlways, PTL DEF Spec

-----------------------------------------------------------------------------
(* The destructor, with a patient owner.                                   *)

BeforeLoop == workerPc \in {"none", "start", "construct", "callback", "publish", "enter"}

\* Before loop() is entered nothing has run; the loop ends only after quit().
LoopInv ==
    /\ BeforeLoop => pc = "idle" /\ ran = <<>>
    /\ pc = "entering" => ran = <<>>
    /\ pc = "functor" => ran # <<>>
    /\ workerPc \in {"unlock", "destruct", "ended"} \/ (workerPc = "loop" /\ pc = "idle") =>
          quit

\* Only a functor that ran, or the destructor, tells the loop to quit once loop()
\* has overwritten what the init callback may have set.
QuitInv ==
    quit => \/ BeforeLoop \/ pc = "entering"
            \/ ownerPc \in {"dtorWakeup", "join", "destroyed"}
            \/ \E i \in DOMAIN ran : ran[i] \in QuitFunctors

NoQuitter == \A f \in QuitFunctors : EL!Fresh(f)

\* The loop is inside its while and nothing it knows of will make it quit.
Quiet == workerPc = "loop" /\ pc \notin {"idle", "entering"} /\ NoQuitter

DtorInv ==
    /\ ownerPc = "dtorTest" => workerPc \in {"none", "ended"} \/ Quiet
    /\ ownerPc = "dtorQuit" => Quiet
    /\ ownerPc = "destroyed" => workerPc \in {"none", "ended"}
    /\ misuse = {}

SafeInv == LoopInv /\ QuitInv /\ DtorInv

(* What one iteration step does to the facts the invariant is about: it    *)
(* runs only functors it knows, ends the loop only after quit(), and does  *)
(* not set quit_.                                                          *)
LEMMA IterationSteps ==
    ASSUME EL!TypeOK, EL!LoopStep \/ EL!PollIo \/ EL!PollTimeout
    PROVE  /\ pc # "idle" /\ pc' # "entering"
           /\ pc' = "idle" => quit
           /\ quit' => quit /\ pc # "entering"
           /\ pc' = "idle" => quit'
           /\ pc' = "functor" => ran' # <<>>
           /\ pc = "entering" => ran' = ran
           /\ \A i \in DOMAIN ran : i \in DOMAIN ran' /\ ran'[i] = ran[i]
           /\ NoQuitter => NoQuitter'
<1>1. CASE EL!CallFunctor
  <2>1. /\ pc = "functors" /\ pc' = "functor" /\ quit' = quit /\ functors # <<>>
        /\ ran' = Append(ran, Head(functors)) /\ functors' = Tail(functors)
        /\ pendingFunctors' = pendingFunctors
    BY <1>1 DEF EL!CallFunctor
  <2>2. functors \in Seq(Functors) /\ ran \in Seq(Functors)
    BY DEF EL!TypeOK
  <2>3. /\ DOMAIN ran' = 1..(Len(ran) + 1) /\ DOMAIN ran = 1..Len(ran) /\ Len(ran) \in Nat
        /\ ran'[Len(ran) + 1] = Head(functors) /\ \A i \in 1..Len(ran) : ran'[i] = ran[i]
    <3>1. Head(functors) \in Functors
      BY <2>1, <2>2
    <3> QED BY <2>1, <2>2, <3>1
  <2>4. /\ 1 \in DOMAIN functors /\ Head(functors) = functors[1]
        /\ \A i \in DOMAIN functors' : i + 1 \in DOMAIN functors /\ functors'[i] = functors[i + 1]
    BY <2>1, <2>2
  <2>5. \A f : EL!Fresh(f) => EL!Fresh(f)'
    <3> SUFFICES ASSUME NEW f, EL!Fresh(f) PROVE EL!Fresh(f)'
      OBVIOUS
    <3>1. /\ \A i \in DOMAIN pendingFunctors : pendingFunctors[i] # f
          /\ \A i \in DOMAIN functors : functors[i] # f
          /\ \A i \in DOMAIN ran : ran[i] # f
      BY DEF EL!Fresh, EL!Elements
    <3>2. \A i \in DOMAIN ran' : ran'[i] # f
      BY <2>3, <2>4, <3>1
    <3>3. \A i \in DOMAIN functors' : functors'[i] # f
      BY <2>4, <3>1
    <3> QED BY <2>1, <3>1, <3>2, <3>3 DEF EL!Fresh, EL!Elements
  <2>6. ran' # <<>>
    BY <2>3
  <2> QED BY <2>1, <2>3, <2>5, <2>6 DEF NoQuitter
<1>2. CASE EL!SwapPendingFunctors
  <2>1. /\ pc = "swap" /\ pc' = "functors" /\ quit' = quit /\ ran' = ran
        /\ functors' = pendingFunctors /\ pendingFunctors' = <<>>
    BY <1>2 DEF EL!SwapPendingFunctors, EL!LeftAfterSwap
  <2>2. \A f : EL!Fresh(f) => EL!Fresh(f)'
    BY <2>1 DEF EL!Fresh, EL!Elements
  <2> QED BY <2>1, <2>2 DEF NoQuitter
<1>3. CASE UNCHANGED <<ran, functors, pendingFunctors>>
  <2>1. /\ pc # "idle" /\ pc' # "entering"
        /\ pc' = "idle" => quit /\ quit'
        /\ quit' => quit /\ pc # "entering"
        /\ pc' # "functor"
    BY <1>3 DEF EL!LoopStep, EL!ResetQuit, EL!CheckQuit, EL!PollSignalled, EL!PollReturns,
       EL!PollIo, EL!PollTimeout, EL!HandleWakeup, EL!HandleIo, EL!HandlerReturns,
       EL!BeginPendingFunctors, EL!SwapPendingFunctors, EL!CallFunctor, EL!FunctorReturns,
       EL!EndPendingFunctors
  <2>2. NoQuitter => NoQuitter'
    BY <1>3 DEF NoQuitter, EL!Fresh, EL!Elements
  <2> QED BY <1>3, <2>1, <2>2
<1>4. EL!CallFunctor \/ EL!SwapPendingFunctors \/ UNCHANGED <<ran, functors, pendingFunctors>>
  BY DEF EL!LoopStep, EL!ResetQuit, EL!CheckQuit, EL!PollSignalled, EL!PollReturns,
       EL!PollIo, EL!PollTimeout, EL!HandleWakeup, EL!HandleIo, EL!HandlerReturns,
       EL!BeginPendingFunctors, EL!FunctorReturns, EL!EndPendingFunctors
<1> QED BY <1>1, <1>2, <1>3, <1>4

(* A step that leaves the loop alone keeps what was said about it.         *)
LEMMA QuietUnchanged ==
    ASSUME UNCHANGED <<workerPc, pc, pendingFunctors, functors, ran>>
    PROVE  Quiet => Quiet'
  BY DEF Quiet, NoQuitter, EL!Fresh, EL!Elements

(* While the owner has not called quit() and no quitting functor is known, *)
(* quit_ is not set.                                                       *)
LEMMA QuietMeansNoQuit ==
    ASSUME QuitInv, NoQuitter, ~BeforeLoop, pc # "entering",
           ownerPc \notin {"dtorWakeup", "join", "destroyed"}
    PROVE  ~quit
  BY DEF QuitInv, NoQuitter, EL!Fresh, EL!Elements

(* Every step preserves it, if the owner lets go of the object only once   *)
(* the loop is known to run or to have ended.                              *)
LEMMA SafeStep ==
    ASSUME Patient = TRUE, TypeOK, PhaseInv, SafeInv, [Next]_vars
    PROVE  SafeInv'
<1> USE DEF SafeInv, BeforeLoop
<1>0. EL!TypeOK
  BY DEF TypeOK
<1>1. CASE UNCHANGED vars
  BY <1>1 DEF vars, loopVars, threadVars, LoopInv, QuitInv, DtorInv, Quiet, NoQuitter,
              EL!Fresh, EL!Elements
<1>2. CASE LoopRuns \/ PollEnds
  <2>1. /\ workerPc = "loop" /\ UNCHANGED <<workerPc, ownerPc, misuse>>
        /\ EL!LoopStep \/ EL!PollIo \/ EL!PollTimeout
    BY <1>2 DEF LoopRuns, PollEnds, threadVars
  <2>2. LoopInv'
    BY <2>1, <1>0, IterationSteps DEF LoopInv
  <2>3. QuitInv'
    BY <2>1, <1>0, IterationSteps DEF QuitInv
  <2>4. ownerPc \in {"dtorTest", "dtorQuit"} /\ Quiet => Quiet'
    <3> SUFFICES ASSUME ownerPc \in {"dtorTest", "dtorQuit"}, Quiet PROVE Quiet'
      OBVIOUS
    <3>1. ~quit
      BY QuietMeansNoQuit DEF Quiet
    <3> QED BY <2>1, <3>1, <1>0, IterationSteps DEF Quiet
  <2> QED BY <2>1, <2>2, <2>3, <2>4 DEF DtorInv
<1>3. CASE FunctorQuits
  <2>1. /\ workerPc = "loop" /\ pc = "functor" /\ quit' = TRUE
        /\ UNCHANGED <<workerPc, ownerPc, misuse, pc, pendingFunctors, functors, ran>>
        /\ ran[Len(ran)] \in QuitFunctors
    BY <1>3 DEF FunctorQuits, MustQuit, EL!LocalQuit, threadVars
  <2>2. Len(ran) \in DOMAIN ran
    BY <1>0, <2>1 DEF EL!TypeOK, LoopInv
  <2>3. ~NoQuitter
    BY <2>1, <2>2 DEF NoQuitter, EL!Fresh, EL!Elements
  <2>4. ownerPc \notin {"dtorTest", "dtorQuit", "destroyed"}
    BY <2>1, <2>3 DEF DtorInv, Quiet
  <2>5. LoopInv'
    BY <2>1 DEF LoopInv
  <2>6. QuitInv'
    BY <2>1, <2>2 DEF QuitInv
  <2> QED BY <2>1, <2>4, <2>5, <2>6 DEF DtorInv
<1>4. CASE EnterLoop
  <2>1. /\ workerPc = "enter" /\ workerPc' = "loop" /\ pc' = "entering"
        /\ UNCHANGED <<ownerPc, misuse, ran, quit>>
    BY <1>4 DEF EnterLoop, EL!EnterLoop
  <2>2. ownerPc \notin {"dtorTest", "dtorQuit", "destroyed"}
    BY <2>1 DEF DtorInv, Quiet
  <2> QED BY <2>1, <2>2 DEF LoopInv, QuitInv, DtorInv
<1>5. CASE InitCallbackQueues \/ InitCallbackQuits
  <2>1. /\ workerPc = "callback"
        /\ UNCHANGED <<ownerPc, workerPc, misuse, ran, pc>>
    BY <1>5 DEF InitCallbackQueues, InitCallbackQuits, threadVars, EL!LocalQueueInLoop,
                EL!LocalQuit
  <2>2. ownerPc \notin {"dtorTest", "dtorQuit", "destroyed"}
    BY <2>1 DEF DtorInv, Quiet
  <2> QED BY <2>1, <2>2 DEF LoopInv, QuitInv, DtorInv
<1>6. CASE WorkerStarts \/ ConstructLoop \/ InitCallbackReturns
  <2>1. /\ workerPc \in {"start", "construct", "callback"}
        /\ workerPc' \in {"construct", "callback", "publish"}
        /\ UNCHANGED <<ownerPc, misuse, ran, quit, pc>>
    BY <1>6 DEF WorkerStarts, ConstructLoop, InitCallbackReturns, loopVars
  <2>2. ownerPc \notin {"dtorTest", "dtorQuit", "destroyed"}
    BY <2>1 DEF DtorInv, Quiet
  <2> QED BY <2>1, <2>2 DEF LoopInv, QuitInv, DtorInv
<1>7. CASE Publish
  <2>1. /\ workerPc = "publish" /\ workerPc' = "enter"
        /\ ownerPc' = ownerPc \/ (ownerPc = "waiting" /\ ownerPc' = "lock")
        /\ UNCHANGED <<misuse, ran, quit, pc>>
    BY <1>7 DEF Publish, Notified, loopVars
  <2>2. ownerPc \notin {"dtorTest", "dtorQuit", "destroyed"}
    BY <2>1 DEF DtorInv, Quiet
  <2> QED BY <2>1, <2>2 DEF LoopInv, QuitInv, DtorInv
<1>8. CASE Unpublish \/ UnlockMutex \/ DestructLoop
  <2>1. /\ (workerPc = "loop" /\ pc = "idle") \/ workerPc \in {"unlock", "destruct"}
        /\ workerPc' \in {"unlock", "destruct", "ended"}
        /\ UNCHANGED <<ownerPc, ran, quit, pc>>
        /\ misuse' = misuse \/ misuse' = MisusedIf(ownerPc = "destroyed", "mutex")
    BY <1>8 DEF Unpublish, UnlockMutex, DestructLoop, loopVars
  <2>2. ownerPc \notin {"dtorTest", "dtorQuit", "destroyed"}
    BY <2>1 DEF DtorInv, Quiet
  <2>3. misuse' = {}
    BY <2>1, <2>2 DEF MisusedIf, DtorInv
  <2>4. LoopInv'
    BY <2>1 DEF LoopInv
  <2> QED BY <2>1, <2>2, <2>3, <2>4 DEF QuitInv, DtorInv
<1>9. CASE StartLoop \/ LatchOpens \/ TestLoopPtr \/ SpuriousWakeup
  <2>1. /\ ownerPc \in {"new", "latch", "lock", "waiting"}
        /\ ownerPc' \in {"latch", "lock", "waiting", "started"}
        /\ workerPc' = workerPc \/ (workerPc' = "start" /\ ownerPc = "new")
        /\ UNCHANGED <<misuse, ran, quit, pc>>
    BY <1>9 DEF StartLoop, LatchOpens, TestLoopPtr, SpuriousWakeup, loopVars
  <2>2. workerPc' = workerPc \/ (workerPc' = "start" /\ workerPc = "none")
    BY <2>1 DEF PhaseInv
  <2> QED BY <2>1, <2>2 DEF LoopInv, QuitInv, DtorInv
<1>10. CASE OwnerRunsInLoop \/ OwnerWakesLoop
  <2>1. /\ ownerPc = "started"
        /\ UNCHANGED <<ownerPc, workerPc, misuse, ran, quit, pc>>
    BY <1>10 DEF OwnerRunsInLoop, OwnerWakesLoop, threadVars, EL!QueueInLoop, EL!Wakeup
  <2> QED BY <2>1 DEF LoopInv, QuitInv, DtorInv
<1>11. CASE BeginDestructor
  <2>1. /\ ownerPc \in {"new", "started"} /\ ownerPc' = "dtorTest"
        /\ ownerPc = "started" => KnownToRun
        /\ UNCHANGED <<workerPc, misuse, pendingFunctors, functors, ran, quit, pc>>
    BY <1>11 DEF BeginDestructor, loopVars
  <2>2. workerPc \in {"none", "ended"} \/ Quiet
    <3>1. CASE ownerPc = "new"
      BY <3>1 DEF PhaseInv
    <3>2. CASE ownerPc = "started" /\ ran # <<>> /\ NoQuitter
      <4>1. ~quit
        BY <3>2, QuietMeansNoQuit DEF LoopInv
      <4> QED BY <3>2, <4>1 DEF PhaseInv, LoopInv, Quiet
    <3> QED BY <2>1, <3>1, <3>2 DEF KnownToRun, NoQuitter
  <2>3. workerPc' \in {"none", "ended"} \/ Quiet'
    BY <2>1, <2>2, QuietUnchanged
  <2> QED BY <2>1, <2>3 DEF LoopInv, QuitInv, DtorInv
<1>12. CASE DestructorTests
  <2>1. /\ ownerPc = "dtorTest"
        /\ ownerPc' = IF loopPtr THEN "dtorQuit" ELSE "destroyed"
        /\ UNCHANGED <<workerPc, misuse, pendingFunctors, functors, ran, quit, pc>>
    BY <1>12 DEF DestructorTests, QuitsAndJoins, loopVars
  <2>2. loopPtr => Quiet'
    BY <2>1, QuietUnchanged DEF DtorInv, PhaseInv
  <2>3. ~loopPtr => workerPc \in {"none", "ended"}
    BY <2>1 DEF DtorInv, PhaseInv, Quiet
  <2> QED BY <2>1, <2>2, <2>3 DEF LoopInv, QuitInv, DtorInv
<1>13. CASE DestructorQuits
  <2>1. ownerPc = "dtorQuit" /\ Quiet
    BY <1>13 DEF DestructorQuits, DtorInv
  <2>2. loopPtr /\ LoopConstructed
    BY <2>1 DEF Quiet, PhaseInv, LoopConstructed
  <2>3. /\ quit' = TRUE /\ ownerPc' = "dtorWakeup"
        /\ UNCHANGED <<workerPc, misuse, ran, pc>>
    BY <1>13, <2>2 DEF DestructorQuits, EL!Quit
  <2> QED BY <2>1, <2>3 DEF LoopInv, QuitInv, DtorInv, Quiet
<1>14. CASE DestructorWakesLoop \/ Join
  <2>1. /\ ownerPc \in {"dtorWakeup", "join"} /\ ownerPc' \in {"join", "destroyed"}
        /\ ownerPc' = "destroyed" => workerPc = "ended"
        /\ UNCHANGED <<workerPc, misuse, ran, quit, pc>>
    BY <1>14 DEF DestructorWakesLoop, Join, AfterDtorWakeup, loopVars, EL!Wakeup
  <2> QED BY <2>1 DEF LoopInv, QuitInv, DtorInv
<1> QED BY <1>1, <1>2, <1>3, <1>4, <1>5, <1>6, <1>7, <1>8, <1>9, <1>10, <1>11, <1>12, <1>13,
           <1>14 DEF Next, WorkerStep, OwnerCallStep

(* An owner that destroys the object only once the loop is known to run,   *)
(* or has ended, is safe: ~EventLoopThread() never calls quit() on a NULL  *)
(* or destructed loop although it reads loop_ twice without the mutex, and *)
(* the thread never locks the mutex of a destructed object.  Without the   *)
(* assumption the run eventloopthread_dtor finds the counterexample.       *)
THEOREM PatientOwnerIsSafe ==
    ASSUME Patient = TRUE
    PROVE  Spec => []DestructorIsSafe
<1>1. Init => SafeInv
  BY DEF Init, EL!Init, SafeInv, BeforeLoop, LoopInv, QuitInv, DtorInv
<1>2. TypeOK /\ PhaseInv /\ SafeInv /\ [Next]_vars => SafeInv'
  BY SafeStep
<1>3. SafeInv => DestructorIsSafe
  BY DEF SafeInv, DtorInv, DestructorIsSafe
<1> QED BY <1>1, <1>2, <1>3, TypeCorrect, PhasesAlways, PTL DEF Spec
=============================================================================
