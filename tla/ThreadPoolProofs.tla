-------------------------- MODULE ThreadPoolProofs --------------------------
(***************************************************************************)
(* Proofs about ThreadPool for any finite sets of workers and of other     *)
(* threads, any queue limit and any number of tasks: type correctness, and *)
(* that no notification is one too few.                                    *)
(***************************************************************************)
EXTENDS ThreadPool, Integers, FiniteSetTheorems, SequenceTheorems, TLAPS

-----------------------------------------------------------------------------
(* How many threads are at a place, and what one thread's move changes.    *)

\* The threads that the positions f put at the place a.
AtIn(f, a) == {t \in Threads : f[t] = a}

\* There are finitely many threads at any place.
LEMMA AtInFinite ==
    ASSUME NEW f, NEW a
    PROVE  IsFiniteSet(AtIn(f, a)) /\ Cardinality(AtIn(f, a)) \in Nat
<1>1. IsFiniteSet(Threads)
  BY WorkersAssumption, FS_Union DEF Threads
<1>2. AtIn(f, a) \in SUBSET Threads
  BY DEF AtIn
<1> QED BY <1>1, <1>2, FS_Subset, FS_CardinalityType

\* How many threads the positions f put at the place a.
Count(f, a) == Cardinality(AtIn(f, a))

\* Nobody is at a place exactly when the count is zero.
LEMMA Nobody ==
    ASSUME NEW f, NEW a
    PROVE  AtIn(f, a) = {} <=> Count(f, a) = 0
BY AtInFinite, FS_EmptySet DEF Count

\* The thread t moves to another place, b, and the positions f become g.
Moves(f, g, t, b) ==
    /\ f \in [Threads -> Pc] /\ t \in Threads /\ b \in Pc
    /\ f[t] # b
    /\ g = [f EXCEPT ![t] = b]

\* A thread that moves to another place counts one less where it was, one
\* more where it goes, and changes nothing elsewhere.
LEMMA Counting ==
    ASSUME NEW f, NEW g, NEW t, NEW b, Moves(f, g, t, b), NEW a
    PROVE  /\ g \in [Threads -> Pc]
           /\ Count(f, a) \in Nat /\ Count(g, a) \in Nat
           /\ a = b => Count(g, a) = Count(f, a) + 1
           /\ a = f[t] => Count(g, a) = Count(f, a) - 1
           /\ a \notin {b, f[t]} => Count(g, a) = Count(f, a)
<1> USE DEF Moves, Count
<1>1. g \in [Threads -> Pc] /\ Count(f, a) \in Nat /\ Count(g, a) \in Nat
  BY AtInFinite
<1>2. CASE a = b
  <2>1. AtIn(g, a) = AtIn(f, a) \cup {t} /\ t \notin AtIn(f, a)
    BY <1>2 DEF AtIn
  <2> QED BY <1>1, <1>2, <2>1, AtInFinite, FS_AddElement
<1>3. CASE a # b /\ a = f[t]
  <2>1. AtIn(g, a) = AtIn(f, a) \ {t} /\ t \in AtIn(f, a)
    BY <1>3 DEF AtIn
  <2> QED BY <1>1, <1>3, <2>1, AtInFinite, FS_RemoveElement
<1>4. CASE a # b /\ a # f[t]
  <2>1. AtIn(g, a) = AtIn(f, a)
    BY <1>4 DEF AtIn
  <2> QED BY <1>1, <1>4, <2>1
<1> QED BY <1>2, <1>3, <1>4

-----------------------------------------------------------------------------
(* Type correctness.  A task can be queued only if there is one: a thread  *)
(* inside run() holds the task it was called with.                         *)

CallersHoldTasks == \A t \in Threads : pc[t] \in {"run", "blocked"} => arg[t] # 0

\* A worker that start() has not created yet is nowhere in the pool.
NotStarted == \A w \in Workers \ threads : pc[w] = "absent"

TypeInv == TypeOK /\ CallersHoldTasks /\ NotStarted

\* Every variable of the pool keeps its type, and run() has a task to queue
\* (ThreadPool.cc:86, 107).
LEMMA TypeInvariant == Spec => []TypeInv
<1> USE WorkersAssumption, DistinctThreads, BoundsAssumption
<1>1. Init => TypeInv
  <2> SUFFICES ASSUME Init PROVE TypeInv
    OBVIOUS
  <2>1. queue \in Seq(1..MaxTasks)
    BY EmptySeq DEF Init
  <2>2. pc \in [Threads -> Pc] /\ arg \in [Threads -> 0..MaxTasks]
    BY DEF Init, Pc
  <2>3. CallersHoldTasks /\ NotStarted
    BY DEF Init, CallersHoldTasks, NotStarted, Threads
  <2>4. calls \in 0..MaxTasks
    BY DEF Init
  <2> QED BY <2>1, <2>2, <2>3, <2>4, Zenon DEF Init, TypeInv, TypeOK
<1>2. TypeInv /\ [Next]_vars => TypeInv'
  <2> SUFFICES ASSUME TypeInv, [Next]_vars PROVE TypeInv'
    OBVIOUS
  <2> USE DEF TypeInv, TypeOK, CallersHoldTasks, NotStarted
  <2>1. CASE Start \/ StartReturns \/ StopJoins
    BY <2>1 DEF Start, StartReturns, StopJoins
  <2>2. ASSUME NEW w \in Workers, StartThread(w)
        PROVE  TypeInv'
    BY <2>2 DEF StartThread, Pc, Threads
  <2>3. CASE Stop
    BY <2>3 DEF Stop, NotifyAllWorkers, Pc, Threads
  <2>4. ASSUME NEW w \in Workers, WorkerStep(w)
        PROVE  TypeInv'
    <3>1. w \in Threads
      BY DEF Threads
    <3>2. CASE CheckRunning(w) \/ TakeWaits(w) \/ TakeNothing(w) \/ TaskReturns(w)
      BY <3>1, <3>2 DEF CheckRunning, TakeWaits, TakeNothing, TaskReturns, Pc, Threads
    <3>3. CASE TakeTask(w)
      <4> DEFINE taken == [pc EXCEPT ![w] = "task"]
      <4>1. taken \in [Threads -> Pc]
        BY DEF Pc
      <4>2. Tail(queue) \in Seq(1..MaxTasks)
        BY <3>3, HeadTailProperties DEF TakeTask
      <4>3. \/ pc' = taken
            \/ \E t \in Threads : taken[t] = "blocked" /\ pc' = [taken EXCEPT ![t] = "run"]
        <5>1. pc' = taken \/ pc' \in Notify(taken, "blocked", "run")
          BY <3>3 DEF TakeTask
        <5>2. "blocked" \in Pc /\ "run" \in Pc /\ "blocked" # "run"
          BY DEF Pc
        <5> QED BY <4>1, <5>1 DEF Notify
      <4> QED BY <3>1, <3>3, <4>1, <4>2, <4>3 DEF TakeTask, Pc, Threads
    <3> QED BY <2>4, <3>2, <3>3 DEF WorkerStep
  <2>5. ASSUME NEW t \in Threads, RunInCaller(t) \/ CallRun(t) \/ SpuriousWakeup(t)
        PROVE  TypeInv'
    <3>1. CASE RunInCaller(t)
      BY <2>5, <3>1 DEF RunInCaller
    <3>2. CASE CallRun(t)
      BY <2>5, <3>2 DEF CallRun, Pc, Threads
    <3>3. CASE SpuriousWakeup(t)
      BY <2>5, <3>3 DEF SpuriousWakeup, Pc, Threads
    <3> QED BY <2>5, <3>1, <3>2, <3>3
  <2>6. ASSUME NEW t \in Threads, RunInMutex(t)
        PROVE  TypeInv'
    <3>1. CASE IsFull
      BY <2>6, <3>1 DEF RunInMutex, Push, Pc, Threads
    <3>2. CASE ~IsFull
      <4> DEFINE back == [pc EXCEPT ![t] = Caller(t)]
      <4>1. pc[t] = "run" /\ Push(t)
        BY <2>6, <3>2 DEF RunInMutex
      <4>2. back \in [Threads -> Pc] /\ Caller(t) \in {"task", "idle"}
        BY DEF Pc, Caller
      <4>3. Append(queue, arg[t]) \in Seq(1..MaxTasks)
        BY <4>1, AppendProperties
      <4>4. \/ pc' = back
            \/ \E u \in Threads : back[u] = "asleep" /\ pc' = [back EXCEPT ![u] = "take"]
        <5>1. pc' \in Notify(back, "asleep", "take")
          BY <4>1 DEF Push
        <5>2. "asleep" \in Pc /\ "take" \in Pc /\ "asleep" # "take"
          BY DEF Pc
        <5> QED BY <4>2, <5>1 DEF Notify
      <4>5. pc' \in [Threads -> Pc]
        BY <4>2, <4>4 DEF Pc
      <4>6. \A u \in Threads : pc'[u] \in {"run", "blocked"} => u # t /\ pc[u] = pc'[u]
        BY <4>2, <4>4
      <4>7. arg' \in [Threads -> 0..MaxTasks] /\ \A u \in Threads : u # t => arg'[u] = arg[u]
        BY <4>1 DEF Push
      <4>8. \A u \in Threads : pc[u] = "absent" => pc'[u] = "absent"
        BY <4>1, <4>2, <4>4
      <4>9. NotStarted'
        BY <4>1, <4>8 DEF Push, Threads
      <4> QED BY <4>1, <4>3, <4>5, <4>6, <4>7, <4>9 DEF Push
    <3> QED BY <3>1, <3>2
  <2>7. CASE UNCHANGED vars
    BY <2>7 DEF vars
  <2> QED BY <2>1, <2>2, <2>3, <2>4, <2>5, <2>6, <2>7 DEF Next, OwnerStep
<1> QED BY <1>1, <1>2, PTL DEF Spec

\* Every variable of the pool keeps its type, whatever the threads do
\* (ThreadPool.h: the members of class ThreadPool).
THEOREM TypeCorrect == Spec => []TypeOK
<1>1. TypeInv => TypeOK
  BY DEF TypeInv
<1> QED BY <1>1, TypeInvariant, PTL

-----------------------------------------------------------------------------
(* No lost notification.  The invariant is inductive given the types: the  *)
(* proof counts the threads on their way to the mutex before and after     *)
(* each step.                                                              *)

\* NoLostNotify for the positions f and a queue of n tasks, in counts.
Enough(f, n) ==
    /\ Count(f, "asleep") > 0 => n <= Count(f, "take")
    /\ Count(f, "blocked") > 0 => MaxQueueSize <= n + Count(f, "run")

\* A thread that moves to where it is woken, or anywhere from a place that
\* does not count, takes nothing away.
LEMMA HarmlessMove ==
    ASSUME NEW f, NEW g, NEW t, NEW b, Moves(f, g, t, b), NEW n \in Nat, Enough(f, n),
           f[t] \notin {"take", "run"}, b \notin {"asleep", "blocked"}
    PROVE  Enough(g, n)
<1>1. Count(f, "asleep") \in Nat /\ Count(g, "asleep") \in Nat
      /\ Count(g, "asleep") <= Count(f, "asleep")
  BY Counting
<1>2. Count(f, "blocked") \in Nat /\ Count(g, "blocked") \in Nat
      /\ Count(g, "blocked") <= Count(f, "blocked")
  BY Counting
<1>3. Count(f, "take") \in Nat /\ Count(g, "take") \in Nat
      /\ Count(f, "take") <= Count(g, "take")
  BY Counting
<1>4. Count(f, "run") \in Nat /\ Count(g, "run") \in Nat
      /\ Count(f, "run") <= Count(g, "run")
  BY Counting
<1> QED BY <1>1, <1>2, <1>3, <1>4, BoundsAssumption DEF Enough

\* The invariant that is proved says the same as the one that is meant.
LEMMA EnoughIsNoLostNotify ==
    ASSUME TypeOK
    PROVE  NoLostNotify <=> Enough(pc, Len(queue))
<1>1. \A a : At(a) = AtIn(pc, a) /\ Cardinality(At(a)) = Count(pc, a) /\ Count(pc, a) \in Nat
  BY AtInFinite DEF At, AtIn, Count
<1>2. \A a : At(a) # {} <=> Count(pc, a) > 0
  BY <1>1, Nobody
<1> QED BY <1>1, <1>2 DEF NoLostNotify, Enough

\* push_back and notEmpty_.notify() by the thread t keep the balance.
LEMMA PushKeepsEnough ==
    ASSUME TypeInv, TypeInv', Enough(pc, Len(queue)),
           NEW t \in Threads, pc[t] = "run", Push(t)
    PROVE  Enough(pc', Len(queue'))
<1> USE BoundsAssumption
<1> DEFINE back == [pc EXCEPT ![t] = Caller(t)]
<1>1. Len(queue) \in Nat /\ Len(queue') = Len(queue) + 1
  BY AppendProperties, LenProperties DEF Push, TypeInv, TypeOK, CallersHoldTasks
<1>2. Moves(pc, back, t, Caller(t)) /\ Caller(t) \in {"task", "idle"}
  BY DEF Moves, Caller, Pc, TypeInv, TypeOK
<1> HIDE DEF back
<1>3. \/ pc' = back /\ Count(back, "asleep") = 0
      \/ \E u \in Threads : back[u] = "asleep" /\ Moves(back, pc', u, "take")
  <2>1. pc' \in Notify(back, "asleep", "take")
    BY DEF Push, back
  <2>2. back \in [Threads -> Pc] /\ "take" \in Pc
    BY <1>2, Counting DEF Pc
  <2>3. CASE \E u \in Threads : back[u] = "asleep"
    BY <2>1, <2>2, <2>3 DEF Notify, Moves
  <2>4. CASE ~\E u \in Threads : back[u] = "asleep"
    <3>1. AtIn(back, "asleep") = {}
      BY <2>4 DEF AtIn
    <3> QED BY <2>1, <2>4, <3>1, Nobody DEF Notify
  <2> QED BY <2>3, <2>4
<1>4. /\ Count(pc, "asleep") \in Nat /\ Count(back, "asleep") = Count(pc, "asleep")
      /\ Count(pc, "blocked") \in Nat /\ Count(back, "blocked") = Count(pc, "blocked")
      /\ Count(pc, "take") \in Nat /\ Count(back, "take") = Count(pc, "take")
      /\ Count(pc, "run") \in Nat /\ Count(back, "run") \in Nat
      /\ Count(back, "run") = Count(pc, "run") - 1
  BY <1>2, Counting
<1>5. CASE pc' = back /\ Count(back, "asleep") = 0
  BY <1>1, <1>4, <1>5 DEF Enough
<1>6. ASSUME NEW u \in Threads, back[u] = "asleep", Moves(back, pc', u, "take")
      PROVE  Enough(pc', Len(queue'))
  <2>1. /\ Count(pc', "asleep") = Count(back, "asleep") - 1
        /\ Count(pc', "blocked") = Count(back, "blocked")
        /\ Count(pc', "take") = Count(back, "take") + 1
        /\ Count(pc', "run") = Count(back, "run")
    BY <1>6, Counting
  <2> QED BY <1>1, <1>4, <2>1 DEF Enough
<1> QED BY <1>3, <1>5, <1>6

\* pop_front and, if the queue is bounded, notFull_.notify() by the worker w
\* keep the balance.
LEMMA TakeKeepsEnough ==
    ASSUME TypeInv, TypeInv', Enough(pc, Len(queue)), NEW w \in Workers, TakeTask(w)
    PROVE  Enough(pc', Len(queue'))
<1> USE BoundsAssumption
<1> DEFINE taken == [pc EXCEPT ![w] = "task"]
<1>1. Len(queue) \in Nat /\ Len(queue') \in Nat /\ Len(queue') = Len(queue) - 1
  BY HeadTailProperties, LenProperties DEF TakeTask, TypeInv, TypeOK
<1>2. Moves(pc, taken, w, "task") /\ pc[w] = "take"
  BY DEF TakeTask, Moves, Pc, Threads, TypeInv, TypeOK
<1> HIDE DEF taken
<1>3. \/ pc' = taken /\ (MaxQueueSize = 0 \/ Count(taken, "blocked") = 0)
      \/ \E u \in Threads : taken[u] = "blocked" /\ Moves(taken, pc', u, "run")
  <2>1. taken \in [Threads -> Pc] /\ "run" \in Pc
    BY <1>2, Counting DEF Pc
  <2>2. CASE MaxQueueSize = 0
    BY <2>2 DEF TakeTask, TakeNotifies, taken
  <2>3. CASE MaxQueueSize > 0
    <3>1. pc' \in Notify(taken, "blocked", "run")
      BY <2>3 DEF TakeTask, TakeNotifies, taken
    <3>2. CASE \E u \in Threads : taken[u] = "blocked"
      BY <2>1, <3>1, <3>2 DEF Notify, Moves
    <3>3. CASE ~\E u \in Threads : taken[u] = "blocked"
      <4>1. AtIn(taken, "blocked") = {}
        BY <3>3 DEF AtIn
      <4> QED BY <3>1, <3>3, <4>1, Nobody DEF Notify
    <3> QED BY <3>2, <3>3
  <2> QED BY <2>2, <2>3
<1>4. /\ Count(pc, "asleep") \in Nat /\ Count(taken, "asleep") = Count(pc, "asleep")
      /\ Count(pc, "blocked") \in Nat /\ Count(taken, "blocked") = Count(pc, "blocked")
      /\ Count(pc, "take") \in Nat /\ Count(taken, "take") \in Nat
      /\ Count(taken, "take") = Count(pc, "take") - 1
      /\ Count(pc, "run") \in Nat /\ Count(taken, "run") = Count(pc, "run")
  BY <1>2, Counting
<1>5. CASE pc' = taken /\ (MaxQueueSize = 0 \/ Count(taken, "blocked") = 0)
  BY <1>1, <1>4, <1>5 DEF Enough
<1>6. ASSUME NEW u \in Threads, taken[u] = "blocked", Moves(taken, pc', u, "run")
      PROVE  Enough(pc', Len(queue'))
  <2>1. /\ Count(pc', "asleep") = Count(taken, "asleep")
        /\ Count(pc', "blocked") = Count(taken, "blocked") - 1
        /\ Count(pc', "take") = Count(taken, "take")
        /\ Count(pc', "run") = Count(taken, "run") + 1
    BY <1>6, Counting
  <2> QED BY <1>1, <1>4, <2>1 DEF Enough
<1> QED BY <1>3, <1>5, <1>6

\* While a thread sleeps in take() or run(), enough others are on their way
\* to the mutex for what is queued or free, so that neither notify() is one
\* too few (ThreadPool.cc:87, 108 and 128).
THEOREM NotifyIsEnough == Spec => []NoLostNotify
<1> USE BoundsAssumption
<1> DEFINE Inv == Enough(pc, Len(queue))
<1>1. Init => Inv
  <2> SUFFICES ASSUME Init PROVE Inv
    OBVIOUS
  <2>1. AtIn(pc, "asleep") = {} /\ AtIn(pc, "blocked") = {}
    BY DEF Init, AtIn, Threads
  <2>2. Count(pc, "asleep") = 0 /\ Count(pc, "blocked") = 0
    BY <2>1, Nobody
  <2> QED BY <2>2 DEF Enough
<1>2. TypeInv /\ TypeInv' /\ Inv /\ [Next]_vars => Inv'
  <2> SUFFICES ASSUME TypeInv, TypeInv', Inv, [Next]_vars
               PROVE  Inv'
    OBVIOUS
  <2>1. /\ pc \in [Threads -> Pc] /\ Len(queue) \in Nat
        /\ Workers \subseteq Threads
    BY LenProperties DEF TypeInv, TypeOK, Threads
  <2>2. CASE UNCHANGED <<pc, queue>>
    BY <2>2
  <2>3. CASE Stop
    <3>1. AtIn(pc', "asleep") = {}
      BY <2>1, <2>3 DEF Stop, NotifyAllWorkers, AtIn
    <3>2. AtIn(pc', "blocked") = AtIn(pc, "blocked") /\ AtIn(pc', "run") = AtIn(pc, "run")
      BY <2>1, <2>3 DEF Stop, NotifyAllWorkers, AtIn
    <3>3. Count(pc', "asleep") = 0
      BY <3>1, Nobody
    <3> QED BY <2>3, <3>2, <3>3 DEF Stop, Enough, Count
  <2>4. ASSUME NEW w \in Workers, StartThread(w)
        PROVE  Inv'
    <3>1. Moves(pc, pc', w, "check") /\ pc[w] = "absent" /\ queue' = queue
      BY <2>1, <2>4 DEF StartThread, Moves, Pc, TypeInv, NotStarted
    <3> QED BY <2>1, <3>1, HarmlessMove
  <2>5. ASSUME NEW w \in Workers, CheckRunning(w) \/ TaskReturns(w)
        PROVE  Inv'
    <3>1. \/ \E b \in {"take", "exited"} : Moves(pc, pc', w, b) /\ pc[w] = "check"
          \/ Moves(pc, pc', w, "check") /\ pc[w] = "task"
      BY <2>1, <2>5 DEF CheckRunning, TaskReturns, Moves, Pc
    <3>2. queue' = queue
      BY <2>5 DEF CheckRunning, TaskReturns
    <3> QED BY <2>1, <3>1, <3>2, HarmlessMove
  <2>6. ASSUME NEW w \in Workers, TakeWaits(w) \/ TakeNothing(w)
        PROVE  Inv'
    <3>1. \E b \in {"asleep", "check"} : Moves(pc, pc', w, b) /\ pc[w] = "take"
      BY <2>1, <2>6 DEF TakeWaits, TakeNothing, Moves, Pc
    <3>2. Len(queue) = 0 /\ queue' = queue
      BY <2>6, EmptySeq DEF TakeWaits, TakeNothing
    <3>3. /\ Count(pc', "take") \in Nat /\ Count(pc', "asleep") \in Nat
          /\ Count(pc', "blocked") = Count(pc, "blocked")
          /\ Count(pc', "run") = Count(pc, "run")
      BY <3>1, Counting
    <3> QED BY <3>2, <3>3 DEF Enough
  <2>7. ASSUME NEW w \in Workers, TakeTask(w)
        PROVE  Inv'
    BY <2>7, TakeKeepsEnough
  <2>8. ASSUME NEW t \in Threads, CallRun(t) \/ SpuriousWakeup(t)
        PROVE  Inv'
    <3>1. \/ \E b \in {"take", "run"} : Moves(pc, pc', t, b)
                                        /\ pc[t] \in {"idle", "task", "asleep", "blocked"}
      BY <2>1, <2>8 DEF CallRun, SpuriousWakeup, Moves, Pc
    <3>2. queue' = queue
      BY <2>8 DEF CallRun, SpuriousWakeup
    <3> QED BY <2>1, <3>1, <3>2, HarmlessMove
  <2>9. ASSUME NEW t \in Threads, RunInMutex(t)
        PROVE  Inv'
    <3>1. CASE IsFull
      <4>1. Moves(pc, pc', t, "blocked") /\ pc[t] = "run" /\ queue' = queue
        BY <2>1, <2>9, <3>1 DEF RunInMutex, Moves, Pc
      <4>2. MaxQueueSize <= Len(queue)
        BY <3>1 DEF IsFull
      <4>3. /\ Count(pc', "take") = Count(pc, "take")
            /\ Count(pc', "asleep") = Count(pc, "asleep")
            /\ Count(pc', "run") \in Nat
        BY <4>1, Counting
      <4> QED BY <2>1, <4>1, <4>2, <4>3 DEF Enough
    <3>2. CASE ~IsFull
      BY <2>9, <3>2, PushKeepsEnough DEF RunInMutex
    <3> QED BY <3>1, <3>2
  <2>10. CASE Start \/ StartReturns \/ StopJoins \/ (\E t \in Threads : RunInCaller(t))
    BY <2>2, <2>10 DEF Start, StartReturns, StopJoins, RunInCaller
  <2> HIDE DEF Inv
  <2>11. CASE UNCHANGED vars
    BY <2>2, <2>11 DEF vars
  <2> QED BY <2>3, <2>4, <2>5, <2>6, <2>7, <2>8, <2>9, <2>10, <2>11
          DEF Next, OwnerStep, WorkerStep
<1>3. TypeInv /\ Inv => NoLostNotify
  BY EnoughIsNoLostNotify DEF TypeInv
<1> QED BY <1>1, <1>2, <1>3, TypeInvariant, PTL DEF Spec
=============================================================================
