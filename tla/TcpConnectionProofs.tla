------------------------ MODULE TcpConnectionProofs ------------------------
(***************************************************************************)
(* Proofs about TcpConnection for any set of foreign threads, any sizes of *)
(* messages and any high-water mark.                                       *)
(***************************************************************************)
EXTENDS TcpConnection, Integers, SequenceTheorems, FiniteSetTheorems, TLAPS

-----------------------------------------------------------------------------
(* The loop's queue.                                                       *)

\* From q to r, d functors (0 or 1) are taken from the front and the functor g
\* may have been put at the end.
QueueStep(q, r, d, g) ==
    /\ q \in Seq(Functor) /\ r \in Seq(Functor) /\ g \in Functor /\ d \in {0, 1}
    /\ Len(q) \in Nat /\ Len(r) \in Nat
    /\ d <= Len(q) /\ Len(q) - d <= Len(r) /\ Len(r) <= Len(q) - d + 1
    /\ \A i \in 1 .. Len(r) :
          \/ i + d \in 1 .. Len(q) /\ r[i] = q[i + d]
          \/ i + d = Len(q) + 1 /\ r[i] = g

\* What the functions that add to a queue do is such a step.
LEMMA QueueSteps ==
    ASSUME NEW q \in Seq(Functor), NEW g \in Functor
    PROVE  /\ QueueStep(q, q, 0, g) /\ QueueStep(q, Append(q, g), 0, g)
           /\ Len(q) > 0 => /\ QueueStep(q, Tail(q), 1, g)
                            /\ QueueStep(q, Append(Tail(q), g), 1, g)
                            /\ Head(q) = q[1] /\ Head(q) \in Functor /\ Tail(q) \in Seq(Functor)
<1>1. Len(q) \in Nat
  BY LenProperties
<1>2. /\ Append(q, g) \in Seq(Functor) /\ Len(Append(q, g)) = Len(q) + 1
      /\ Append(q, g)[Len(q) + 1] = g /\ \A i \in 1 .. Len(q) : Append(q, g)[i] = q[i]
  BY AppendProperties
<1>3. QueueStep(q, q, 0, g)
  BY <1>1 DEF QueueStep
<1>4. QueueStep(q, Append(q, g), 0, g)
  BY <1>1, <1>2 DEF QueueStep
<1>5. ASSUME Len(q) > 0
      PROVE  /\ QueueStep(q, Tail(q), 1, g) /\ QueueStep(q, Append(Tail(q), g), 1, g)
             /\ Head(q) = q[1] /\ Head(q) \in Functor /\ Tail(q) \in Seq(Functor)
  <2>1. q # <<>>
    BY <1>5, EmptySeq
  <2>2. /\ Tail(q) \in Seq(Functor) /\ Len(Tail(q)) = Len(q) - 1
        /\ \A i \in 1 .. Len(q) - 1 : Tail(q)[i] = q[i + 1]
    BY <1>1, <2>1, HeadTailProperties
  <2>3. Head(q) = q[1] /\ Head(q) \in Functor
    BY <1>1, <2>1, HeadTailProperties, LenProperties
  <2>4. /\ Append(Tail(q), g) \in Seq(Functor) /\ Len(Append(Tail(q), g)) = Len(q)
        /\ Append(Tail(q), g)[Len(q)] = g
        /\ \A i \in 1 .. Len(q) - 1 : Append(Tail(q), g)[i] = q[i + 1]
    BY <1>1, <2>2, AppendProperties
  <2>5. QueueStep(q, Tail(q), 1, g)
    <3>1. \A i \in 1 .. Len(Tail(q)) : i + 1 \in 1 .. Len(q) /\ Tail(q)[i] = q[i + 1]
      BY <1>1, <1>5, <2>2
    <3> QED BY <1>1, <1>5, <2>2, <3>1 DEF QueueStep
  <2>6. QueueStep(q, Append(Tail(q), g), 1, g)
    <3> DEFINE r == Append(Tail(q), g)
    <3>1. \A i \in 1 .. Len(r) : \/ i + 1 \in 1 .. Len(q) /\ r[i] = q[i + 1]
                                 \/ i + 1 = Len(q) + 1 /\ r[i] = g
      <4> SUFFICES ASSUME NEW i \in 1 .. Len(q)
                   PROVE  \/ i + 1 \in 1 .. Len(q) /\ r[i] = q[i + 1]
                          \/ i + 1 = Len(q) + 1 /\ r[i] = g
        BY <2>4
      <4>1. i \in 1 .. Len(q) - 1 \/ i = Len(q)
        BY <1>1
      <4>2. CASE i \in 1 .. Len(q) - 1
        <5>1. i + 1 \in 1 .. Len(q)
          BY <1>1, <4>2
        <5>2. r[i] = q[i + 1]
          BY <2>4, <4>2
        <5> QED BY <5>1, <5>2
      <4>3. CASE i = Len(q)
        <5>1. i + 1 = Len(q) + 1
          BY <1>1, <4>3
        <5>2. r[i] = g
          BY <2>4, <4>3
        <5> QED BY <5>1, <5>2
      <4> QED BY <4>1, <4>2, <4>3
    <3>2. r \in Seq(Functor) /\ Len(r) = Len(q)
      BY <2>4
    <3> HIDE DEF r
    <3>3. QueueStep(q, r, 1, g)
      BY <1>1, <1>5, <3>1, <3>2 DEF QueueStep
    <3> QED BY <3>3 DEF r
  <2> QED BY <2>2, <2>3, <2>5, <2>6
<1> QED BY <1>3, <1>4, <1>5

-----------------------------------------------------------------------------
(* Type correctness.  A message that is queued, or about to be, was sent.  *)

QueuedExist ==
    \A i \in 1 .. Len(pendingFunctors) :
        pendingFunctors[i].op = "send" => pendingFunctors[i].msg \in 1 .. Len(sends)

CalledExist ==
    \A u \in Users : userPc[u].op = "send" => userPc[u].msg \in 1 .. Len(sends)

TypeInv == TypeOK /\ QueuedExist /\ CalledExist /\ Len(sends) <= MaxSends

\* The functors that are not messages.
Signals == [op : {"shutdown", "forceClose", "writeComplete", "highWater", "destroy"}, msg : {0}]

LEMMA CallTypes ==
    /\ \A op \in {"shutdown", "forceClose", "writeComplete", "highWater", "destroy"} :
          /\ Call(op, 0) \in Signals /\ Call(op, 0) \in Functor /\ Call(op, 0).op = op
    /\ \A k \in Messages : /\ Call("send", k) \in Functor
                           /\ Call("send", k).op = "send" /\ Call("send", k).msg = k
    /\ Idle.op = "idle"
BY DEF Call, Functor, Signals, Idle

\* A step of the queue that adds no message, or one that was sent.
LEMMA QueueKeeps ==
    ASSUME TypeInv, NEW d \in {0, 1}, NEW g \in Functor,
           QueueStep(pendingFunctors, pendingFunctors', d, g),
           batch' = batch - d, d <= batch,
           g.op = "send" => g.msg \in 1 .. Len(sends),
           Len(sends') \in Nat, Len(sends) <= Len(sends')
    PROVE  /\ pendingFunctors' \in Seq(Functor) /\ batch' \in 0 .. Len(pendingFunctors')
           /\ QueuedExist'
<1>1. /\ pendingFunctors \in Seq(Functor) /\ batch \in 0 .. Len(pendingFunctors)
      /\ Len(pendingFunctors) \in Nat /\ Len(sends) \in Nat
  BY LenProperties DEF TypeInv, TypeOK
<1>2. pendingFunctors' \in Seq(Functor) /\ batch' \in 0 .. Len(pendingFunctors')
  BY <1>1 DEF QueueStep
<1>3. ASSUME NEW i \in 1 .. Len(pendingFunctors'), pendingFunctors'[i].op = "send"
      PROVE  pendingFunctors'[i].msg \in 1 .. Len(sends')
  <2>1. CASE i + d \in 1 .. Len(pendingFunctors) /\ pendingFunctors'[i] = pendingFunctors[i + d]
    <3>1. pendingFunctors'[i].msg \in 1 .. Len(sends)
      BY <1>3, <2>1 DEF TypeInv, QueuedExist
    <3> QED BY <1>1, <3>1
  <2>2. CASE pendingFunctors'[i] = g
    BY <1>1, <1>3, <2>2
  <2> QED BY <2>1, <2>2 DEF QueueStep
<1> QED BY <1>2, <1>3 DEF QueuedExist

\* What the two kinds of step make of the queue: a functor is queued or not, and
\* before that the first one of the batch may have been taken out.
LEMMA Queues ==
    ASSUME TypeInv, NEW g \in Functor, pendingFunctors' \in {pendingFunctors, Append(pendingFunctors, g)}
    PROVE  QueueStep(pendingFunctors, pendingFunctors', 0, g)
BY QueueSteps DEF TypeInv, TypeOK

LEMMA Takes ==
    ASSUME TypeInv, batch > 0, NEW g \in Functor,
           pendingFunctors' \in {Tail(pendingFunctors), Append(Tail(pendingFunctors), g)}
    PROVE  QueueStep(pendingFunctors, pendingFunctors', 1, g)
<1>1. pendingFunctors \in Seq(Functor) /\ batch \in 0 .. Len(pendingFunctors)
      /\ Len(pendingFunctors) \in Nat
  BY LenProperties DEF TypeInv, TypeOK
<1>2. Len(pendingFunctors) > 0
  BY <1>1
<1> QED BY <1>1, <1>2, QueueSteps

\* The functor that RunFunctor runs.
LEMMA FirstFunctor ==
    ASSUME TypeInv, batch > 0
    PROVE  /\ Head(pendingFunctors) = pendingFunctors[1] /\ Head(pendingFunctors) \in Functor
           /\ Tail(pendingFunctors) \in Seq(Functor) /\ 1 \in 1 .. Len(pendingFunctors)
           /\ \A k : k = Head(pendingFunctors).msg /\ Head(pendingFunctors).op = "send" =>
                 k \in Messages /\ k \in 1 .. Len(sends) /\ sends[k].size \in Nat \ {0}
<1>1. pendingFunctors \in Seq(Functor) /\ batch \in 0 .. Len(pendingFunctors)
      /\ Len(pendingFunctors) \in Nat /\ Len(sends) \in Nat
  BY LenProperties DEF TypeInv, TypeOK
<1>2. Len(pendingFunctors) > 0 /\ 1 \in 1 .. Len(pendingFunctors)
  BY <1>1
<1>3. /\ Head(pendingFunctors) = pendingFunctors[1] /\ Head(pendingFunctors) \in Functor
      /\ Tail(pendingFunctors) \in Seq(Functor)
  BY <1>1, <1>2, QueueSteps, CallTypes
<1>4. ASSUME NEW k, k = Head(pendingFunctors).msg, Head(pendingFunctors).op = "send"
      PROVE  k \in Messages /\ k \in 1 .. Len(sends) /\ sends[k].size \in Nat \ {0}
  <2>1. k \in 1 .. Len(sends)
    <3>1. pendingFunctors[1].op = "send" /\ k = pendingFunctors[1].msg
      BY <1>3, <1>4
    <3> QED BY <1>2, <3>1 DEF TypeInv, QueuedExist
  <2>2. Len(sends) <= MaxSends /\ MaxSends \in Nat
    BY SizesAssumption DEF TypeInv
  <2>3. k \in Messages
    BY <1>1, <2>1, <2>2 DEF Messages
  <2>4. sends[k] \in [thread : Threads, size : Sizes]
    BY <2>1, ElementOfSeq DEF TypeInv, TypeOK
  <2>5. sends[k].size \in Sizes
    BY <2>4
  <2> QED BY <2>1, <2>3, <2>5, SizesAssumption
<1> QED BY <1>2, <1>3, <1>4, Zenon

\* Messages are sequences of equal units, and are as long as they are.
LEMMA UnitsType ==
    ASSUME NEW k \in Messages, NEW n \in Nat
    PROVE  Units(k, n) \in Seq(Messages) /\ Len(Units(k, n)) = n
           /\ \A i \in 1 .. n : Units(k, n)[i] = k
<1>1. Units(k, n) \in [1 .. n -> Messages]
  BY DEF Units
<1>2. Units(k, n) \in Seq(Messages)
  BY <1>1, SeqDef
<1>3. Len(Units(k, n)) = n
  BY <1>1, <1>2, LenProperties
<1> QED BY <1>2, <1>3 DEF Units

\* sendInLoop() keeps the types, and adds at most one functor, no message.
LEMMA SendInLoopType ==
    ASSUME TypeOK, NEW k \in Messages, NEW n \in Nat \ {0}, NEW queue \in Seq(Functor),
           sendInLoop(k, n, queue)
    PROVE  /\ events' \subseteq {"read", "write"}
           /\ outputBuffer' \in Seq(Messages) /\ wire' \in Seq(Messages)
           /\ accepted' \in Seq(Messages)
           /\ \E g \in Signals : g.op \in {"writeComplete", "highWater"}
                                 /\ pendingFunctors' \in {queue, Append(queue, g)}
<1>1. Call("writeComplete", 0) \in Signals /\ Call("highWater", 0) \in Signals
      /\ Call("writeComplete", 0).op = "writeComplete" /\ Call("highWater", 0).op = "highWater"
  BY DEF Call, Signals
<1>2. CASE pendingFunctors' = queue /\ UNCHANGED <<events, outputBuffer, wire, accepted>>
  BY <1>1, <1>2 DEF TypeOK
<1>3. ASSUME NEW nwrote \in 0 .. n, BufferOutput(k, n, nwrote, queue)
      PROVE  /\ events' \subseteq {"read", "write"}
             /\ outputBuffer' \in Seq(Messages) /\ wire' \in Seq(Messages)
             /\ accepted' \in Seq(Messages)
             /\ \E g \in Signals : g.op \in {"writeComplete", "highWater"}
                                   /\ pendingFunctors' \in {queue, Append(queue, g)}
  <2>1. n \in Nat /\ nwrote \in Nat /\ n - nwrote \in Nat
    OBVIOUS
  <2>2. accepted' = accepted \o Units(k, n) /\ wire' = wire \o Units(k, nwrote)
    BY <1>3 DEF BufferOutput
  <2>3. accepted' \in Seq(Messages) /\ wire' \in Seq(Messages)
    <3>1. Units(k, n) \in Seq(Messages) /\ Units(k, nwrote) \in Seq(Messages)
      BY <2>1, UnitsType
    <3>2. accepted \in Seq(Messages) /\ wire \in Seq(Messages)
      BY DEF TypeOK
    <3> QED BY <2>2, <3>1, <3>2, ConcatProperties
  <2>4. outputBuffer' = outputBuffer \/ outputBuffer' = outputBuffer \o Units(k, n - nwrote)
    BY <1>3 DEF BufferOutput
  <2>5. outputBuffer' \in Seq(Messages)
    <3>1. Units(k, n - nwrote) \in Seq(Messages) /\ outputBuffer \in Seq(Messages)
      BY <2>1, UnitsType DEF TypeOK
    <3> QED BY <2>4, <3>1, ConcatProperties
  <2>6. events' \subseteq {"read", "write"}
    BY <1>3 DEF BufferOutput, enableWriting, TypeOK
  <2>7. \/ pendingFunctors' \in {queue, Append(queue, Call("writeComplete", 0))}
        \/ pendingFunctors' \in {queue, Append(queue, Call("highWater", 0))}
    BY <1>3 DEF BufferOutput
  <2> QED BY <1>1, <2>3, <2>5, <2>6, <2>7
<1> QED BY <1>2, <1>3 DEF sendInLoop

USE ClosersAssumption, ServerStopsAssumption, SizesAssumption

\* One step of the system keeps the types.
LEMMA TypeStep ==
    ASSUME TypeInv, Next
    PROVE  TypeInv'
<1> USE DEF loopVars, socketVars, historyVars
<1>1. CASE ConnectEstablished
  BY <1>1 DEF ConnectEstablished, TypeInv, TypeOK, QueuedExist, CalledExist, StateE
<1>2. CASE HandleReadError
  BY <1>2 DEF HandleReadError, TypeInv, TypeOK, QueuedExist, CalledExist
<1>3. CASE EventsDone
  BY <1>3 DEF EventsDone, TypeInv, TypeOK, QueuedExist, CalledExist, swappedOut
<1>4. CASE FunctorsDone
  BY <1>4 DEF FunctorsDone, TypeInv, TypeOK, QueuedExist, CalledExist
<1>5. CASE Shutdown
  <2>1. owed' \subseteq Messages
    <3>1. SentByLoop \subseteq Messages
      <4>1. Len(sends) \in Nat /\ MaxSends \in Nat /\ Len(sends) <= MaxSends
        BY LenProperties DEF TypeInv, TypeOK
      <4>2. 1 .. Len(sends) \subseteq 1 .. MaxSends
        BY <4>1
      <4> QED BY <4>2 DEF SentByLoop, Messages
    <3> QED BY <1>5, <3>1 DEF Shutdown, TypeInv, TypeOK
  <2> QED BY <1>5, <2>1 DEF Shutdown, TypeInv, TypeOK, QueuedExist, CalledExist, StateE
<1>6. CASE ForceCloseWithDelay
  BY <1>6 DEF ForceCloseWithDelay, TypeInv, TypeOK, QueuedExist, CalledExist, StateE
<1>7. CASE StartRead
  BY <1>7 DEF StartRead, TypeInv, TypeOK, QueuedExist, CalledExist
<1>8. CASE StopRead
  BY <1>8 DEF StopRead, TypeInv, TypeOK, QueuedExist, CalledExist
<1>9. CASE StopServer
  <2>1. removals' \in Nat
    BY <1>9 DEF StopServer, TypeInv, TypeOK, connectDestroyed
  <2> QED BY <1>9, <2>1, Zenon
          DEF StopServer, TypeInv, TypeOK, QueuedExist, CalledExist, connectDestroyed, StateE
<1>10. ASSUME NEW writable \in BOOLEAN, Poll(writable) PROVE TypeInv'
  BY <1>10 DEF Poll, TypeInv, TypeOK, QueuedExist, CalledExist, Ready
<1>11. CASE PeerCloses \/ PeerResets
  BY <1>11 DEF PeerCloses, PeerResets, TypeInv, TypeOK, QueuedExist, CalledExist
<1>12. ASSUME NEW g \in Functor, g.op # "send",
              pendingFunctors' \in {pendingFunctors, Append(pendingFunctors, g)},
              sends' = sends, batch' = batch
       PROVE  /\ pendingFunctors' \in Seq(Functor) /\ batch' \in 0 .. Len(pendingFunctors')
              /\ QueuedExist'
  <2>1. QueueStep(pendingFunctors, pendingFunctors', 0, g)
    BY <1>12, Queues
  <2>2. batch \in Nat /\ Len(sends) \in Nat
    BY LenProperties DEF TypeInv, TypeOK
  <2> QED BY <1>12, <2>1, <2>2, QueueKeeps
<1>13. CASE ForceClose
  <2>1. /\ pendingFunctors' = Append(pendingFunctors, Call("forceClose", 0))
        /\ sends' = sends /\ userPc' = userPc /\ batch' = batch
        /\ state' = "kDisconnecting"
    BY <1>13 DEF ForceClose, forceClose
  <2>2. /\ pendingFunctors' \in Seq(Functor) /\ batch' \in 0 .. Len(pendingFunctors')
        /\ QueuedExist'
    BY <1>12, <2>1, CallTypes
  <2> QED BY <1>13, <2>1, <2>2 DEF ForceClose, TypeInv, TypeOK, CalledExist, StateE
<1>14. CASE DelayedForceClose
  <2>1. /\ pendingFunctors' \in {pendingFunctors, Append(pendingFunctors, Call("forceClose", 0))}
        /\ sends' = sends /\ userPc' = userPc /\ batch' = batch
        /\ state' \in {state, "kDisconnecting"}
    BY <1>14 DEF DelayedForceClose, forceClose
  <2>2. /\ pendingFunctors' \in Seq(Functor) /\ batch' \in 0 .. Len(pendingFunctors')
        /\ QueuedExist'
    BY <1>12, <2>1, CallTypes
  <2> QED BY <1>14, <2>1, <2>2 DEF DelayedForceClose, TypeInv, TypeOK, CalledExist, StateE
<1>15. CASE HandleHup \/ HandleReadClosed
  <2>1. /\ pendingFunctors' = Append(pendingFunctors, Call("destroy", 0))
        /\ sends' = sends /\ userPc' = userPc /\ batch' = batch
    BY <1>15 DEF HandleHup, HandleReadClosed, handleClose, closeCallback
  <2>2. /\ pendingFunctors' \in Seq(Functor) /\ batch' \in 0 .. Len(pendingFunctors')
        /\ QueuedExist'
    BY <1>12, <2>1, CallTypes
  <2> QED BY <1>15, <2>1, <2>2
          DEF HandleHup, HandleReadClosed, handleClose, closeCallback, eventsAfterClose,
              TypeInv, TypeOK, CalledExist, StateE
<1>16. CASE HandleWrite
  <2>1. /\ pendingFunctors' \in {pendingFunctors, Append(pendingFunctors, Call("writeComplete", 0))}
        /\ sends' = sends /\ userPc' = userPc /\ batch' = batch
        /\ events' \subseteq events
        /\ writeShut' \in BOOLEAN
    BY <1>16 DEF HandleWrite, Written, TypeInv, TypeOK
  <2>2. /\ pendingFunctors' \in Seq(Functor) /\ batch' \in 0 .. Len(pendingFunctors')
        /\ QueuedExist'
    BY <1>12, <2>1, CallTypes
  <2>3. outputBuffer' \in Seq(Messages) /\ wire' \in Seq(Messages)
    <3>1. outputBuffer \in Seq(Messages) /\ wire \in Seq(Messages)
      BY DEF TypeInv, TypeOK
    <3>2. CASE UNCHANGED <<outputBuffer, wire>>
      BY <3>1, <3>2
    <3>3. ASSUME NEW n \in 1 .. Len(outputBuffer), Written(n)
          PROVE  outputBuffer' \in Seq(Messages) /\ wire' \in Seq(Messages)
      <4>1. Len(outputBuffer) \in Nat /\ \A i \in 1 .. Len(outputBuffer) : outputBuffer[i] \in Messages
        BY <3>1, LenProperties, ElementOfSeq
      <4>2. SubSeq(outputBuffer, 1, n) \in Seq(Messages)
        <5>1. 1 \in Int /\ n \in Int /\ \A i \in 1 .. n : outputBuffer[i] \in Messages
          BY <4>1
        <5> QED BY <5>1, SubSeqProperties
      <4>3. SubSeq(outputBuffer, n + 1, Len(outputBuffer)) \in Seq(Messages)
        <5>1. n + 1 \in Int /\ Len(outputBuffer) \in Int
              /\ \A i \in n + 1 .. Len(outputBuffer) : outputBuffer[i] \in Messages
          BY <4>1
        <5> QED BY <5>1, SubSeqProperties
      <4> QED BY <3>1, <3>3, <4>2, <4>3, ConcatProperties DEF Written
    <3> QED BY <1>16, <3>2, <3>3 DEF HandleWrite
  <2> QED BY <1>16, <2>1, <2>2, <2>3
          DEF HandleWrite, TypeInv, TypeOK, CalledExist, StateE
<1>17. ASSUME NEW g \in Functor, g.op # "send", RunFunctor,
              pendingFunctors' \in {Tail(pendingFunctors), Append(Tail(pendingFunctors), g)}
       PROVE  /\ pendingFunctors' \in Seq(Functor) /\ batch' \in 0 .. Len(pendingFunctors')
              /\ QueuedExist' /\ CalledExist'
  <2>1. batch \in Nat /\ Len(sends) \in Nat /\ batch > 0 /\ batch' = batch - 1 /\ sends' = sends
        /\ userPc' = userPc
    BY <1>17, LenProperties DEF TypeInv, TypeOK, RunFunctor
  <2>2. QueueStep(pendingFunctors, pendingFunctors', 1, g)
    BY <1>17, <2>1, Takes
  <2> QED BY <1>17, <2>1, <2>2, QueueKeeps DEF TypeInv, CalledExist
<1>18. CASE RunFunctor
  <2> DEFINE head == Head(pendingFunctors)
             rest == Tail(pendingFunctors)
  <2>0. batch > 0
    BY <1>18 DEF RunFunctor
  <2>1. ASSUME head.op = "send", RunSend(rest) PROVE TypeInv'
    <3>1. PICK k : k = head.msg
      OBVIOUS
    <3>2. k \in Messages /\ sends[k].size \in Nat \ {0} /\ rest \in Seq(Functor)
      BY <2>0, <2>1, <3>1, FirstFunctor
    <3>3. sendInLoop(k, sends[k].size, rest)
      BY <2>1, <3>1 DEF RunSend
    <3>4. /\ events' \subseteq {"read", "write"}
          /\ outputBuffer' \in Seq(Messages) /\ wire' \in Seq(Messages)
          /\ accepted' \in Seq(Messages)
          /\ \E g \in Signals : g.op \in {"writeComplete", "highWater"}
                                /\ pendingFunctors' \in {rest, Append(rest, g)}
      BY <3>2, <3>3, SendInLoopType DEF TypeInv
    <3>5. /\ pendingFunctors' \in Seq(Functor) /\ batch' \in 0 .. Len(pendingFunctors')
          /\ QueuedExist' /\ CalledExist'
      <4>1. PICK g \in Signals : /\ g.op \in {"writeComplete", "highWater"}
                                 /\ pendingFunctors' \in {rest, Append(rest, g)}
        BY <3>4
      <4>2. g \in Functor
        BY DEF Functor, Signals
      <4> QED BY <1>17, <1>18, <4>1, <4>2
    <3> QED BY <1>18, <2>1, <3>4, <3>5, Zenon DEF RunFunctor, RunSend, TypeInv, TypeOK
  <2>2. ASSUME RunShutdown(rest) PROVE TypeInv'
    <3>1. /\ pendingFunctors' \in Seq(Functor) /\ batch' \in 0 .. Len(pendingFunctors')
          /\ QueuedExist' /\ CalledExist'
      BY <1>17, <1>18, <2>2, CallTypes DEF RunShutdown
    <3>2. writeShut' \in BOOLEAN
      BY <2>2 DEF RunShutdown
    <3> QED BY <1>18, <2>2, <3>1, <3>2, Zenon DEF RunFunctor, RunShutdown, TypeInv, TypeOK
  <2>3. ASSUME RunForceClose(rest) PROVE TypeInv'
    <3>1. pendingFunctors' \in {rest, Append(rest, Call("destroy", 0))}
      BY <2>3 DEF RunForceClose, handleClose, closeCallback
    <3>2. /\ pendingFunctors' \in Seq(Functor) /\ batch' \in 0 .. Len(pendingFunctors')
          /\ QueuedExist' /\ CalledExist'
      BY <1>17, <1>18, <3>1, CallTypes
    <3>3. /\ state' \in StateE /\ events' \subseteq {"read", "write"} /\ owner' \in BOOLEAN
          /\ failed' \subseteq {"handleClose", "erased", "isNoneEvent"}
      BY <2>3 DEF RunForceClose, handleClose, closeCallback, eventsAfterClose, TypeInv,
                  TypeOK, StateE
    <3> QED BY <1>18, <2>3, <3>2, <3>3, Zenon DEF RunFunctor, RunForceClose, TypeInv, TypeOK
  <2>4. ASSUME RunDestroy(rest) PROVE TypeInv'
    <3>1. /\ pendingFunctors' \in Seq(Functor) /\ batch' \in 0 .. Len(pendingFunctors')
          /\ QueuedExist' /\ CalledExist'
      BY <1>17, <1>18, <2>4, CallTypes DEF RunDestroy
    <3>2. removals' \in Nat
      BY <2>4 DEF RunDestroy, connectDestroyed, TypeInv, TypeOK
    <3>3. /\ state' \in StateE /\ events' \subseteq {"read", "write"}
          /\ failed' \subseteq {"handleClose", "erased", "isNoneEvent"}
      BY <2>4 DEF RunDestroy, connectDestroyed, TypeInv, TypeOK, StateE
    <3> QED BY <1>18, <2>4, <3>1, <3>2, <3>3, Zenon DEF RunFunctor, RunDestroy, TypeInv, TypeOK
  <2>5. ASSUME RunCallback(rest) PROVE TypeInv'
    <3>1. /\ pendingFunctors' \in Seq(Functor) /\ batch' \in 0 .. Len(pendingFunctors')
          /\ QueuedExist' /\ CalledExist'
      BY <1>17, <1>18, <2>5, CallTypes DEF RunCallback
    <3> QED BY <1>18, <2>5, <3>1, Zenon DEF RunFunctor, RunCallback, TypeInv, TypeOK
  <2> QED BY <1>18, <2>1, <2>2, <2>3, <2>4, <2>5 DEF RunFunctor
<1>19. ASSUME NEW n \in Sizes, NEW t \in Threads, Len(sends) < MaxSends,
              sends' = Append(sends, [thread |-> t, size |-> n])
       PROVE  /\ sends' \in Seq([thread : Threads, size : Sizes])
              /\ Len(sends') \in Nat /\ Len(sends') = Len(sends) + 1 /\ Len(sends') <= MaxSends
              /\ Len(sends) \in Nat /\ Len(sends) + 1 \in Messages
              /\ Len(sends) + 1 \in 1 .. Len(sends')
  <2>1. sends \in Seq([thread : Threads, size : Sizes]) /\ Len(sends) \in Nat /\ MaxSends \in Nat
    BY LenProperties DEF TypeInv, TypeOK
  <2>2. [thread |-> t, size |-> n] \in [thread : Threads, size : Sizes]
    OBVIOUS
  <2>3. sends' \in Seq([thread : Threads, size : Sizes]) /\ Len(sends') = Len(sends) + 1
    BY <1>19, <2>1, <2>2, AppendProperties
  <2> QED BY <1>19, <2>1, <2>3 DEF Messages
<1>20. ASSUME NEW n \in Sizes, Send(n) PROVE TypeInv'
  <2>1. /\ sends' \in Seq([thread : Threads, size : Sizes])
        /\ Len(sends') \in Nat /\ Len(sends') = Len(sends) + 1 /\ Len(sends') <= MaxSends
        /\ Len(sends) \in Nat /\ Len(sends) + 1 \in Messages
    BY <1>19, <1>20 DEF Send, Threads
  <2>2. n \in Nat \ {0} /\ sendInLoop(Len(sends) + 1, n, pendingFunctors)
    BY <1>20 DEF Send
  <2>3. /\ events' \subseteq {"read", "write"}
        /\ outputBuffer' \in Seq(Messages) /\ wire' \in Seq(Messages)
        /\ accepted' \in Seq(Messages)
        /\ \E g \in Signals : g.op \in {"writeComplete", "highWater"}
                              /\ pendingFunctors' \in {pendingFunctors, Append(pendingFunctors, g)}
    <3>1. pendingFunctors \in Seq(Functor) /\ TypeOK
      BY DEF TypeInv, TypeOK
    <3> QED BY <2>1, <2>2, <3>1, SendInLoopType
  <2>4. /\ pendingFunctors' \in Seq(Functor) /\ batch' \in 0 .. Len(pendingFunctors')
        /\ QueuedExist'
    <3>1. PICK g \in Signals : /\ g.op \in {"writeComplete", "highWater"}
                               /\ pendingFunctors' \in {pendingFunctors, Append(pendingFunctors, g)}
      BY <2>3
    <3>2. g \in Functor
      BY DEF Functor, Signals
    <3>3. QueueStep(pendingFunctors, pendingFunctors', 0, g)
      BY <3>1, <3>2, Queues
    <3>4. batch' = batch - 0 /\ 0 <= batch
      BY <1>20 DEF Send, TypeInv, TypeOK
    <3> QED BY <2>1, <3>1, <3>2, <3>3, <3>4, QueueKeeps
  <2>5. CalledExist'
    <3>1. 1 .. Len(sends) \subseteq 1 .. Len(sends')
      BY <2>1
    <3> QED BY <1>20, <3>1 DEF Send, TypeInv, CalledExist
  <2> QED BY <1>20, <2>1, <2>3, <2>4, <2>5, Zenon DEF Send, TypeInv, TypeOK
<1>21. ASSUME NEW u \in Users, NEW n \in Sizes, UserSend(u, n) PROVE TypeInv'
  <2>1. /\ sends' \in Seq([thread : Threads, size : Sizes])
        /\ Len(sends') \in Nat /\ Len(sends') = Len(sends) + 1 /\ Len(sends') <= MaxSends
        /\ Len(sends) \in Nat /\ Len(sends) + 1 \in Messages /\ Len(sends) + 1 \in 1 .. Len(sends')
    BY <1>19, <1>21 DEF UserSend, Threads
  <2>2. 1 .. Len(sends) \subseteq 1 .. Len(sends')
    BY <2>1
  <2>3. QueuedExist'
    BY <1>21, <2>2 DEF UserSend, TypeInv, QueuedExist
  <2>4. PICK k : k = Len(sends) + 1
    OBVIOUS
  <2>5. Call("send", k).msg = k /\ k \in Messages /\ k \in 1 .. Len(sends')
    BY <2>1, <2>4, CallTypes
  <2>6. userPc' = [userPc EXCEPT ![u] = Call("send", k)]
    BY <1>21, <2>4 DEF UserSend
  <2>7. CalledExist'
    BY <2>2, <2>5, <2>6 DEF TypeInv, TypeOK, CalledExist
  <2>8. Call("send", k) \in [op : {"send"}, msg : Messages]
    BY <2>5 DEF Call
  <2> QED BY <1>21, <2>1, <2>3, <2>6, <2>7, <2>8 DEF UserSend, TypeInv, TypeOK
<1>22. ASSUME NEW u \in Users, UserQueuesSend(u) PROVE TypeInv'
  <2>1. userPc[u] \in Functor /\ userPc[u].msg \in 1 .. Len(sends)
    BY <1>22 DEF UserQueuesSend, TypeInv, TypeOK, CalledExist, Functor, Idle, Call
  <2>2. QueueStep(pendingFunctors, pendingFunctors', 0, userPc[u])
    BY <1>22, <2>1, Queues DEF UserQueuesSend
  <2>3. /\ batch' = batch - 0 /\ 0 <= batch /\ Len(sends) \in Nat /\ sends' = sends
    BY <1>22, LenProperties DEF UserQueuesSend, TypeInv, TypeOK
  <2>4. /\ pendingFunctors' \in Seq(Functor) /\ batch' \in 0 .. Len(pendingFunctors')
        /\ QueuedExist'
    BY <2>1, <2>2, <2>3, QueueKeeps
  <2>5. CalledExist'
    BY <1>22, CallTypes DEF UserQueuesSend, TypeInv, TypeOK, CalledExist
  <2> QED BY <1>22, <2>4, <2>5 DEF UserQueuesSend, TypeInv, TypeOK
<1>23. ASSUME NEW u \in Users, UserQueuesClose(u) PROVE TypeInv'
  <2>1. PICK op \in {"shutdown", "forceClose"} :
           pendingFunctors' = Append(pendingFunctors, Call(op, 0))
    BY <1>23 DEF UserQueuesClose
  <2>2. sends' = sends /\ batch' = batch
    BY <1>23 DEF UserQueuesClose
  <2>3. /\ pendingFunctors' \in Seq(Functor) /\ batch' \in 0 .. Len(pendingFunctors')
        /\ QueuedExist'
    BY <1>12, <2>1, <2>2, CallTypes
  <2>4. CalledExist'
    BY <1>23, CallTypes DEF UserQueuesClose, TypeInv, TypeOK, CalledExist
  <2> QED BY <1>23, <2>3, <2>4 DEF UserQueuesClose, TypeInv, TypeOK
<1>24. ASSUME NEW u \in Users, UserShutdown(u) \/ UserForceClose(u) PROVE TypeInv'
  <2>1. CalledExist'
    BY <1>24 DEF UserShutdown, UserForceClose, TypeInv, TypeOK, CalledExist, Call
  <2>2. PICK op \in {"shutdown", "forceClose"} : userPc' = [userPc EXCEPT ![u] = Call(op, 0)]
    BY <1>24 DEF UserShutdown, UserForceClose
  <2>3. UNCHANGED <<state, events, socketVars, peer, loopVars, delayed, owner, historyVars>>
    BY <1>24 DEF UserShutdown, UserForceClose
  <2> QED BY <2>1, <2>2, <2>3 DEF TypeInv, TypeOK, QueuedExist, Call
<1>25. ASSUME NEW u \in Users, UserSetsState(u) PROVE TypeInv'
  <2>1. PICK op \in {"queueShutdown", "queueForceClose"} :
           userPc' = [userPc EXCEPT ![u] = Call(op, 0)]
    BY <1>25 DEF UserSetsState
  <2>2. CalledExist'
    BY <1>25, <2>1 DEF UserSetsState, TypeInv, TypeOK, CalledExist, Call
  <2> QED BY <1>25, <2>1, <2>2 DEF UserSetsState, TypeInv, TypeOK, QueuedExist, Call, StateE
<1> QED BY <1>1, <1>2, <1>3, <1>4, <1>5, <1>6, <1>7, <1>8, <1>9, <1>10, <1>11, <1>13, <1>14,
           <1>15, <1>16, <1>18, <1>20, <1>21, <1>22, <1>23, <1>24, <1>25
        DEF Next, LoopStep, UserCode, UserStep, ForeignCall

LEMMA TypeInit ==
    ASSUME Init
    PROVE  TypeInv
<1>1. /\ QueuedExist /\ Len(sends) <= MaxSends /\ batch \in 0 .. Len(pendingFunctors)
      /\ pendingFunctors \in Seq(Functor)
  BY EmptySeq DEF Init, QueuedExist
<1>2. CalledExist
  BY CallTypes DEF Init, CalledExist
<1> QED BY <1>1, <1>2, EmptySeq DEF Init, TypeInv, TypeOK, StateE

LEMMA TypeInvariant == Spec => []TypeInv
<1>1. Init => TypeInv
  BY TypeInit
<1>2. TypeInv /\ [Next]_vars => TypeInv'
  <2>1. TypeInv /\ UNCHANGED vars => TypeInv'
    BY DEF vars, loopVars, socketVars, historyVars, TypeInv, TypeOK, QueuedExist, CalledExist
  <2> QED BY <2>1, TypeStep
<1> QED BY <1>1, <1>2, PTL DEF Spec

(* Every variable keeps its type: in particular a queued message was sent, *)
(* so RunSend() finds it, and doPendingFunctors() never runs a functor of  *)
(* an empty queue.                                                         *)
THEOREM TypeCorrect == Spec => []TypeOK
<1>1. TypeInv => TypeOK
  BY DEF TypeInv
<1> QED BY <1>1, TypeInvariant, PTL

-----------------------------------------------------------------------------
(* The life of the connection.                                             *)

\* Before connectEstablished() nothing has happened to the connection.
Fresh ==
    state = "kConnecting" =>
        /\ events = {} /\ outputBuffer = <<>> /\ pendingFunctors = <<>> /\ batch = 0
        /\ phase = "events" /\ revents = {} /\ owner
        /\ \A u \in Users : userPc[u] = Idle

\* Callbacks are left to make only while the channel is dispatched, and at most
\* one of them closes the connection.
Dispatch ==
    /\ phase # "events" => revents = {}
    /\ ~("hup" \in revents /\ "in" \in revents)

\* The functors at these places of the queue execute connectDestroyed().
Destroys == {i \in 1 .. Len(pendingFunctors) : pendingFunctors[i].op = "destroy"}

\* The map holds the connection until it is disconnected, from then on the channel
\* is idle, and the only call of connectDestroyed() is queued, or was made.
TornDownOnce ==
    /\ owner <=> state # "kDisconnected"
    /\ state = "kDisconnected" => events = {}
    /\ revents \cap {"hup", "in"} # {} => Open
    /\ owner => Destroys = {} /\ removals = 0
    /\ \A i, j \in Destroys : i = j
    /\ Destroys # {} => removals = 0
    /\ removals <= 1
    /\ failed = {}

LifeInv == TypeInv /\ Fresh /\ Dispatch /\ WritesIffBuffered

\* sendInLoop() leaves buffer and interest alone, or both ask for writability.
LEMMA SendInLoopBuffers ==
    ASSUME TypeOK, NEW k \in Messages, NEW n \in Nat \ {0}, NEW queue,
           sendInLoop(k, n, queue)
    PROVE  \/ UNCHANGED <<events, outputBuffer>>
           \/ /\ state # "kDisconnected"
              /\ "write" \in events' /\ outputBuffer' # <<>>
<1>1. ASSUME NEW nwrote \in 0 .. n, BufferOutput(k, n, nwrote, queue)
      PROVE  \/ UNCHANGED <<events, outputBuffer>>
             \/ "write" \in events' /\ outputBuffer' # <<>>
  <2>1. CASE n - nwrote = 0
    BY <1>1, <2>1 DEF BufferOutput
  <2>2. CASE n - nwrote # 0
    <3>1. n - nwrote \in Nat
      OBVIOUS
    <3>2. Units(k, n - nwrote) \in Seq(Messages) /\ Len(Units(k, n - nwrote)) = n - nwrote
      BY <3>1, UnitsType
    <3>3. Units(k, n - nwrote) # <<>>
      BY <2>2, <3>2, EmptySeq
    <3>4. events' = enableWriting(events) /\ outputBuffer' = outputBuffer \o Units(k, n - nwrote)
      BY <1>1, <2>2 DEF BufferOutput
    <3>5. outputBuffer' # <<>>
      BY <3>2, <3>3, <3>4, ConcatEqualIffEmpty DEF TypeOK
    <3> QED BY <3>4, <3>5 DEF enableWriting
  <2> QED BY <2>1, <2>2
<1>2. 0 \in 0 .. n
  OBVIOUS
<1> QED BY <1>1, <1>2 DEF sendInLoop

LEMMA LifeStep ==
    ASSUME LifeInv, Next
    PROVE  LifeInv'
<1> USE DEF loopVars, socketVars, historyVars
<1>0. TypeInv' /\ TypeInv
  BY TypeStep DEF LifeInv
<1> DEFINE Life == Fresh /\ Dispatch /\ WritesIffBuffered
<1> SUFFICES Life'
  BY <1>0 DEF LifeInv
<1> USE DEF WritesIffBuffered, StillOpen, Open, isWriting, Fresh, Dispatch
<1>1. CASE ConnectEstablished
  BY <1>1 DEF ConnectEstablished, LifeInv
<1>2. CASE HandleReadError
  BY <1>2 DEF HandleReadError, LifeInv
<1>3. CASE EventsDone
  BY <1>3 DEF EventsDone, LifeInv
<1>4. CASE FunctorsDone
  BY <1>4 DEF FunctorsDone, LifeInv
<1>5. CASE Shutdown
  BY <1>5 DEF Shutdown, LifeInv
<1>6. CASE ForceCloseWithDelay
  BY <1>6 DEF ForceCloseWithDelay, LifeInv
<1>7. CASE StartRead
  BY <1>7 DEF StartRead, LifeInv
<1>8. CASE StopRead
  BY <1>8 DEF StopRead, LifeInv
<1>9. CASE StopServer
  BY <1>9 DEF StopServer, LifeInv, connectDestroyed
<1>10. ASSUME NEW writable \in BOOLEAN, Poll(writable) PROVE Life'
  BY <1>10 DEF Poll, LifeInv, Ready
<1>11. CASE PeerCloses \/ PeerResets
  BY <1>11 DEF PeerCloses, PeerResets, LifeInv
<1>12. CASE ForceClose
  BY <1>12 DEF ForceClose, forceClose, LifeInv
<1>13. CASE DelayedForceClose
  BY <1>13 DEF DelayedForceClose, forceClose, LifeInv
<1>14. CASE HandleHup \/ HandleReadClosed
  BY <1>14 DEF HandleHup, HandleReadClosed, handleClose, closeCallback, LifeInv
<1>15. CASE HandleWrite
  BY <1>15 DEF HandleWrite, Written, LifeInv
<1>16. CASE RunFunctor
  <2>0. state # "kConnecting"
    BY <1>16 DEF RunFunctor, LifeInv
  <2>1. ASSUME RunSend(Tail(pendingFunctors)), Head(pendingFunctors).op = "send" PROVE Life'
    <3>1. \/ UNCHANGED <<events, outputBuffer>>
          \/ "write" \in events' /\ outputBuffer' # <<>>
      <4>1. PICK k : k = Head(pendingFunctors).msg
        OBVIOUS
      <4>2. k \in Messages /\ sends[k].size \in Nat \ {0}
        BY <1>0, <1>16, <2>1, <4>1, FirstFunctor DEF RunFunctor
      <4>3. sendInLoop(k, sends[k].size, Tail(pendingFunctors))
        BY <2>1, <4>1 DEF RunSend
      <4> QED BY <1>0, <4>2, <4>3, SendInLoopBuffers DEF TypeInv
    <3>2. UNCHANGED <<state, resurrected, phase, revents>>
      BY <1>16, <2>1 DEF RunFunctor, RunSend
    <3> QED BY <2>0, <3>1, <3>2 DEF LifeInv
  <2>2. ASSUME RunShutdown(Tail(pendingFunctors)) PROVE Life'
    BY <1>16, <2>0, <2>2 DEF RunFunctor, RunShutdown, LifeInv
  <2>3. ASSUME RunForceClose(Tail(pendingFunctors)) PROVE Life'
    BY <1>16, <2>0, <2>3 DEF RunFunctor, RunForceClose, handleClose, LifeInv
  <2>4. ASSUME RunDestroy(Tail(pendingFunctors)) PROVE Life'
    BY <1>16, <2>0, <2>4 DEF RunFunctor, RunDestroy, connectDestroyed, LifeInv
  <2>5. ASSUME RunCallback(Tail(pendingFunctors)) PROVE Life'
    BY <1>16, <2>0, <2>5 DEF RunFunctor, RunCallback, LifeInv
  <2> QED BY <1>16, <2>1, <2>2, <2>3, <2>4, <2>5 DEF RunFunctor
<1>17. ASSUME NEW n \in Sizes, Send(n) PROVE Life'
  <2>1. Len(sends) \in Nat /\ MaxSends \in Nat /\ n \in Nat \ {0} /\ Len(sends) < MaxSends
    BY <1>0, <1>17, LenProperties DEF Send, TypeInv, TypeOK
  <2>2. Len(sends) + 1 \in Messages
    BY <2>1 DEF Messages
  <2>3. \/ UNCHANGED <<events, outputBuffer>>
        \/ "write" \in events' /\ outputBuffer' # <<>>
    BY <1>0, <1>17, <2>1, <2>2, SendInLoopBuffers DEF Send, TypeInv
  <2>4. UNCHANGED <<state, resurrected, phase, revents>> /\ state = "kConnected"
    BY <1>17 DEF Send
  <2> QED BY <2>3, <2>4 DEF LifeInv
<1>18. ASSUME NEW u \in Users, NEW n \in Sizes, UserSend(u, n) PROVE Life'
  BY <1>18 DEF UserSend, LifeInv
<1>19. ASSUME NEW u \in Users, userPc[u] # Idle PROVE state # "kConnecting"
  BY <1>19 DEF LifeInv
<1>20. ASSUME NEW u \in Users, UserQueuesSend(u) PROVE Life'
  <2>1. state # "kConnecting"
    BY <1>19, <1>20, CallTypes DEF UserQueuesSend
  <2> QED BY <1>20, <2>1 DEF UserQueuesSend, LifeInv
<1>21. ASSUME NEW u \in Users, UserQueuesClose(u) PROVE Life'
  <2>1. state # "kConnecting"
    BY <1>19, <1>21, CallTypes DEF UserQueuesClose
  <2> QED BY <1>21, <2>1 DEF UserQueuesClose, LifeInv
<1>22. ASSUME NEW u \in Users, UserShutdown(u) \/ UserForceClose(u) PROVE Life'
  BY <1>22 DEF UserShutdown, UserForceClose, LifeInv
<1>23. ASSUME NEW u \in Users, UserSetsState(u) PROVE Life'
  <2>1. state # "kConnecting"
    BY <1>19, <1>23, CallTypes DEF UserSetsState
  <2>2. state \in StateE
    BY <1>0 DEF TypeInv, TypeOK
  <2> QED BY <1>23, <2>1, <2>2 DEF UserSetsState, LifeInv, StateE
<1> QED BY <1>1, <1>2, <1>3, <1>4, <1>5, <1>6, <1>7, <1>8, <1>9, <1>10, <1>11, <1>12, <1>13, <1>14,
           <1>15, <1>16, <1>17, <1>18, <1>20, <1>21, <1>22, <1>23
        DEF Next, LoopStep, UserCode, UserStep, ForeignCall

LEMMA LifeInvariant == Spec => []LifeInv
<1>1. Init => LifeInv
  <2>1. Init => TypeInv
    BY TypeInit
  <2> QED BY <2>1 DEF Init, LifeInv, Fresh, Dispatch, WritesIffBuffered, StillOpen, Open
<1>2. LifeInv /\ [Next]_vars => LifeInv'
  <2>1. LifeInv /\ UNCHANGED vars => LifeInv'
    BY DEF vars, loopVars, socketVars, historyVars, LifeInv, TypeInv, TypeOK, QueuedExist,
           CalledExist, Fresh, Dispatch, WritesIffBuffered, StillOpen, Open, isWriting
  <2> QED BY <2>1, LifeStep
<1> QED BY <1>1, <1>2, PTL DEF Spec

(* Output neither stalls nor spins: while a connection is open and no      *)
(* foreign close raced with its disconnection, handleWrite() is registered *)
(* exactly when outputBuffer_ holds something, however direct writes,      *)
(* partial writes, closes and the switching of reading interleave.         *)
THEOREM WritesWhenBuffered == Spec => []WritesIffBuffered
<1>1. LifeInv => WritesIffBuffered
  BY DEF LifeInv
<1> QED BY <1>1, LifeInvariant, PTL

-----------------------------------------------------------------------------
(* The connection is taken apart once.                                     *)

\* The queued calls of connectDestroyed() after a step of the queue.
LEMMA DestroysStep ==
    ASSUME NEW d \in {0, 1}, NEW g \in Functor,
           QueueStep(pendingFunctors, pendingFunctors', d, g),
           \A i, j \in Destroys : i = j
    PROVE  /\ g.op # "destroy" =>
                 /\ Destroys = {} => Destroys' = {}
                 /\ \A i, j \in Destroys' : i = j
           /\ Destroys = {} => \A i, j \in Destroys' : i = j
           /\ g.op # "destroy" /\ d = 1 /\ 1 \in Destroys => Destroys' = {}
<1>1. Len(pendingFunctors) \in Nat /\ Len(pendingFunctors') \in Nat
  BY DEF QueueStep
<1>2. ASSUME NEW i \in Destroys'
      PROVE  /\ i \in Nat /\ i > 0
             /\ i + d \in Destroys \/ (i + d = Len(pendingFunctors) + 1 /\ g.op = "destroy")
  <2>1. i \in 1 .. Len(pendingFunctors') /\ pendingFunctors'[i].op = "destroy"
    BY DEF Destroys
  <2>2. \/ i + d \in 1 .. Len(pendingFunctors) /\ pendingFunctors'[i] = pendingFunctors[i + d]
        \/ i + d = Len(pendingFunctors) + 1 /\ pendingFunctors'[i] = g
    BY <2>1 DEF QueueStep
  <2>3. i \in Nat /\ i > 0
    BY <1>1, <2>1
  <2> QED BY <2>1, <2>2, <2>3 DEF Destroys
<1>3. ASSUME g.op # "destroy", NEW i \in Destroys', NEW j \in Destroys' PROVE i = j
  <2>1. i + d \in Destroys /\ j + d \in Destroys /\ i \in Nat /\ j \in Nat
    BY <1>2, <1>3
  <2>2. i + d = j + d
    BY <2>1
  <2> QED BY <2>1, <2>2
<1>4. ASSUME Destroys = {}, NEW i \in Destroys', NEW j \in Destroys' PROVE i = j
  <2>1. i + d = Len(pendingFunctors) + 1 /\ j + d = Len(pendingFunctors) + 1 /\ i \in Nat /\ j \in Nat
    BY <1>2, <1>4
  <2> QED BY <1>1, <2>1
<1>5. ASSUME g.op # "destroy", d = 1, 1 \in Destroys, NEW i \in Destroys' PROVE FALSE
  <2>1. i + d \in Destroys /\ i \in Nat /\ i > 0
    BY <1>2, <1>5
  <2>2. i + d = 1
    BY <1>5, <2>1
  <2> QED BY <1>5, <2>1, <2>2
<1>6. ASSUME g.op # "destroy", Destroys = {}, NEW i \in Destroys' PROVE FALSE
  BY <1>2, <1>6
<1> QED BY <1>3, <1>4, <1>5, <1>6

\* No step unmakes the race that sets a disconnected connection back.
LEMMA RaceStays ==
    ASSUME Next
    PROVE  resurrected' = resurrected \/ \E u \in Users : UserSetsState(u)
BY DEF Next, LoopStep, UserCode, UserStep, ForeignCall, loopVars, historyVars, socketVars,
       ConnectEstablished, HandleHup, HandleReadError, HandleReadClosed, HandleWrite,
       EventsDone, RunFunctor, FunctorsDone, Shutdown, ForceClose, ForceCloseWithDelay,
       StartRead, StopRead, StopServer, Send, UserQueuesSend, UserQueuesClose,
       UserShutdown, UserForceClose, UserSend, DelayedForceClose, Poll, PeerCloses, PeerResets

\* Where no connection that is being closed meets the end of its server.
LEMMA CloseStep ==
    ASSUME LifeInv, TypeInv', ServerStops # "any", ~resurrected => TornDownOnce, Next,
           ~resurrected'
    PROVE  TornDownOnce'
<1> USE DEF loopVars, socketVars, historyVars
<1>0. TypeInv /\ Fresh /\ Dispatch
  BY DEF LifeInv
<1>00. state \in StateE /\ removals \in Nat
  BY <1>0 DEF TypeInv, TypeOK
<1>1. ~resurrected /\ (\A u \in Users : UserSetsState(u) => state # "kDisconnected")
  <2>1. ASSUME NEW u \in Users, UserSetsState(u) PROVE ~resurrected /\ state # "kDisconnected"
    BY <2>1, Zenon DEF UserSetsState
  <2> QED BY <2>1, RaceStays
<1>2. TornDownOnce
  BY <1>1
\* What the actions leave alone while the queue changes as it may.
<1>3. ASSUME UNCHANGED pendingFunctors PROVE Destroys' = Destroys
  BY <1>3 DEF Destroys
<1>4. ASSUME NEW g \in Functor, g.op # "destroy",
             pendingFunctors' \in {pendingFunctors, Append(pendingFunctors, g)}
      PROVE  /\ Destroys = {} => Destroys' = {}
             /\ \A i, j \in Destroys' : i = j
  <2>1. QueueStep(pendingFunctors, pendingFunctors', 0, g)
    BY <1>0, <1>4, Queues
  <2> QED BY <1>2, <1>4, <2>1, DestroysStep DEF TornDownOnce
<1>5. ASSUME NEW g \in Functor, g.op # "destroy", batch > 0,
             pendingFunctors' \in {Tail(pendingFunctors), Append(Tail(pendingFunctors), g)}
      PROVE  /\ Destroys = {} => Destroys' = {}
             /\ \A i, j \in Destroys' : i = j
             /\ 1 \in Destroys => Destroys' = {}
  <2>1. QueueStep(pendingFunctors, pendingFunctors', 1, g)
    BY <1>0, <1>5, Takes
  <2> QED BY <1>2, <1>5, <2>1, DestroysStep DEF TornDownOnce
<1> USE DEF Open
<1>6. CASE ConnectEstablished
  BY <1>0, <1>2, <1>3, <1>6 DEF ConnectEstablished, TornDownOnce, Fresh
<1>7. CASE HandleReadError
  BY <1>2, <1>3, <1>7 DEF HandleReadError, TornDownOnce
<1>8. CASE EventsDone
  BY <1>2, <1>3, <1>8 DEF EventsDone, TornDownOnce
<1>9. CASE FunctorsDone
  BY <1>2, <1>3, <1>9 DEF FunctorsDone, TornDownOnce
<1>10. CASE Shutdown
  BY <1>2, <1>3, <1>10 DEF Shutdown, TornDownOnce
<1>11. CASE ForceCloseWithDelay
  BY <1>2, <1>3, <1>11 DEF ForceCloseWithDelay, TornDownOnce
<1>12. CASE StartRead \/ StopRead
  BY <1>2, <1>3, <1>12 DEF StartRead, StopRead, TornDownOnce
<1>13. CASE StopServer
  BY <1>2, <1>3, <1>13 DEF StopServer, connectDestroyed, TornDownOnce
<1>14. ASSUME NEW writable \in BOOLEAN, Poll(writable) PROVE TornDownOnce'
  <2>1. state # "kConnecting"
    BY <1>0, <1>14 DEF Poll, Fresh
  <2>2. revents' \cap {"hup", "in"} # {} => Open'
    BY <1>00, <1>2, <1>14, <2>1 DEF Poll, Ready, TornDownOnce, StateE
  <2> QED BY <1>2, <1>3, <1>14, <2>2 DEF Poll, TornDownOnce
<1>15. CASE PeerCloses \/ PeerResets
  BY <1>2, <1>3, <1>15 DEF PeerCloses, PeerResets, TornDownOnce
<1>16. CASE ForceClose \/ DelayedForceClose
  <2>1. /\ Destroys = {} => Destroys' = {}
        /\ \A i, j \in Destroys' : i = j
    BY <1>4, <1>16, CallTypes DEF ForceClose, DelayedForceClose, forceClose
  <2> QED BY <1>2, <1>16, <2>1 DEF ForceClose, DelayedForceClose, forceClose, TornDownOnce
<1>17. CASE HandleHup \/ HandleReadClosed
  <2>1. Open /\ owner /\ Destroys = {} /\ removals = 0
    BY <1>2, <1>17 DEF HandleHup, HandleReadClosed, TornDownOnce
  <2>2. \A i, j \in Destroys' : i = j
    <3>1. pendingFunctors' = Append(pendingFunctors, Call("destroy", 0))
      BY <1>17 DEF HandleHup, HandleReadClosed, handleClose, closeCallback
    <3>2. QueueStep(pendingFunctors, pendingFunctors', 0, Call("destroy", 0))
      BY <1>0, <3>1, Queues, CallTypes
    <3> QED BY <2>1, <3>2, DestroysStep, CallTypes
  <2>3. revents' \cap {"hup", "in"} = {}
    BY <1>0, <1>17 DEF HandleHup, HandleReadClosed, Dispatch
  <2> QED BY <1>2, <1>17, <2>1, <2>2, <2>3
          DEF HandleHup, HandleReadClosed, handleClose, closeCallback, eventsAfterClose, TornDownOnce
<1>18. CASE HandleWrite
  <2>1. /\ Destroys = {} => Destroys' = {}
        /\ \A i, j \in Destroys' : i = j
    BY <1>4, <1>18, CallTypes DEF HandleWrite, Written
  <2>2. events' \subseteq events
    BY <1>18 DEF HandleWrite, Written
  <2> QED BY <1>2, <1>18, <2>1, <2>2 DEF HandleWrite, TornDownOnce
<1>19. CASE RunFunctor
  <2> DEFINE rest == Tail(pendingFunctors)
  <2>0. batch > 0 /\ revents = {} /\ revents' = {} /\ state # "kConnecting"
    BY <1>0, <1>19 DEF RunFunctor, Dispatch, Fresh
  <2>1. ASSUME RunSend(rest), Head(pendingFunctors).op = "send" PROVE TornDownOnce'
    <3>1. PICK k : k = Head(pendingFunctors).msg
      OBVIOUS
    <3>2. k \in Messages /\ sends[k].size \in Nat \ {0} /\ rest \in Seq(Functor)
      BY <1>0, <2>0, <2>1, <3>1, FirstFunctor
    <3>3. sendInLoop(k, sends[k].size, rest)
      BY <2>1, <3>1 DEF RunSend
    <3>4. state = "kDisconnected" => events' = events
      BY <1>0, <3>2, <3>3, SendInLoopBuffers DEF TypeInv
    <3>5. \E g \in Signals : g.op \in {"writeComplete", "highWater"}
                              /\ pendingFunctors' \in {rest, Append(rest, g)}
      BY <1>0, <3>2, <3>3, SendInLoopType DEF TypeInv
    <3>6. /\ Destroys = {} => Destroys' = {}
          /\ \A i, j \in Destroys' : i = j
      <4>1. PICK g \in Signals : /\ g.op \in {"writeComplete", "highWater"}
                                 /\ pendingFunctors' \in {rest, Append(rest, g)}
        BY <3>5
      <4>2. g \in Functor
        BY DEF Functor, Signals
      <4> QED BY <1>5, <2>0, <4>1, <4>2
    <3> QED BY <1>2, <2>0, <2>1, <3>4, <3>6 DEF RunSend, TornDownOnce
  <2>2. ASSUME RunShutdown(rest) \/ RunCallback(rest) PROVE TornDownOnce'
    <3>1. /\ Destroys = {} => Destroys' = {}
          /\ \A i, j \in Destroys' : i = j
      BY <1>5, <2>0, <2>2, CallTypes DEF RunShutdown, RunCallback
    <3> QED BY <1>2, <2>0, <2>2, <3>1 DEF RunShutdown, RunCallback, TornDownOnce
  <2>3. ASSUME RunForceClose(rest) PROVE TornDownOnce'
    <3>1. CASE ~Open
      <4>1. /\ Destroys = {} => Destroys' = {}
            /\ \A i, j \in Destroys' : i = j
        BY <1>5, <2>0, <2>3, <3>1, CallTypes DEF RunForceClose
      <4> QED BY <1>2, <2>0, <2>3, <3>1, <4>1 DEF RunForceClose, TornDownOnce
    <3>2. CASE Open
      <4>1. owner /\ Destroys = {} /\ removals = 0
        BY <1>2, <3>2 DEF TornDownOnce
      <4>2. \A i, j \in Destroys' : i = j
        <5>1. pendingFunctors' = Append(rest, Call("destroy", 0))
          BY <2>3, <3>2 DEF RunForceClose, handleClose, closeCallback
        <5>2. QueueStep(pendingFunctors, pendingFunctors', 1, Call("destroy", 0))
          BY <1>0, <2>0, <5>1, Takes, CallTypes
        <5> QED BY <4>1, <5>2, DestroysStep, CallTypes
      <4> QED BY <1>2, <2>0, <2>3, <3>2, <4>1, <4>2
              DEF RunForceClose, handleClose, closeCallback, eventsAfterClose, TornDownOnce
    <3> QED BY <3>1, <3>2
  <2>4. ASSUME RunDestroy(rest), Head(pendingFunctors).op = "destroy" PROVE TornDownOnce'
    <3>1. 1 \in Destroys
      BY <1>0, <2>0, <2>4, FirstFunctor DEF Destroys
    <3>2. ~owner /\ state = "kDisconnected" /\ events = {} /\ removals = 0 /\ failed = {}
      BY <1>2, <3>1 DEF TornDownOnce
    <3>3. Destroys' = {}
      BY <1>5, <2>0, <2>4, <3>1, CallTypes DEF RunDestroy
    <3> QED BY <2>0, <2>4, <3>2, <3>3 DEF RunDestroy, connectDestroyed, TornDownOnce
  <2> QED BY <1>19, <2>1, <2>2, <2>3, <2>4 DEF RunFunctor
<1>20. ASSUME NEW n \in Sizes, Send(n) PROVE TornDownOnce'
  <2>1. Len(sends) \in Nat /\ MaxSends \in Nat /\ n \in Nat \ {0} /\ Len(sends) < MaxSends
    BY <1>0, <1>20, LenProperties DEF Send, TypeInv, TypeOK
  <2>2. Len(sends) + 1 \in Messages /\ pendingFunctors \in Seq(Functor) /\ TypeOK
    <3>1. Len(sends) + 1 \in Messages
      BY <2>1 DEF Messages
    <3>2. pendingFunctors \in Seq(Functor) /\ TypeOK
      BY <1>0, Zenon DEF TypeInv, TypeOK
    <3> QED BY <3>1, <3>2
  <2>3. \E g \in Signals : g.op \in {"writeComplete", "highWater"}
                           /\ pendingFunctors' \in {pendingFunctors, Append(pendingFunctors, g)}
    BY <1>20, <2>1, <2>2, SendInLoopType DEF Send
  <2>4. /\ Destroys = {} => Destroys' = {}
        /\ \A i, j \in Destroys' : i = j
    <3>1. PICK g \in Signals : /\ g.op \in {"writeComplete", "highWater"}
                               /\ pendingFunctors' \in {pendingFunctors, Append(pendingFunctors, g)}
      BY <2>3
    <3>2. g \in Functor
      BY DEF Functor, Signals
    <3> QED BY <1>4, <3>1, <3>2
  <2> QED BY <1>2, <1>20, <2>4 DEF Send, TornDownOnce
<1>21. ASSUME NEW u \in Users, NEW n \in Sizes, UserSend(u, n) PROVE TornDownOnce'
  BY <1>2, <1>3, <1>21 DEF UserSend, TornDownOnce
<1>22. ASSUME NEW u \in Users, UserQueuesSend(u) \/ UserQueuesClose(u) PROVE TornDownOnce'
  <2>1. PICK g \in Functor : g.op # "destroy" /\ pendingFunctors' = Append(pendingFunctors, g)
    <3>1. userPc[u].op = "send" => userPc[u] \in Functor
      <4>1. userPc[u] \in {Idle} \cup [op : {"send"}, msg : Messages]
                           \cup [op : {"shutdown", "forceClose", "queueShutdown",
                                        "queueForceClose"}, msg : {0}]
        BY <1>0 DEF TypeInv, TypeOK
      <4> QED BY <4>1 DEF Functor, Idle, Call
    <3>2. CASE UserQueuesSend(u)
      BY <3>1, <3>2 DEF UserQueuesSend
    <3>3. CASE UserQueuesClose(u)
      <4>1. PICK op \in {"shutdown", "forceClose"} :
               pendingFunctors' = Append(pendingFunctors, Call(op, 0))
        BY <3>3 DEF UserQueuesClose
      <4> QED BY <4>1, CallTypes
    <3> QED BY <1>22, <3>2, <3>3
  <2>2. /\ Destroys = {} => Destroys' = {}
        /\ \A i, j \in Destroys' : i = j
    BY <1>4, <2>1
  <2> QED BY <1>2, <1>22, <2>2 DEF UserQueuesSend, UserQueuesClose, TornDownOnce
<1>23. ASSUME NEW u \in Users, UserShutdown(u) \/ UserForceClose(u) PROVE TornDownOnce'
  BY <1>2, <1>3, <1>23 DEF UserShutdown, UserForceClose, TornDownOnce
<1>24. ASSUME NEW u \in Users, UserSetsState(u) PROVE TornDownOnce'
  BY <1>1, <1>2, <1>3, <1>24 DEF UserSetsState, TornDownOnce
<1> QED BY <1>6, <1>7, <1>8, <1>9, <1>10, <1>11, <1>12, <1>13, <1>14, <1>15, <1>16, <1>17, <1>18,
           <1>19, <1>20, <1>21, <1>22, <1>23, <1>24
        DEF Next, LoopStep, UserCode, UserStep, ForeignCall

(* The asserts of handleClose(), removeConnectionInLoop() and              *)
(* Channel::remove() hold and connectDestroyed() is executed at most once, *)
(* unless a foreign close raced with the disconnection, whichever of the   *)
(* peer, forceClose(), its timer and the server's orderly end comes first, *)
(* and however many functors wait in between.  ~TcpServer() over a         *)
(* connection that is being closed is excluded: it breaks the third assert *)
(* (Channel.cc:61), which TcpServer shows across loops.                    *)
THEOREM ClosedOnce ==
    ASSUME ServerStops # "any"
    PROVE  Spec => []ClosesOnce
<1> DEFINE CloseInv == ~resurrected => TornDownOnce
<1>1. Init => CloseInv
  BY EmptySeq DEF Init, TornDownOnce, Destroys, Open
<1>2. LifeInv /\ LifeInv' /\ CloseInv /\ [Next]_vars => CloseInv'
  <2>1. CloseInv /\ UNCHANGED vars => CloseInv'
    BY DEF vars, loopVars, socketVars, historyVars, TornDownOnce, Destroys, Open
  <2> QED BY <2>1, CloseStep DEF LifeInv
<1>3. CloseInv => ClosesOnce
  BY DEF TornDownOnce, ClosesOnce
<1> QED BY <1>1, <1>2, <1>3, LifeInvariant, PTL DEF Spec

-----------------------------------------------------------------------------
(* Output in order.                                                        *)

\* Messages a and b of one thread are taken in the order it sent them.
InOrder(s, a, b) == s[a].thread = s[b].thread => a <= b

\* What was accepted was sent, and is in the order of each thread.
AcceptedInOrder ==
    /\ \A i \in 1 .. Len(accepted) : accepted[i] \in 1 .. Len(sends)
    /\ \A i, j \in 1 .. Len(accepted) : i < j => InOrder(sends, accepted[i], accepted[j])

\* Queued messages are of foreign threads, come after what was accepted, and
\* are in the order of each thread.
QueuedInOrder ==
    /\ \A i \in 1 .. Len(pendingFunctors) : pendingFunctors[i].op = "send" =>
          /\ sends[pendingFunctors[i].msg].thread # "loop"
          /\ \A a \in 1 .. Len(accepted) : InOrder(sends, accepted[a], pendingFunctors[i].msg)
    /\ \A i, j \in 1 .. Len(pendingFunctors) :
          i < j /\ pendingFunctors[i].op = "send" /\ pendingFunctors[j].op = "send" =>
              InOrder(sends, pendingFunctors[i].msg, pendingFunctors[j].msg)

\* A message whose thread has still to queue it comes after all of those.
CalledInOrder ==
    \A u \in Users : userPc[u].op = "send" =>
        /\ sends[userPc[u].msg].thread = u
        /\ \A a \in 1 .. Len(accepted) : InOrder(sends, accepted[a], userPc[u].msg)
        /\ \A i \in 1 .. Len(pendingFunctors) : pendingFunctors[i].op = "send" =>
              InOrder(sends, pendingFunctors[i].msg, userPc[u].msg)

OrderInv == AcceptedInOrder /\ QueuedInOrder /\ CalledInOrder

\* From a to b, units of message k may have been added.
Accepts(a, b, k) ==
    /\ Len(a) \in Nat /\ Len(b) \in Nat /\ Len(a) <= Len(b)
    /\ \A i \in 1 .. Len(b) :
          \/ i \in 1 .. Len(a) /\ b[i] = a[i]
          \/ i > Len(a) /\ b[i] = k

\* From s to t, messages may have been sent.
Grows(s, t) ==
    /\ Len(s) \in Nat /\ Len(t) \in Nat /\ Len(s) <= Len(t)
    /\ \A k \in 1 .. Len(s) : t[k] = s[k]

\* Earlier messages stay in order.
LEMMA GrowsKeepsOrder ==
    ASSUME NEW s, NEW t, Grows(s, t), NEW a \in 1 .. Len(s), NEW b \in 1 .. Len(s),
           InOrder(s, a, b)
    PROVE  InOrder(t, a, b)
BY DEF Grows, InOrder

\* A step that queues no message, and accepts at most one that comes after what
\* was accepted and before what remains, keeps the order.
LEMMA OrderKept ==
    ASSUME TypeInv, OrderInv, Grows(sends, sends'),
           NEW d \in {0, 1}, NEW g \in Functor, g.op # "send",
           QueueStep(pendingFunctors, pendingFunctors', d, g),
           \A u \in Users : userPc'[u].op = "send" => userPc'[u] = userPc[u],
           NEW k, Accepts(accepted, accepted', k),
           Len(accepted') > Len(accepted) =>
              /\ k \in 1 .. Len(sends')
              /\ \A a \in 1 .. Len(accepted) : InOrder(sends', accepted[a], k)
              /\ \A i \in 1 .. Len(pendingFunctors) :
                    i + d \in 1 .. Len(pendingFunctors) /\ pendingFunctors[i + d].op = "send" =>
                       InOrder(sends', k, pendingFunctors[i + d].msg)
              /\ \A u \in Users : userPc[u].op = "send" => InOrder(sends', k, userPc[u].msg)
    PROVE  OrderInv'
<1>0. /\ Len(sends) \in Nat /\ Len(sends') \in Nat /\ Len(sends) <= Len(sends')
      /\ Len(accepted) \in Nat /\ Len(accepted') \in Nat /\ Len(pendingFunctors) \in Nat
      /\ Len(pendingFunctors') \in Nat
  BY DEF Grows, Accepts, QueueStep
<1>1. ASSUME NEW a \in 1 .. Len(sends), NEW b \in 1 .. Len(sends), InOrder(sends, a, b)
      PROVE  InOrder(sends', a, b)
  BY <1>1, GrowsKeepsOrder
\* What the accepted units and the queued messages are.
<1>2. ASSUME NEW i \in 1 .. Len(accepted')
      PROVE  \/ i \in 1 .. Len(accepted) /\ accepted'[i] = accepted[i] /\ accepted[i] \in 1 .. Len(sends)
             \/ i > Len(accepted) /\ accepted'[i] = k /\ Len(accepted') > Len(accepted)
  <2>1. i \in 1 .. Len(accepted) => accepted[i] \in 1 .. Len(sends)
    BY DEF OrderInv, AcceptedInOrder
  <2>2. i > Len(accepted) => Len(accepted') > Len(accepted)
    BY <1>0
  <2> QED BY <2>1, <2>2 DEF Accepts
<1>3. ASSUME NEW i \in 1 .. Len(pendingFunctors'), pendingFunctors'[i].op = "send"
      PROVE  /\ i + d \in 1 .. Len(pendingFunctors) /\ i \in 1 .. Len(pendingFunctors)
             /\ pendingFunctors'[i] = pendingFunctors[i + d]
             /\ pendingFunctors[i + d].op = "send" /\ pendingFunctors[i + d].msg \in 1 .. Len(sends)
  <2>1. i + d \in 1 .. Len(pendingFunctors) /\ pendingFunctors'[i] = pendingFunctors[i + d]
    BY <1>3 DEF QueueStep
  <2>2. i \in 1 .. Len(pendingFunctors)
    BY <1>0, <2>1
  <2>3. pendingFunctors[i + d].op = "send"
    BY <1>3, <2>1
  <2> QED BY <2>1, <2>2, <2>3 DEF TypeInv, QueuedExist
<1>4. ASSUME NEW u \in Users, userPc'[u].op = "send"
      PROVE  userPc'[u] = userPc[u] /\ userPc[u].op = "send" /\ userPc[u].msg \in 1 .. Len(sends)
  <2>1. userPc'[u] = userPc[u]
    BY <1>4
  <2>2. userPc[u].op = "send"
    BY <1>4, <2>1
  <2> QED BY <2>1, <2>2 DEF TypeInv, CalledExist
<1>5. AcceptedInOrder'
  <2>1. ASSUME NEW i \in 1 .. Len(accepted') PROVE accepted'[i] \in 1 .. Len(sends')
    BY <1>0, <1>2
  <2>2. ASSUME NEW i \in 1 .. Len(accepted'), NEW j \in 1 .. Len(accepted'), i < j
        PROVE  InOrder(sends', accepted'[i], accepted'[j])
    <3>1. CASE j \in 1 .. Len(accepted) /\ accepted'[j] = accepted[j] /\ accepted[j] \in 1 .. Len(sends)
      <4>1. i \in 1 .. Len(accepted) /\ accepted'[i] = accepted[i] /\ accepted[i] \in 1 .. Len(sends)
        BY <1>0, <1>2, <2>2, <3>1
      <4>2. InOrder(sends, accepted[i], accepted[j])
        BY <2>2, <3>1, <4>1 DEF OrderInv, AcceptedInOrder
      <4> QED BY <1>1, <3>1, <4>1, <4>2
    <3>2. CASE j > Len(accepted) /\ accepted'[j] = k /\ Len(accepted') > Len(accepted)
      <4>1. CASE accepted'[i] = k
        BY <1>0, <3>2, <4>1 DEF InOrder
      <4>2. CASE i \in 1 .. Len(accepted) /\ accepted'[i] = accepted[i]
        BY <3>2, <4>2
      <4> QED BY <1>2, <4>1, <4>2
    <3> QED BY <1>2, <3>1, <3>2
  <2> QED BY <2>1, <2>2 DEF AcceptedInOrder
<1>6. QueuedInOrder'
  <2>1. ASSUME NEW i \in 1 .. Len(pendingFunctors'), pendingFunctors'[i].op = "send"
        PROVE  /\ sends'[pendingFunctors'[i].msg].thread # "loop"
               /\ \A a \in 1 .. Len(accepted') : InOrder(sends', accepted'[a], pendingFunctors'[i].msg)
    <3>1. PICK m : m = pendingFunctors[i + d].msg
      OBVIOUS
    <3>2. /\ m \in 1 .. Len(sends) /\ pendingFunctors'[i].msg = m /\ i + d \in 1 .. Len(pendingFunctors)
          /\ i \in 1 .. Len(pendingFunctors) /\ pendingFunctors[i + d].op = "send"
      BY <1>3, <2>1, <3>1
    <3>3. sends[m].thread # "loop" /\ \A a \in 1 .. Len(accepted) : InOrder(sends, accepted[a], m)
      BY <3>1, <3>2 DEF OrderInv, QueuedInOrder
    <3>4. sends'[m].thread # "loop"
      BY <3>2, <3>3 DEF Grows
    <3>5. ASSUME NEW a \in 1 .. Len(accepted') PROVE InOrder(sends', accepted'[a], m)
      <4>1. CASE a \in 1 .. Len(accepted) /\ accepted'[a] = accepted[a] /\ accepted[a] \in 1 .. Len(sends)
        BY <1>1, <3>2, <3>3, <4>1
      <4>2. CASE accepted'[a] = k /\ Len(accepted') > Len(accepted)
        BY <3>1, <3>2, <4>2
      <4> QED BY <1>2, <4>1, <4>2
    <3> QED BY <3>2, <3>4, <3>5
  <2>2. ASSUME NEW i \in 1 .. Len(pendingFunctors'), NEW j \in 1 .. Len(pendingFunctors'), i < j,
               pendingFunctors'[i].op = "send", pendingFunctors'[j].op = "send"
        PROVE  InOrder(sends', pendingFunctors'[i].msg, pendingFunctors'[j].msg)
    <3>1. /\ i + d \in 1 .. Len(pendingFunctors) /\ j + d \in 1 .. Len(pendingFunctors)
          /\ pendingFunctors'[i] = pendingFunctors[i + d] /\ pendingFunctors[i + d].op = "send"
          /\ pendingFunctors'[j] = pendingFunctors[j + d] /\ pendingFunctors[j + d].op = "send"
          /\ pendingFunctors[i + d].msg \in 1 .. Len(sends)
          /\ pendingFunctors[j + d].msg \in 1 .. Len(sends)
      BY <1>3, <2>2
    <3>2. i + d < j + d
      BY <1>0, <2>2
    <3>3. InOrder(sends, pendingFunctors[i + d].msg, pendingFunctors[j + d].msg)
      BY <3>1, <3>2 DEF OrderInv, QueuedInOrder
    <3> QED BY <1>1, <3>1, <3>3
  <2> QED BY <2>1, <2>2 DEF QueuedInOrder
<1>7. CalledInOrder'
  <2> SUFFICES ASSUME NEW u \in Users, userPc'[u].op = "send"
               PROVE  /\ sends'[userPc'[u].msg].thread = u
                      /\ \A a \in 1 .. Len(accepted') : InOrder(sends', accepted'[a], userPc'[u].msg)
                      /\ \A i \in 1 .. Len(pendingFunctors') : pendingFunctors'[i].op = "send" =>
                            InOrder(sends', pendingFunctors'[i].msg, userPc'[u].msg)
    BY DEF CalledInOrder
  <2>1. PICK m : m = userPc[u].msg
    OBVIOUS
  <2>2. userPc'[u].msg = m /\ m \in 1 .. Len(sends) /\ userPc[u].op = "send"
    BY <1>4, <2>1
  <2>3. /\ sends[m].thread = u
        /\ \A a \in 1 .. Len(accepted) : InOrder(sends, accepted[a], m)
        /\ \A i \in 1 .. Len(pendingFunctors) : pendingFunctors[i].op = "send" =>
              InOrder(sends, pendingFunctors[i].msg, m)
    BY <2>1, <2>2 DEF OrderInv, CalledInOrder
  <2>4. sends'[m].thread = u
    BY <2>2, <2>3 DEF Grows
  <2>5. ASSUME NEW a \in 1 .. Len(accepted') PROVE InOrder(sends', accepted'[a], m)
    <3>1. CASE a \in 1 .. Len(accepted) /\ accepted'[a] = accepted[a] /\ accepted[a] \in 1 .. Len(sends)
      BY <1>1, <2>2, <2>3, <3>1
    <3>2. CASE accepted'[a] = k /\ Len(accepted') > Len(accepted)
      BY <2>1, <2>2, <3>2
    <3> QED BY <1>2, <3>1, <3>2
  <2>6. ASSUME NEW i \in 1 .. Len(pendingFunctors'), pendingFunctors'[i].op = "send"
        PROVE  InOrder(sends', pendingFunctors'[i].msg, m)
    <3>1. InOrder(sends, pendingFunctors[i + d].msg, m)
      BY <1>3, <2>3, <2>6
    <3> QED BY <1>1, <1>3, <2>2, <2>6, <3>1
  <2> QED BY <2>2, <2>4, <2>5, <2>6
<1> QED BY <1>5, <1>6, <1>7 DEF OrderInv

\* No unit is lost, duplicated or moved.
NothingLost == wire \o outputBuffer = accepted

LEMMA UnitsAdd ==
    ASSUME NEW k \in Messages, NEW m \in Nat, NEW n \in Nat
    PROVE  Units(k, m) \o Units(k, n) = Units(k, m + n) /\ Units(k, 0) = <<>>
<1> DEFINE a == Units(k, m)
           b == Units(k, n)
           c == Units(k, m + n)
<1>1. a \in Seq(Messages) /\ Len(a) = m /\ \A i \in 1 .. m : a[i] = k
  BY UnitsType
<1>2. b \in Seq(Messages) /\ Len(b) = n /\ \A i \in 1 .. n : b[i] = k
  BY UnitsType
<1>3. m + n \in Nat /\ 0 \in Nat
  OBVIOUS
<1>4. c \in Seq(Messages) /\ Len(c) = m + n /\ \A i \in 1 .. m + n : c[i] = k
  BY <1>3, UnitsType
<1>5. Units(k, 0) = <<>>
  <2>1. Units(k, 0) \in Seq(Messages) /\ Len(Units(k, 0)) = 0
    BY <1>3, UnitsType
  <2> QED BY <2>1, EmptySeq
<1> HIDE DEF a, b, c
<1>6. /\ a \o b \in Seq(Messages) /\ Len(a \o b) = Len(a) + Len(b)
      /\ \A i \in 1 .. Len(a) + Len(b) :
            (a \o b)[i] = IF i <= Len(a) THEN a[i] ELSE b[i - Len(a)]
  BY <1>1, <1>2, ConcatProperties, Zenon
<1>7. \A i \in 1 .. m + n : (a \o b)[i] = k
  <2> SUFFICES ASSUME NEW i \in 1 .. m + n PROVE (a \o b)[i] = k
    OBVIOUS
  <2>1. CASE i <= m
    <3>1. i \in 1 .. m
      BY <2>1
    <3> QED BY <1>1, <1>2, <1>6, <2>1, <3>1
  <2>2. CASE ~(i <= m)
    <3>1. i - m \in 1 .. n
      BY <2>2
    <3> QED BY <1>1, <1>2, <1>6, <2>2, <3>1
  <2> QED BY <2>1, <2>2
<1>8. a \o b = c
  <2>1. PICK ab \in Seq(Messages) : ab = a \o b
    BY <1>6
  <2>2. Len(ab) = m + n /\ \A i \in 1 .. m + n : ab[i] = k
    BY <1>1, <1>2, <1>6, <1>7, <2>1
  <2>3. Len(ab) = Len(c) /\ \A i \in 1 .. Len(ab) : ab[i] = c[i]
    BY <1>4, <2>2
  <2>4. ab = c
    BY <1>4, <2>3, SeqEqual
  <2> QED BY <2>1, <2>4
<1> QED BY <1>5, <1>8 DEF a, b, c

\* sendInLoop() takes a whole message or none, and splits it between the wire and
\* the buffer without a gap.
LEMMA SendInLoopAccepts ==
    ASSUME TypeOK, NothingLost, NEW k \in Messages, NEW n \in Nat \ {0}, NEW queue,
           sendInLoop(k, n, queue)
    PROVE  Accepts(accepted, accepted', k) /\ NothingLost'
<1>0. accepted \in Seq(Messages) /\ wire \in Seq(Messages) /\ outputBuffer \in Seq(Messages)
      /\ Len(accepted) \in Nat
  BY LenProperties DEF TypeOK
<1>1. CASE UNCHANGED <<outputBuffer, wire, accepted>>
  BY <1>0, <1>1 DEF Accepts, NothingLost
<1>2. ASSUME NEW nwrote \in 0 .. n, BufferOutput(k, n, nwrote, queue),
             nwrote # 0 => outputBuffer = <<>>
      PROVE  Accepts(accepted, accepted', k) /\ NothingLost'
  <2> DEFINE rem == n - nwrote
             U == Units(k, n)
             V == Units(k, nwrote)
             W == Units(k, rem)
  <2>1. n \in Nat /\ nwrote \in Nat /\ rem \in Nat /\ nwrote + rem = n
    OBVIOUS
  <2>2. U \in Seq(Messages) /\ V \in Seq(Messages) /\ W \in Seq(Messages) /\ Len(U) = n
        /\ \A i \in 1 .. n : U[i] = k
    BY <2>1, UnitsType
  <2>3. V \o W = U
    <3>1. Units(k, nwrote) \o Units(k, rem) = Units(k, nwrote + rem)
      BY <2>1, UnitsAdd, Zenon
    <3> QED BY <2>1, <3>1
  <2>4. nwrote = 0 => V = <<>>
    BY <2>1, UnitsAdd
  <2>5. rem = 0 => W = <<>>
    BY <2>1, UnitsAdd
  <2>6. accepted' = accepted \o U /\ wire' = wire \o V
    BY <1>2 DEF BufferOutput
  <2>7. outputBuffer' = outputBuffer \o W
    <3>1. CASE rem = 0
      BY <1>0, <1>2, <2>5, <3>1, ConcatEmptySeq DEF BufferOutput
    <3>2. CASE rem # 0
      BY <1>2, <3>2 DEF BufferOutput
    <3> QED BY <3>1, <3>2
  <2> HIDE DEF U, V, W, rem
  <2>8. Accepts(accepted, accepted', k)
    <3>1. /\ Len(accepted \o U) = Len(accepted) + n
          /\ \A i \in 1 .. Len(accepted) + n : (accepted \o U)[i] =
                IF i <= Len(accepted) THEN accepted[i] ELSE U[i - Len(accepted)]
      BY <1>0, <2>2, ConcatProperties
    <3>2. ASSUME NEW i \in 1 .. Len(accepted) + n
          PROVE  \/ i \in 1 .. Len(accepted) /\ accepted'[i] = accepted[i]
                 \/ i > Len(accepted) /\ accepted'[i] = k
      <4>1. CASE i <= Len(accepted)
        <5>1. i \in 1 .. Len(accepted)
          BY <1>0, <4>1
        <5> QED BY <2>6, <3>1, <4>1, <5>1
      <4>2. CASE ~(i <= Len(accepted))
        <5>1. i - Len(accepted) \in 1 .. n /\ i > Len(accepted)
          BY <1>0, <4>2
        <5>2. accepted'[i] = U[i - Len(accepted)]
          BY <2>6, <3>1, <4>2
        <5>3. accepted'[i] = k
          BY <2>2, <5>1, <5>2
        <5> QED BY <5>1, <5>3
      <4> QED BY <4>1, <4>2
    <3>3. Len(accepted') = Len(accepted) + n
      BY <2>6, <3>1
    <3> QED BY <1>0, <2>1, <3>2, <3>3 DEF Accepts
  <2>9. NothingLost'
    <3>1. outputBuffer = <<>> \/ V = <<>>
      BY <1>2, <2>4
    <3>2. wire' \o outputBuffer' = (wire \o outputBuffer) \o (V \o W)
      <4>1. CASE outputBuffer = <<>>
        <5>1. wire \o outputBuffer = wire /\ outputBuffer \o W = W
          BY <1>0, <2>2, <4>1, ConcatEmptySeq
        <5>2. (wire \o V) \o W = wire \o (V \o W)
          <6>1. PICK x \in Seq(Messages), y \in Seq(Messages), z \in Seq(Messages) :
                   x = wire /\ y = V /\ z = W
            BY <1>0, <2>2
          <6>2. (x \o y) \o z = x \o (y \o z)
            BY ConcatAssociative
          <6> QED BY <6>1, <6>2
        <5> QED BY <2>6, <2>7, <5>1, <5>2
      <4>2. CASE V = <<>>
        <5>1. wire \o V = wire /\ V \o W = W
          BY <1>0, <2>2, <4>2, ConcatEmptySeq
        <5>2. wire \o (outputBuffer \o W) = (wire \o outputBuffer) \o W
          <6>1. PICK x \in Seq(Messages), y \in Seq(Messages), z \in Seq(Messages) :
                   x = wire /\ y = outputBuffer /\ z = W
            BY <1>0, <2>2
          <6>2. (x \o y) \o z = x \o (y \o z)
            BY ConcatAssociative
          <6> QED BY <6>1, <6>2
        <5> QED BY <2>6, <2>7, <5>1, <5>2
      <4> QED BY <3>1, <4>1, <4>2
    <3> QED BY <2>3, <2>6, <3>2 DEF NothingLost
  <2> QED BY <2>8, <2>9
<1>3. 0 \in 0 .. n
  OBVIOUS
<1> QED BY <1>1, <1>2, <1>3 DEF sendInLoop, triesDirectWrite

\* handleWrite() moves the front of the buffer to the end of the wire.
LEMMA WrittenLosesNothing ==
    ASSUME TypeOK, NothingLost, NEW n \in 1 .. Len(outputBuffer), Written(n),
           accepted' = accepted
    PROVE  NothingLost'
<1> DEFINE a == SubSeq(outputBuffer, 1, n)
           b == SubSeq(outputBuffer, n + 1, Len(outputBuffer))
<1>0. wire \in Seq(Messages) /\ outputBuffer \in Seq(Messages) /\ Len(outputBuffer) \in Nat
      /\ \A i \in 1 .. Len(outputBuffer) : outputBuffer[i] \in Messages
  BY LenProperties, ElementOfSeq DEF TypeOK
<1>1. a \in Seq(Messages)
  <2>1. 1 \in Int /\ n \in Int /\ \A i \in 1 .. n : outputBuffer[i] \in Messages
    BY <1>0
  <2> QED BY <2>1, SubSeqProperties
<1>2. b \in Seq(Messages)
  <2>1. n + 1 \in Int /\ Len(outputBuffer) \in Int
        /\ \A i \in n + 1 .. Len(outputBuffer) : outputBuffer[i] \in Messages
    BY <1>0
  <2> QED BY <2>1, SubSeqProperties
<1>3. a \o b = outputBuffer
  <2>1. /\ 1 \in 1 .. Len(outputBuffer) + 1 /\ n \in 1 - 1 .. Len(outputBuffer)
        /\ Len(outputBuffer) \in n .. Len(outputBuffer)
    BY <1>0
  <2>2. a \o b = SubSeq(outputBuffer, 1, Len(outputBuffer))
    BY <1>0, <2>1, ConcatAdjacentSubSeq
  <2> QED BY <1>0, <2>2, SubSeqFull
<1>4. wire' = wire \o a /\ outputBuffer' = b
  BY DEF Written
<1> HIDE DEF a, b
<1>5. (wire \o a) \o b = wire \o (a \o b)
  <2>1. PICK x \in Seq(Messages), y \in Seq(Messages), z \in Seq(Messages) :
           x = wire /\ y = a /\ z = b
    BY <1>0, <1>1, <1>2
  <2>2. (x \o y) \o z = x \o (y \o z)
    BY ConcatAssociative
  <2> QED BY <2>1, <2>2
<1> QED BY <1>3, <1>4, <1>5 DEF NothingLost

\* A message that is sent now comes after all messages sent so far.
LEMMA SendsGrow ==
    ASSUME TypeInv, NEW t \in Threads, NEW n \in Sizes, Len(sends) < MaxSends,
           sends' = Append(sends, [thread |-> t, size |-> n])
    PROVE  /\ Grows(sends, sends') /\ Len(sends) \in Nat /\ Len(sends') = Len(sends) + 1
           /\ Len(sends) + 1 \in 1 .. Len(sends') /\ Len(sends) + 1 \in Messages
           /\ sends'[Len(sends) + 1].thread = t
           /\ \A a \in 1 .. Len(sends) : InOrder(sends', a, Len(sends) + 1)
<1>1. sends \in Seq([thread : Threads, size : Sizes]) /\ Len(sends) \in Nat /\ MaxSends \in Nat
  BY LenProperties DEF TypeInv, TypeOK
<1>2. [thread |-> t, size |-> n] \in [thread : Threads, size : Sizes]
  OBVIOUS
<1>3. /\ Len(sends') = Len(sends) + 1 /\ sends'[Len(sends) + 1] = [thread |-> t, size |-> n]
      /\ \A k \in 1 .. Len(sends) : sends'[k] = sends[k]
  BY <1>1, <1>2, AppendProperties
<1>4. Grows(sends, sends')
  BY <1>1, <1>3 DEF Grows
<1>5. Len(sends) + 1 \in 1 .. Len(sends') /\ Len(sends) + 1 \in Messages
  BY <1>1, <1>3 DEF Messages
<1>6. \A a \in 1 .. Len(sends) : a <= Len(sends) + 1
  BY <1>1
<1> QED BY <1>1, <1>3, <1>4, <1>5, <1>6 DEF InOrder

LEMMA OrderStep ==
    ASSUME LifeInv, NothingLost, OrderInv, Next
    PROVE  NothingLost' /\ OrderInv'
<1> USE DEF loopVars, socketVars, historyVars
<1>0. TypeInv /\ TypeOK
  BY DEF LifeInv, TypeInv
<1>1. Grows(sends, sends) /\ Accepts(accepted, accepted, 0)
      /\ Len(accepted) \in Nat /\ Len(sends) \in Nat
  BY <1>0, LenProperties DEF TypeOK, Grows, Accepts
\* The steps that accept nothing and queue no message.
<1>2. ASSUME UNCHANGED <<accepted, sends>>,
             NEW d \in {0, 1}, NEW g \in Functor, g.op # "send",
             QueueStep(pendingFunctors, pendingFunctors', d, g),
             \A u \in Users : userPc'[u].op = "send" => userPc'[u] = userPc[u]
      PROVE  OrderInv'
  <2>1. Grows(sends, sends') /\ Accepts(accepted, accepted', 0) /\ ~(Len(accepted') > Len(accepted))
    BY <1>1, <1>2
  <2> QED BY <1>0, <1>2, <2>1, OrderKept
<1>3. ASSUME UNCHANGED <<accepted, sends>>, NEW op \in {"shutdown", "forceClose", "writeComplete", "destroy"},
             pendingFunctors' \in {pendingFunctors, Append(pendingFunctors, Call(op, 0))},
             \A u \in Users : userPc'[u].op = "send" => userPc'[u] = userPc[u]
      PROVE  OrderInv'
  <2>1. Call(op, 0) \in Functor /\ Call(op, 0).op # "send"
    BY CallTypes
  <2>2. QueueStep(pendingFunctors, pendingFunctors', 0, Call(op, 0))
    BY <1>0, <1>3, <2>1, Queues
  <2> QED BY <1>2, <1>3, <2>1, <2>2
<1>4. ASSUME UNCHANGED <<accepted, sends, userPc>>, NEW op \in {"destroy"}, batch > 0,
             pendingFunctors' \in {Tail(pendingFunctors), Append(Tail(pendingFunctors), Call(op, 0))}
      PROVE  OrderInv'
  <2>1. Call(op, 0) \in Functor /\ Call(op, 0).op # "send"
    BY CallTypes
  <2>2. QueueStep(pendingFunctors, pendingFunctors', 1, Call(op, 0))
    BY <1>0, <1>4, <2>1, Takes
  <2> QED BY <1>2, <1>4, <2>1, <2>2
<1>5. ASSUME UNCHANGED <<wire, outputBuffer, accepted>> PROVE NothingLost'
  BY <1>5 DEF NothingLost
<1>6. CASE \/ ConnectEstablished \/ HandleReadError \/ EventsDone \/ FunctorsDone \/ Shutdown
           \/ ForceCloseWithDelay \/ StartRead \/ StopRead \/ StopServer \/ PeerCloses \/ PeerResets
           \/ \E writable \in BOOLEAN : Poll(writable)
  <2>1. UNCHANGED <<wire, outputBuffer, accepted, sends, pendingFunctors, userPc>>
    BY <1>6 DEF ConnectEstablished, HandleReadError, EventsDone, FunctorsDone, Shutdown,
                ForceCloseWithDelay, StartRead, StopRead, StopServer, PeerCloses, PeerResets, Poll
  <2> QED BY <1>3, <1>5, <2>1
<1>7. CASE ForceClose \/ DelayedForceClose
  <2>1. /\ UNCHANGED <<wire, outputBuffer, accepted, sends, userPc>>
        /\ pendingFunctors' \in {pendingFunctors, Append(pendingFunctors, Call("forceClose", 0))}
    BY <1>7 DEF ForceClose, DelayedForceClose, forceClose
  <2> QED BY <1>3, <1>5, <2>1
<1>8. CASE HandleHup \/ HandleReadClosed
  <2>1. /\ UNCHANGED <<wire, outputBuffer, accepted, sends, userPc>>
        /\ pendingFunctors' \in {pendingFunctors, Append(pendingFunctors, Call("destroy", 0))}
    BY <1>8 DEF HandleHup, HandleReadClosed, handleClose, closeCallback
  <2> QED BY <1>3, <1>5, <2>1
<1>9. CASE HandleWrite
  <2>1. /\ UNCHANGED <<accepted, sends, userPc>>
        /\ pendingFunctors' \in {pendingFunctors, Append(pendingFunctors, Call("writeComplete", 0))}
    BY <1>9 DEF HandleWrite, Written
  <2>2. NothingLost'
    BY <1>0, <1>5, <1>9, <2>1, WrittenLosesNothing DEF HandleWrite
  <2> QED BY <1>3, <2>1, <2>2
<1>10. CASE RunFunctor
  <2> DEFINE rest == Tail(pendingFunctors)
  <2>0. batch > 0 /\ UNCHANGED <<sends, userPc>>
    BY <1>10 DEF RunFunctor
  <2>1. ASSUME RunSend(rest), Head(pendingFunctors).op = "send" PROVE NothingLost' /\ OrderInv'
    <3>1. PICK k : k = Head(pendingFunctors).msg
      OBVIOUS
    <3>2. /\ k \in Messages /\ sends[k].size \in Nat \ {0} /\ rest \in Seq(Functor)
          /\ k \in 1 .. Len(sends) /\ Head(pendingFunctors) = pendingFunctors[1]
          /\ 1 \in 1 .. Len(pendingFunctors)
      BY <1>0, <2>0, <2>1, <3>1, FirstFunctor
    <3>3. sendInLoop(k, sends[k].size, rest)
      BY <2>1, <3>1 DEF RunSend
    <3>4. Accepts(accepted, accepted', k) /\ NothingLost'
      BY <1>0, <3>2, <3>3, SendInLoopAccepts
    <3>5. PICK g \in Signals : /\ g.op \in {"writeComplete", "highWater"}
                               /\ pendingFunctors' \in {rest, Append(rest, g)}
      BY <1>0, <3>2, <3>3, SendInLoopType
    <3>6. g \in Functor /\ g.op # "send"
      BY <3>5 DEF Functor, Signals
    <3>7. QueueStep(pendingFunctors, pendingFunctors', 1, g)
      BY <1>0, <2>0, <3>5, <3>6, Takes
    <3>8. pendingFunctors[1].op = "send" /\ pendingFunctors[1].msg = k
      BY <2>1, <3>1, <3>2
    <3>9. \A a \in 1 .. Len(accepted) : InOrder(sends, accepted[a], k)
      BY <3>2, <3>8 DEF OrderInv, QueuedInOrder
    <3>10. ASSUME NEW i \in 1 .. Len(pendingFunctors), i + 1 \in 1 .. Len(pendingFunctors),
                  pendingFunctors[i + 1].op = "send"
           PROVE  InOrder(sends, k, pendingFunctors[i + 1].msg)
      <4>1. 1 < i + 1
        OBVIOUS
      <4> QED BY <3>2, <3>8, <3>10, <4>1 DEF OrderInv, QueuedInOrder
    <3>11. \A u \in Users : userPc[u].op = "send" => InOrder(sends, k, userPc[u].msg)
      BY <3>2, <3>8 DEF OrderInv, CalledInOrder
    <3>12. Grows(sends, sends') /\ sends' = sends
      BY <1>1, <2>0
    <3>13. OrderInv'
      BY <1>0, <2>0, <3>2, <3>4, <3>6, <3>7, <3>9, <3>10, <3>11, <3>12, OrderKept
    <3> QED BY <3>4, <3>13
  <2>2. ASSUME RunShutdown(rest) \/ RunForceClose(rest) \/ RunDestroy(rest) \/ RunCallback(rest)
        PROVE  NothingLost' /\ OrderInv'
    <3>1. /\ UNCHANGED <<wire, outputBuffer, accepted>>
          /\ pendingFunctors' \in {rest, Append(rest, Call("destroy", 0))}
      BY <2>2 DEF RunShutdown, RunForceClose, RunDestroy, RunCallback, handleClose, closeCallback
    <3> QED BY <1>4, <1>5, <2>0, <3>1
  <2> QED BY <1>10, <2>1, <2>2 DEF RunFunctor
<1>11. ASSUME NEW n \in Sizes, Send(n) PROVE NothingLost' /\ OrderInv'
  <2>1. PICK k : k = Len(sends) + 1
    OBVIOUS
  <2>2. /\ Grows(sends, sends') /\ k \in Messages /\ k \in 1 .. Len(sends')
        /\ sends'[k].thread = "loop" /\ \A a \in 1 .. Len(sends) : InOrder(sends', a, k)
    <3>1. "loop" \in Threads
      BY DEF Threads
    <3> QED BY <1>0, <1>11, <2>1, <3>1, SendsGrow DEF Send
  <2>3. n \in Nat \ {0} /\ sendInLoop(k, n, pendingFunctors) /\ userPc' = userPc
        /\ pendingFunctors \in Seq(Functor)
    BY <1>0, <1>11, <2>1 DEF Send, TypeOK
  <2>4. Accepts(accepted, accepted', k) /\ NothingLost'
    BY <1>0, <2>2, <2>3, SendInLoopAccepts
  <2>5. PICK g \in Signals : /\ g.op \in {"writeComplete", "highWater"}
                             /\ pendingFunctors' \in {pendingFunctors, Append(pendingFunctors, g)}
    BY <1>0, <2>2, <2>3, SendInLoopType
  <2>6. g \in Functor /\ g.op # "send"
    BY <2>5 DEF Functor, Signals
  <2>7. QueueStep(pendingFunctors, pendingFunctors', 0, g)
    BY <1>0, <2>5, <2>6, Queues
  <2>8. \A a \in 1 .. Len(accepted) : InOrder(sends', accepted[a], k)
    BY <2>2 DEF OrderInv, AcceptedInOrder
  <2>9. ASSUME NEW i \in 1 .. Len(pendingFunctors), pendingFunctors[i].op = "send"
        PROVE  InOrder(sends', k, pendingFunctors[i].msg)
    <3>1. pendingFunctors[i].msg \in 1 .. Len(sends) /\ sends[pendingFunctors[i].msg].thread # "loop"
      BY <1>0, <2>9 DEF TypeInv, QueuedExist, OrderInv, QueuedInOrder
    <3>2. sends'[pendingFunctors[i].msg].thread # "loop"
      BY <2>2, <3>1 DEF Grows
    <3> QED BY <2>2, <3>2 DEF InOrder
  <2>10. ASSUME NEW u \in Users, userPc[u].op = "send" PROVE InOrder(sends', k, userPc[u].msg)
    <3>1. userPc[u].msg \in 1 .. Len(sends) /\ sends[userPc[u].msg].thread # "loop"
      BY <1>0, <2>10, ClosersAssumption DEF TypeInv, CalledExist, OrderInv, CalledInOrder
    <3>2. sends'[userPc[u].msg].thread # "loop"
      BY <2>2, <3>1 DEF Grows
    <3> QED BY <2>2, <3>2 DEF InOrder
  <2>11. \A i \in 1 .. Len(pendingFunctors) :
            i + 0 \in 1 .. Len(pendingFunctors) /\ pendingFunctors[i + 0].op = "send" =>
               InOrder(sends', k, pendingFunctors[i + 0].msg)
    <3> SUFFICES ASSUME NEW i \in 1 .. Len(pendingFunctors), pendingFunctors[i + 0].op = "send"
                 PROVE  InOrder(sends', k, pendingFunctors[i + 0].msg)
      OBVIOUS
    <3>1. i + 0 = i
      OBVIOUS
    <3> QED BY <2>9, <3>1
  <2>12. OrderInv'
    BY <1>0, <2>2, <2>3, <2>4, <2>6, <2>7, <2>8, <2>10, <2>11, OrderKept
  <2> QED BY <2>4, <2>12
<1>12. ASSUME NEW u \in Users, NEW n \in Sizes, UserSend(u, n) PROVE NothingLost' /\ OrderInv'
  <2>1. PICK k : k = Len(sends) + 1
    OBVIOUS
  <2>2. /\ Grows(sends, sends') /\ k \in Messages /\ k \in 1 .. Len(sends')
        /\ sends'[k].thread = u /\ \A a \in 1 .. Len(sends) : InOrder(sends', a, k)
    <3>1. u \in Threads
      BY DEF Threads
    <3> QED BY <1>0, <1>12, <2>1, <3>1, SendsGrow DEF UserSend
  <2>3. /\ UNCHANGED <<wire, outputBuffer, accepted, pendingFunctors>>
        /\ userPc' = [userPc EXCEPT ![u] = Call("send", k)] /\ Call("send", k).msg = k
    BY <1>12, <2>1, <2>2, CallTypes DEF UserSend
  <2>4. ASSUME NEW a \in 1 .. Len(sends), NEW b \in 1 .. Len(sends), InOrder(sends, a, b)
        PROVE  InOrder(sends', a, b)
    BY <2>2, <2>4, GrowsKeepsOrder
  <2>5. AcceptedInOrder'
    <3>1. \A i \in 1 .. Len(sends) : i \in 1 .. Len(sends')
      BY <2>2 DEF Grows
    <3> QED BY <2>3, <2>4, <3>1 DEF OrderInv, AcceptedInOrder
  <2>6. QueuedInOrder'
    <3>1. \A i \in 1 .. Len(pendingFunctors) : pendingFunctors[i].op = "send" =>
             /\ pendingFunctors[i].msg \in 1 .. Len(sends)
             /\ sends'[pendingFunctors[i].msg] = sends[pendingFunctors[i].msg]
      BY <1>0, <2>2 DEF TypeInv, QueuedExist, Grows
    <3>2. \A a \in 1 .. Len(accepted) : accepted[a] \in 1 .. Len(sends)
      BY DEF OrderInv, AcceptedInOrder
    <3> QED BY <2>3, <2>4, <3>1, <3>2 DEF OrderInv, QueuedInOrder
  <2>7. CalledInOrder'
    <3> SUFFICES ASSUME NEW v \in Users, userPc'[v].op = "send"
                 PROVE  /\ sends'[userPc'[v].msg].thread = v
                        /\ \A a \in 1 .. Len(accepted) : InOrder(sends', accepted[a], userPc'[v].msg)
                        /\ \A i \in 1 .. Len(pendingFunctors) : pendingFunctors[i].op = "send" =>
                              InOrder(sends', pendingFunctors[i].msg, userPc'[v].msg)
      BY <2>3 DEF CalledInOrder
    <3>1. \A i \in 1 .. Len(pendingFunctors) : pendingFunctors[i].op = "send" =>
             pendingFunctors[i].msg \in 1 .. Len(sends)
      BY <1>0 DEF TypeInv, QueuedExist
    <3>2. \A a \in 1 .. Len(accepted) : accepted[a] \in 1 .. Len(sends)
      BY DEF OrderInv, AcceptedInOrder
    <3>3. CASE v = u
      <4>1. userPc'[v].msg = k
        BY <1>0, <2>3, <3>3 DEF TypeOK
      <4> QED BY <2>2, <3>1, <3>2, <3>3, <4>1
    <3>4. CASE v # u
      <4>1. userPc'[v] = userPc[v]
        BY <1>0, <2>3, <3>4 DEF TypeOK
      <4>2. userPc[v].op = "send" /\ userPc[v].msg \in 1 .. Len(sends)
        BY <1>0, <4>1 DEF TypeInv, CalledExist
      <4>3. /\ sends[userPc[v].msg].thread = v
            /\ \A a \in 1 .. Len(accepted) : InOrder(sends, accepted[a], userPc[v].msg)
            /\ \A i \in 1 .. Len(pendingFunctors) : pendingFunctors[i].op = "send" =>
                  InOrder(sends, pendingFunctors[i].msg, userPc[v].msg)
        BY <4>2 DEF OrderInv, CalledInOrder
      <4>4. sends'[userPc[v].msg].thread = v
        BY <2>2, <4>2, <4>3 DEF Grows
      <4> QED BY <2>4, <3>1, <3>2, <4>1, <4>2, <4>3, <4>4
    <3> QED BY <3>3, <3>4
  <2> QED BY <1>5, <2>3, <2>5, <2>6, <2>7 DEF OrderInv
<1>13. ASSUME NEW u \in Users, UserQueuesSend(u) PROVE NothingLost' /\ OrderInv'
  <2>1. PICK m : m = userPc[u].msg
    OBVIOUS
  <2>2. /\ userPc[u].op = "send" /\ userPc' = [userPc EXCEPT ![u] = Idle]
        /\ UNCHANGED <<wire, outputBuffer, accepted, sends>>
        /\ pendingFunctors' = Append(pendingFunctors, userPc[u])
    BY <1>13 DEF UserQueuesSend
  <2>3. userPc[u] \in Functor
    <3>1. userPc[u] \in {Idle} \cup [op : {"send"}, msg : Messages]
                         \cup [op : {"shutdown", "forceClose", "queueShutdown",
                                      "queueForceClose"}, msg : {0}]
      BY <1>0 DEF TypeOK
    <3> QED BY <2>2, <3>1 DEF Functor, Idle, Call
  <2>4. /\ sends[m].thread = u /\ u # "loop"
        /\ \A a \in 1 .. Len(accepted) : InOrder(sends, accepted[a], m)
        /\ \A i \in 1 .. Len(pendingFunctors) : pendingFunctors[i].op = "send" =>
              InOrder(sends, pendingFunctors[i].msg, m)
    BY <2>1, <2>2, ClosersAssumption DEF OrderInv, CalledInOrder
  <2>5. /\ Len(pendingFunctors) \in Nat /\ Len(pendingFunctors') = Len(pendingFunctors) + 1
        /\ pendingFunctors'[Len(pendingFunctors) + 1] = userPc[u]
        /\ \A i \in 1 .. Len(pendingFunctors) : pendingFunctors'[i] = pendingFunctors[i]
    BY <1>0, <2>2, <2>3, AppendProperties, LenProperties DEF TypeOK
  <2>6. ASSUME NEW i \in 1 .. Len(pendingFunctors')
        PROVE  \/ i \in 1 .. Len(pendingFunctors) /\ pendingFunctors'[i] = pendingFunctors[i]
               \/ i = Len(pendingFunctors) + 1 /\ pendingFunctors'[i].msg = m
    <3>1. i \in 1 .. Len(pendingFunctors) \/ i = Len(pendingFunctors) + 1
      BY <2>5
    <3> QED BY <2>1, <2>5, <3>1
  <2>7. AcceptedInOrder'
    BY <2>2 DEF OrderInv, AcceptedInOrder
  <2>8. QueuedInOrder'
    <3>1. ASSUME NEW i \in 1 .. Len(pendingFunctors'), pendingFunctors'[i].op = "send"
          PROVE  /\ sends[pendingFunctors'[i].msg].thread # "loop"
                 /\ \A a \in 1 .. Len(accepted) : InOrder(sends, accepted[a], pendingFunctors'[i].msg)
      <4>1. CASE i \in 1 .. Len(pendingFunctors) /\ pendingFunctors'[i] = pendingFunctors[i]
        BY <3>1, <4>1 DEF OrderInv, QueuedInOrder
      <4>2. CASE pendingFunctors'[i].msg = m
        BY <2>4, <4>2
      <4> QED BY <2>6, <4>1, <4>2
    <3>2. ASSUME NEW i \in 1 .. Len(pendingFunctors'), NEW j \in 1 .. Len(pendingFunctors'), i < j,
                 pendingFunctors'[i].op = "send", pendingFunctors'[j].op = "send"
          PROVE  InOrder(sends, pendingFunctors'[i].msg, pendingFunctors'[j].msg)
      <4>1. i \in 1 .. Len(pendingFunctors) /\ pendingFunctors'[i] = pendingFunctors[i]
        <5>1. i # Len(pendingFunctors) + 1
          BY <2>5, <3>2
        <5> QED BY <2>6, <5>1
      <4>2. CASE j \in 1 .. Len(pendingFunctors) /\ pendingFunctors'[j] = pendingFunctors[j]
        BY <3>2, <4>1, <4>2 DEF OrderInv, QueuedInOrder
      <4>3. CASE pendingFunctors'[j].msg = m
        BY <2>4, <3>2, <4>1, <4>3
      <4> QED BY <2>6, <4>2, <4>3
    <3> QED BY <2>2, <3>1, <3>2 DEF QueuedInOrder
  <2>9. CalledInOrder'
    <3> SUFFICES ASSUME NEW v \in Users, userPc'[v].op = "send"
                 PROVE  /\ sends[userPc'[v].msg].thread = v
                        /\ \A a \in 1 .. Len(accepted) : InOrder(sends, accepted[a], userPc'[v].msg)
                        /\ \A i \in 1 .. Len(pendingFunctors') : pendingFunctors'[i].op = "send" =>
                              InOrder(sends, pendingFunctors'[i].msg, userPc'[v].msg)
      BY <2>2 DEF CalledInOrder
    <3>1. v # u /\ userPc'[v] = userPc[v]
      BY <1>0, <2>2, CallTypes DEF TypeOK
    <3>2. /\ sends[userPc[v].msg].thread = v
          /\ \A a \in 1 .. Len(accepted) : InOrder(sends, accepted[a], userPc[v].msg)
          /\ \A i \in 1 .. Len(pendingFunctors) : pendingFunctors[i].op = "send" =>
                InOrder(sends, pendingFunctors[i].msg, userPc[v].msg)
      BY <3>1 DEF OrderInv, CalledInOrder
    <3>3. InOrder(sends, m, userPc[v].msg)
      BY <2>4, <3>1, <3>2 DEF InOrder
    <3>4. ASSUME NEW i \in 1 .. Len(pendingFunctors'), pendingFunctors'[i].op = "send"
          PROVE  InOrder(sends, pendingFunctors'[i].msg, userPc[v].msg)
      BY <2>6, <3>2, <3>3, <3>4
    <3> QED BY <3>1, <3>2, <3>4
  <2> QED BY <1>5, <2>2, <2>7, <2>8, <2>9 DEF OrderInv
<1>14. ASSUME NEW u \in Users, NEW c, c.op # "send", userPc' = [userPc EXCEPT ![u] = c]
       PROVE  \A v \in Users : userPc'[v].op = "send" => userPc'[v] = userPc[v]
  BY <1>0, <1>14 DEF TypeOK
<1>15. ASSUME NEW u \in Users, UserQueuesClose(u) PROVE NothingLost' /\ OrderInv'
  <2>1. PICK op \in {"shutdown", "forceClose"} :
           pendingFunctors' = Append(pendingFunctors, Call(op, 0))
    BY <1>15 DEF UserQueuesClose
  <2>2. /\ userPc' = [userPc EXCEPT ![u] = Idle] /\ Idle.op # "send"
        /\ UNCHANGED <<wire, outputBuffer, accepted, sends>>
    BY <1>15, CallTypes DEF UserQueuesClose
  <2>3. \A v \in Users : userPc'[v].op = "send" => userPc'[v] = userPc[v]
    BY <1>14, <2>2
  <2> QED BY <1>3, <1>5, <2>1, <2>2, <2>3
<1>16. ASSUME NEW u \in Users, UserShutdown(u) \/ UserForceClose(u) \/ UserSetsState(u)
       PROVE  NothingLost' /\ OrderInv'
  <2>1. PICK op \in {"shutdown", "forceClose", "queueShutdown", "queueForceClose"} :
           userPc' = [userPc EXCEPT ![u] = Call(op, 0)]
    BY <1>16 DEF UserShutdown, UserForceClose, UserSetsState
  <2>2. Call(op, 0).op # "send"
    BY DEF Call
  <2>3. \A v \in Users : userPc'[v].op = "send" => userPc'[v] = userPc[v]
    BY <1>14, <2>1, <2>2
  <2>4. UNCHANGED <<wire, outputBuffer, accepted, sends, pendingFunctors>>
    BY <1>16 DEF UserShutdown, UserForceClose, UserSetsState
  <2> QED BY <1>3, <1>5, <2>3, <2>4
<1> QED BY <1>6, <1>7, <1>8, <1>9, <1>10, <1>11, <1>12, <1>13, <1>15, <1>16
        DEF Next, LoopStep, UserCode, UserStep, ForeignCall

LEMMA OrderInit ==
    ASSUME Init
    PROVE  NothingLost /\ OrderInv
<1>1. NothingLost
  <2>1. <<>> \in Seq(Messages)
    BY EmptySeq
  <2>2. <<>> \o <<>> = <<>>
    BY <2>1, ConcatEmptySeq
  <2> QED BY <2>2 DEF Init, NothingLost
<1>2. AcceptedInOrder /\ QueuedInOrder
  BY EmptySeq DEF Init, AcceptedInOrder, QueuedInOrder
<1>3. CalledInOrder
  BY CallTypes DEF Init, CalledInOrder
<1> QED BY <1>1, <1>2, <1>3 DEF OrderInv

(* No unit is lost, duplicated or reordered between sendInLoop() and the   *)
(* wire, whether it was written directly, in part, or through              *)
(* outputBuffer_, and each thread's messages are taken in the order it     *)
(* sent them, although a foreign send() is only queued and the loop        *)
(* thread's own sends overtake it.                                         *)
THEOREM OutputStaysInOrder == Spec => []OutputInOrder
<1> DEFINE Inv == NothingLost /\ OrderInv
<1>1. Init => Inv
  BY OrderInit
<1>2. LifeInv /\ Inv /\ [Next]_vars => Inv'
  <2>1. Inv /\ UNCHANGED vars => Inv'
    <3> SUFFICES ASSUME Inv, UNCHANGED vars PROVE Inv'
      OBVIOUS
    <3>1. UNCHANGED <<wire, outputBuffer, accepted, sends, pendingFunctors, userPc>>
      BY DEF vars, loopVars, socketVars, historyVars
    <3>2. NothingLost'
      BY <3>1 DEF NothingLost
    <3>3. AcceptedInOrder'
      BY <3>1, Zenon DEF OrderInv, AcceptedInOrder, InOrder
    <3>4. QueuedInOrder'
      BY <3>1, Zenon DEF OrderInv, QueuedInOrder, InOrder
    <3>5. CalledInOrder'
      BY <3>1, Zenon DEF OrderInv, CalledInOrder, InOrder
    <3> QED BY <3>2, <3>3, <3>4, <3>5 DEF OrderInv
  <2> QED BY <2>1, OrderStep
<1>3. LifeInv /\ Inv => OutputInOrder
  <2> SUFFICES ASSUME LifeInv, Inv PROVE OutputInOrder
    OBVIOUS
  <2>1. DOMAIN accepted = 1 .. Len(accepted)
    BY LenProperties DEF LifeInv, TypeInv, TypeOK
  <2> QED BY <2>1 DEF OutputInOrder, NothingLost, OrderInv, AcceptedInOrder, InOrder
<1> QED BY <1>1, <1>2, <1>3, LifeInvariant, PTL DEF Spec

-----------------------------------------------------------------------------
(* A shutdown() of the loop thread waits for what that thread sent.        *)

\* Where the units of message k are in the sequence q.
Places(q, k) == {i \in 1 .. Len(q) : q[i] = k}

\* Nobody has called shutdown() on a connection that is not disconnecting.
NotShutYet ==
    state \in {"kConnecting", "kConnected"} =>
        /\ ~writeShut
        /\ \A i \in 1 .. Len(pendingFunctors) : pendingFunctors[i].op # "shutdown"
        /\ \A u \in Users : userPc[u].op # "queueShutdown"

\* What the loop thread sent was taken whole, and once the write side is shut
\* down nothing is left in the buffer.
GraceInv ==
    /\ NotShutYet
    /\ state = "kConnecting" => sends = <<>>
    /\ owed \subseteq SentByLoop
    /\ writeShut /\ StillOpen => outputBuffer = <<>>
    /\ StillOpen /\ peer \in {"open", "fin"} =>
          \A k \in SentByLoop : Cardinality(Places(accepted, k)) = sends[k].size

\* The places of other messages stay, and a message taken whole is there.
LEMMA PlacesTaken ==
    ASSUME NEW a, NEW b, NEW k, Accepts(a, b, k)
    PROVE  /\ \A j : j # k => Places(b, j) = Places(a, j)
           /\ Len(b) = Len(a) => \A j : Places(b, j) = Places(a, j)
           /\ \A n \in Nat : Len(b) = Len(a) + n /\ Places(a, k) = {} =>
                 Cardinality(Places(b, k)) = n
<1>0. Len(a) \in Nat /\ Len(b) \in Nat /\ Len(a) <= Len(b)
  BY DEF Accepts
<1>1. \A i \in 1 .. Len(a) : i \in 1 .. Len(b) /\ b[i] = a[i]
  BY <1>0 DEF Accepts
<1>2. ASSUME NEW j, j # k PROVE Places(b, j) = Places(a, j)
  <2>1. ASSUME NEW i \in Places(b, j) PROVE i \in Places(a, j)
    BY <1>2 DEF Places, Accepts
  <2>2. ASSUME NEW i \in Places(a, j) PROVE i \in Places(b, j)
    BY <1>1 DEF Places
  <2> QED BY <2>1, <2>2
<1>3. ASSUME Len(b) = Len(a), NEW j PROVE Places(b, j) = Places(a, j)
  BY <1>0, <1>1, <1>3 DEF Places
<1>4. ASSUME NEW n \in Nat, Len(b) = Len(a) + n, Places(a, k) = {}
      PROVE  Cardinality(Places(b, k)) = n
  <2>1. ASSUME NEW i \in Places(b, k) PROVE i \in Len(a) + 1 .. Len(b)
    <3>1. i \in 1 .. Len(b) /\ b[i] = k
      BY DEF Places
    <3>2. i \notin 1 .. Len(a)
      BY <1>1, <1>4, <3>1 DEF Places
    <3> QED BY <1>0, <3>1, <3>2
  <2>2. ASSUME NEW i \in Len(a) + 1 .. Len(b) PROVE i \in Places(b, k)
    <3>1. i \in 1 .. Len(b) /\ i \notin 1 .. Len(a)
      BY <1>0
    <3> QED BY <3>1 DEF Accepts, Places
  <2>3. Places(b, k) = Len(a) + 1 .. Len(b)
    BY <2>1, <2>2
  <2>4. Len(a) + 1 \in Int /\ Len(b) \in Int
    BY <1>0
  <2>5. Cardinality(Len(a) + 1 .. Len(b)) = IF Len(a) + 1 > Len(b) THEN 0 ELSE Len(b) - (Len(a) + 1) + 1
    BY <2>4, FS_Interval
  <2>6. (IF Len(a) + 1 > Len(b) THEN 0 ELSE Len(b) - (Len(a) + 1) + 1) = n
    BY <1>0, <1>4
  <2> QED BY <2>3, <2>5, <2>6
<1> QED BY <1>2, <1>3, <1>4

\* sendInLoop() takes the message whole unless the socket is broken, and touches
\* nothing once the write side is shut down over an empty buffer.
LEMMA SendInLoopWhole ==
    ASSUME TypeOK, NEW k \in Messages, NEW n \in Nat \ {0}, NEW queue, sendInLoop(k, n, queue)
    PROVE  /\ state # "kDisconnected" /\ ~WriteFails => Len(accepted') = Len(accepted) + n
           /\ writeShut /\ ~isWriting /\ outputBuffer = <<>> => outputBuffer' = <<>>
<1>1. ASSUME NEW nwrote \in 0 .. n, BufferOutput(k, n, nwrote, queue)
      PROVE  Len(accepted') = Len(accepted) + n
  <2>1. accepted' = accepted \o Units(k, n)
    BY <1>1 DEF BufferOutput
  <2>2. Units(k, n) \in Seq(Messages) /\ Len(Units(k, n)) = n /\ accepted \in Seq(Messages)
    BY UnitsType DEF TypeOK
  <2> QED BY <2>1, <2>2, ConcatProperties
<1>2. 0 \in 0 .. n
  OBVIOUS
<1>3. state # "kDisconnected" /\ ~WriteFails => Len(accepted') = Len(accepted) + n
  BY <1>1, <1>2 DEF sendInLoop
<1>4. writeShut /\ ~isWriting /\ outputBuffer = <<>> => outputBuffer' = <<>>
  BY DEF sendInLoop, triesDirectWrite, WriteFails
<1> QED BY <1>3, <1>4

LEMMA NotShutStep ==
    ASSUME LifeInv, NotShutYet, Next
    PROVE  NotShutYet'
<1> USE DEF loopVars, socketVars, historyVars
<1>0. TypeInv /\ TypeOK /\ Fresh
  BY DEF LifeInv, TypeInv
<1> SUFFICES ASSUME state' \in {"kConnecting", "kConnected"}
             PROVE  /\ ~writeShut'
                    /\ \A i \in 1 .. Len(pendingFunctors') : pendingFunctors'[i].op # "shutdown"
                    /\ \A u \in Users : userPc'[u].op # "queueShutdown"
  BY DEF NotShutYet
<1> DEFINE Early == state \in {"kConnecting", "kConnected"}
           Goal == /\ ~writeShut'
                   /\ \A i \in 1 .. Len(pendingFunctors') : pendingFunctors'[i].op # "shutdown"
                   /\ \A u \in Users : userPc'[u].op # "queueShutdown"
\* The steps after which the state is still early, by what they do to the queue.
<1>1. ASSUME Early, NEW d \in {0, 1}, NEW g \in Functor, g.op # "shutdown",
             QueueStep(pendingFunctors, pendingFunctors', d, g)
      PROVE  \A i \in 1 .. Len(pendingFunctors') : pendingFunctors'[i].op # "shutdown"
  BY <1>1 DEF QueueStep, NotShutYet
<1>2. ASSUME Early, UNCHANGED <<writeShut, pendingFunctors, userPc>> PROVE Goal
  BY <1>2 DEF NotShutYet
<1>3. CASE \/ ConnectEstablished \/ HandleReadError \/ EventsDone \/ FunctorsDone
           \/ StartRead \/ StopRead \/ PeerCloses \/ PeerResets \/ StopServer
           \/ \E writable \in BOOLEAN : Poll(writable)
  <2>1. Early /\ UNCHANGED <<writeShut, pendingFunctors, userPc>>
    BY <1>3 DEF ConnectEstablished, HandleReadError, EventsDone, FunctorsDone, connectDestroyed,
                StartRead, StopRead, StopServer, PeerCloses, PeerResets, Poll
  <2> QED BY <1>2, <2>1
<1>4. CASE Shutdown \/ ForceCloseWithDelay \/ ForceClose \/ HandleHup \/ HandleReadClosed
  BY <1>4 DEF Shutdown, ForceCloseWithDelay, ForceClose, forceClose, HandleHup, HandleReadClosed,
              handleClose
<1>5. CASE DelayedForceClose
  <2>1. Early /\ UNCHANGED <<writeShut, pendingFunctors, userPc>>
    BY <1>5 DEF DelayedForceClose, forceClose
  <2> QED BY <1>2, <2>1
<1>6. CASE HandleWrite
  <2>1. /\ Early /\ UNCHANGED userPc
        /\ pendingFunctors' \in {pendingFunctors, Append(pendingFunctors, Call("writeComplete", 0))}
    BY <1>6 DEF HandleWrite, Written
  <2>2. ~writeShut'
    <3>1. ~writeShut /\ state # "kDisconnecting"
      BY <2>1 DEF NotShutYet
    <3> QED BY <1>6, <3>1, Zenon DEF HandleWrite, Written, shutsAfterDrain
  <2>3. QueueStep(pendingFunctors, pendingFunctors', 0, Call("writeComplete", 0))
    BY <1>0, <2>1, Queues, CallTypes
  <2>4. \A i \in 1 .. Len(pendingFunctors') : pendingFunctors'[i].op # "shutdown"
    BY <1>1, <2>1, <2>3, CallTypes
  <2> QED BY <2>1, <2>2, <2>4 DEF NotShutYet
<1>7. CASE RunFunctor
  <2> DEFINE rest == Tail(pendingFunctors)
  <2>0. batch > 0 /\ UNCHANGED userPc
    BY <1>7 DEF RunFunctor
  <2>1. ASSUME RunSend(rest), Head(pendingFunctors).op = "send" PROVE Goal
    <3>1. PICK k : k = Head(pendingFunctors).msg
      OBVIOUS
    <3>2. k \in Messages /\ sends[k].size \in Nat \ {0} /\ rest \in Seq(Functor)
      BY <1>0, <2>0, <2>1, <3>1, FirstFunctor
    <3>3. sendInLoop(k, sends[k].size, rest)
      BY <2>1, <3>1 DEF RunSend
    <3>4. PICK g \in Signals : /\ g.op \in {"writeComplete", "highWater"}
                               /\ pendingFunctors' \in {rest, Append(rest, g)}
      BY <1>0, <3>2, <3>3, SendInLoopType
    <3>5. g \in Functor
      BY DEF Functor, Signals
    <3>6. QueueStep(pendingFunctors, pendingFunctors', 1, g)
      BY <1>0, <2>0, <3>4, <3>5, Takes
    <3>7. Early /\ UNCHANGED writeShut
      BY <2>1 DEF RunSend
    <3> QED BY <1>1, <2>0, <3>4, <3>5, <3>6, <3>7 DEF NotShutYet
  <2>2. ASSUME Head(pendingFunctors).op = "shutdown", RunShutdown(rest) PROVE Goal
    <3>1. Early
      BY <2>2 DEF RunShutdown
    <3>2. pendingFunctors[1].op = "shutdown" /\ 1 \in 1 .. Len(pendingFunctors)
      BY <1>0, <2>0, <2>2, FirstFunctor
    <3> QED BY <3>1, <3>2 DEF NotShutYet
  <2>3. ASSUME RunForceClose(rest) \/ RunDestroy(rest) \/ RunCallback(rest) PROVE Goal
    <3>1. Early /\ UNCHANGED writeShut /\ pendingFunctors' \in {rest, Append(rest, Call("destroy", 0))}
      BY <2>3 DEF RunForceClose, RunDestroy, RunCallback, handleClose, closeCallback, connectDestroyed
    <3>2. QueueStep(pendingFunctors, pendingFunctors', 1, Call("destroy", 0))
      BY <1>0, <2>0, <3>1, Takes, CallTypes
    <3>3. \A i \in 1 .. Len(pendingFunctors') : pendingFunctors'[i].op # "shutdown"
      BY <1>1, <3>1, <3>2, CallTypes
    <3> QED BY <2>0, <3>1, <3>3 DEF NotShutYet
  <2> QED BY <1>7, <2>1, <2>2, <2>3 DEF RunFunctor
<1>8. ASSUME NEW n \in Sizes, Send(n) PROVE Goal
  <2>1. Len(sends) \in Nat /\ MaxSends \in Nat /\ n \in Nat \ {0} /\ Len(sends) < MaxSends
    BY <1>0, <1>8, LenProperties DEF Send, TypeOK
  <2>2. Len(sends) + 1 \in Messages /\ pendingFunctors \in Seq(Functor)
    BY <1>0, <2>1 DEF Messages, TypeOK
  <2>3. PICK g \in Signals : /\ g.op \in {"writeComplete", "highWater"}
                             /\ pendingFunctors' \in {pendingFunctors, Append(pendingFunctors, g)}
    BY <1>0, <1>8, <2>1, <2>2, SendInLoopType DEF Send
  <2>4. g \in Functor
    BY DEF Functor, Signals
  <2>5. QueueStep(pendingFunctors, pendingFunctors', 0, g)
    BY <1>0, <2>3, <2>4, Queues
  <2>6. Early /\ UNCHANGED <<writeShut, userPc>>
    BY <1>8 DEF Send
  <2> QED BY <1>1, <2>3, <2>4, <2>5, <2>6 DEF NotShutYet
<1>9. ASSUME NEW u \in Users, NEW c, c.op # "queueShutdown", Early,
             userPc' = [userPc EXCEPT ![u] = c]
      PROVE  \A v \in Users : userPc'[v].op # "queueShutdown"
  BY <1>0, <1>9 DEF TypeOK, NotShutYet
<1>10. ASSUME NEW u \in Users, NEW n \in Sizes, UserSend(u, n) PROVE Goal
  <2>1. /\ Early /\ UNCHANGED <<writeShut, pendingFunctors>>
        /\ userPc' = [userPc EXCEPT ![u] = Call("send", Len(sends) + 1)]
    BY <1>10 DEF UserSend
  <2>2. Call("send", Len(sends) + 1).op # "queueShutdown"
    BY DEF Call
  <2>3. \A v \in Users : userPc'[v].op # "queueShutdown"
    BY <1>9, <2>1, <2>2
  <2> QED BY <2>1, <2>3 DEF NotShutYet
<1>11. ASSUME NEW u \in Users, UserShutdown(u) \/ UserForceClose(u) PROVE Goal
  <2>1. PICK op \in {"shutdown", "forceClose"} : userPc' = [userPc EXCEPT ![u] = Call(op, 0)]
    BY <1>11 DEF UserShutdown, UserForceClose
  <2>2. Early /\ UNCHANGED <<writeShut, pendingFunctors>> /\ Call(op, 0).op # "queueShutdown"
    BY <1>11 DEF UserShutdown, UserForceClose, Call
  <2>3. \A v \in Users : userPc'[v].op # "queueShutdown"
    BY <1>9, <2>1, <2>2
  <2> QED BY <2>2, <2>3 DEF NotShutYet
<1>12. ASSUME NEW u \in Users, UserSetsState(u) PROVE Goal
  BY <1>12 DEF UserSetsState
<1>13. ASSUME NEW u \in Users, UserQueuesSend(u) \/ UserQueuesClose(u) PROVE Goal
  <2>1. Early /\ UNCHANGED writeShut /\ userPc' = [userPc EXCEPT ![u] = Idle]
    BY <1>13 DEF UserQueuesSend, UserQueuesClose
  <2>2. PICK g \in Functor : g.op # "shutdown" /\ pendingFunctors' = Append(pendingFunctors, g)
    <3>1. CASE UserQueuesSend(u)
      <4>1. userPc[u] \in {Idle} \cup [op : {"send"}, msg : Messages]
                           \cup [op : {"shutdown", "forceClose", "queueShutdown",
                                        "queueForceClose"}, msg : {0}]
        BY <1>0 DEF TypeOK
      <4>2. userPc[u] \in Functor /\ userPc[u].op # "shutdown"
        BY <3>1, <4>1 DEF UserQueuesSend, Functor, Idle, Call
      <4> QED BY <3>1, <4>2 DEF UserQueuesSend
    <3>2. CASE UserQueuesClose(u)
      <4>1. pendingFunctors' = Append(pendingFunctors, Call("forceClose", 0))
        BY <2>1, <3>2 DEF UserQueuesClose, NotShutYet
      <4> QED BY <4>1, CallTypes
    <3> QED BY <1>13, <3>1, <3>2
  <2>3. QueueStep(pendingFunctors, pendingFunctors', 0, g)
    BY <1>0, <2>2, Queues
  <2>4. \A v \in Users : userPc'[v].op # "queueShutdown"
    BY <1>9, <2>1, CallTypes
  <2> QED BY <1>1, <2>1, <2>2, <2>3, <2>4 DEF NotShutYet
<1> QED BY <1>3, <1>4, <1>5, <1>6, <1>7, <1>8, <1>10, <1>11, <1>12, <1>13
        DEF Next, LoopStep, UserCode, UserStep, ForeignCall

LEMMA GraceStep ==
    ASSUME LifeInv, NothingLost, OrderInv, GraceInv, Next
    PROVE  GraceInv'
<1> USE DEF loopVars, socketVars, historyVars
<1> DEFINE Alive == peer \in {"open", "fin"}
           Taken == \A k \in SentByLoop : Cardinality(Places(accepted, k)) = sends[k].size
           Early == state = "kConnecting" => sends = <<>>
           Shut == writeShut /\ StillOpen => outputBuffer = <<>>
           Whole == StillOpen /\ Alive => Taken
<1>0. TypeInv /\ TypeOK /\ Fresh /\ WritesIffBuffered
  BY DEF LifeInv, TypeInv
<1>1. Early /\ Shut /\ Whole /\ owed \subseteq SentByLoop /\ NotShutYet
  BY DEF GraceInv
<1>2. NotShutYet'
  BY <1>1, NotShutStep
<1> SUFFICES Early' /\ Shut' /\ Whole' /\ owed' \subseteq SentByLoop'
  BY <1>2 DEF GraceInv
<1>3. ASSUME UNCHANGED <<accepted, sends>>
      PROVE  SentByLoop' = SentByLoop /\ (Taken => Taken')
  BY <1>3 DEF SentByLoop, Places
<1>4. ASSUME UNCHANGED <<accepted, sends, owed>>, StillOpen' => StillOpen, Alive' => Alive
      PROVE  Whole' /\ owed' \subseteq SentByLoop'
  BY <1>1, <1>3, <1>4
<1>5. CASE ConnectEstablished
  <2>1. sends = <<>>
    BY <1>1, <1>5 DEF ConnectEstablished
  <2>2. Len(sends) = 0 /\ SentByLoop = {} /\ UNCHANGED <<accepted, sends, owed, writeShut>>
        /\ state' = "kConnected"
    BY <1>5, <2>1, EmptySeq DEF ConnectEstablished, SentByLoop
  <2>3. SentByLoop' = {}
    BY <1>3, <2>2
  <2>4. ~writeShut'
    BY <1>2, <2>2 DEF NotShutYet
  <2> QED BY <1>1, <2>2, <2>3, <2>4
<1>6. CASE \/ HandleReadError \/ EventsDone \/ FunctorsDone \/ StartRead \/ StopRead
           \/ PeerCloses \/ PeerResets \/ \E writable \in BOOLEAN : Poll(writable)
  <2>1. UNCHANGED <<accepted, sends, owed, state, resurrected, writeShut, outputBuffer>>
        /\ (Alive' => Alive)
    BY <1>6 DEF HandleReadError, EventsDone, FunctorsDone, StartRead, StopRead, PeerCloses,
                PeerResets, Poll
  <2>2. StillOpen' = StillOpen
    BY <2>1 DEF StillOpen, Open
  <2> QED BY <1>1, <1>4, <2>1, <2>2
<1>7. CASE Shutdown
  <2>1. /\ UNCHANGED <<accepted, sends, resurrected, peer, outputBuffer>>
        /\ state = "kConnected" /\ state' = "kDisconnecting" /\ owed' = owed \cup SentByLoop
    BY <1>7 DEF Shutdown
  <2>2. StillOpen' => StillOpen
    BY <2>1 DEF StillOpen, Open
  <2>3. writeShut' => writeShut \/ ~isWriting
    BY <1>7 DEF Shutdown, shutdownInLoop
  <2>4. Shut'
    BY <1>0, <1>1, <2>1, <2>2, <2>3 DEF WritesIffBuffered
  <2> QED BY <1>1, <1>3, <2>1, <2>2, <2>4
<1>8. CASE ForceCloseWithDelay \/ ForceClose \/ DelayedForceClose
  <2>1. UNCHANGED <<accepted, sends, owed, resurrected, peer, writeShut, outputBuffer>>
    BY <1>8 DEF ForceCloseWithDelay, ForceClose, DelayedForceClose
  <2>2. UNCHANGED state \/ (Open /\ state' = "kDisconnecting")
    BY <1>8 DEF ForceCloseWithDelay, ForceClose, DelayedForceClose, forceClose
  <2>3. StillOpen' => StillOpen
    BY <2>1, <2>2 DEF StillOpen, Open
  <2>4. Early'
    BY <1>1, <2>1, <2>2
  <2> QED BY <1>1, <1>4, <2>1, <2>3, <2>4
<1>9. CASE HandleHup \/ HandleReadClosed
  <2>1. UNCHANGED <<accepted, sends, owed, peer>> /\ state' = "kDisconnected"
    BY <1>9 DEF HandleHup, HandleReadClosed, handleClose
  <2>2. ~StillOpen'
    BY <2>1 DEF StillOpen, Open
  <2> QED BY <1>4, <2>1, <2>2
<1>10. CASE HandleWrite
  <2>1. UNCHANGED <<accepted, sends, owed, state, resurrected, peer>>
    BY <1>10 DEF HandleWrite
  <2>2. StillOpen' = StillOpen
    BY <2>1 DEF StillOpen, Open
  <2>3. \/ UNCHANGED <<writeShut, outputBuffer>>
        \/ outputBuffer' = <<>>
        \/ ~writeShut /\ UNCHANGED writeShut
    BY <1>10 DEF HandleWrite, Written, WriteFails
  <2> QED BY <1>1, <1>4, <2>1, <2>2, <2>3
<1>11. CASE StopServer
  <2>1. UNCHANGED <<accepted, sends, owed, resurrected, peer, writeShut, outputBuffer>>
    BY <1>11 DEF StopServer
  <2>2. state' \in {state, "kDisconnected"}
    BY <1>11 DEF StopServer, connectDestroyed
  <2>3. StillOpen' => StillOpen
    BY <2>1, <2>2 DEF StillOpen, Open
  <2> QED BY <1>1, <1>4, <2>1, <2>2, <2>3
<1>12. CASE RunFunctor
  <2> DEFINE rest == Tail(pendingFunctors)
  <2>0. batch > 0 /\ UNCHANGED <<sends, owed, peer, resurrected>> /\ state # "kConnecting"
    BY <1>0, <1>12 DEF RunFunctor, Fresh
  <2>1. ASSUME RunSend(rest), Head(pendingFunctors).op = "send"
        PROVE  Early' /\ Shut' /\ Whole' /\ owed' \subseteq SentByLoop'
    <3>1. PICK k : k = Head(pendingFunctors).msg
      OBVIOUS
    <3>2. /\ k \in Messages /\ sends[k].size \in Nat \ {0} /\ rest \in Seq(Functor)
          /\ k \in 1 .. Len(sends) /\ Head(pendingFunctors) = pendingFunctors[1]
          /\ 1 \in 1 .. Len(pendingFunctors)
      BY <1>0, <2>0, <2>1, <3>1, FirstFunctor
    <3>3. sendInLoop(k, sends[k].size, rest) /\ UNCHANGED <<state, writeShut>>
      BY <2>1, <3>1 DEF RunSend
    <3>4. Accepts(accepted, accepted', k)
      BY <1>0, <3>2, <3>3, SendInLoopAccepts
    <3>5. pendingFunctors[1].op = "send" /\ pendingFunctors[1].msg = k
      BY <2>1, <3>1, <3>2
    <3>6. k \notin SentByLoop
      BY <3>2, <3>5 DEF OrderInv, QueuedInOrder, SentByLoop
    <3>7. SentByLoop' = SentByLoop /\ \A j \in SentByLoop : Places(accepted', j) = Places(accepted, j)
      BY <2>0, <3>4, <3>6, PlacesTaken DEF SentByLoop
    <3>8. Taken => Taken'
      BY <2>0, <3>7
    <3>9. writeShut /\ ~isWriting /\ outputBuffer = <<>> => outputBuffer' = <<>>
      BY <1>0, <3>2, <3>3, SendInLoopWhole
    <3>10. StillOpen' = StillOpen
      BY <2>0, <3>3 DEF StillOpen, Open
    <3>11. Shut'
      BY <1>0, <1>1, <3>3, <3>9, <3>10 DEF WritesIffBuffered
    <3> QED BY <1>1, <2>0, <3>3, <3>7, <3>8, <3>10, <3>11
  <2>2. ASSUME RunShutdown(rest)
        PROVE  Early' /\ Shut' /\ Whole' /\ owed' \subseteq SentByLoop'
    <3>1. UNCHANGED <<state, outputBuffer, accepted>>
      BY <2>2 DEF RunShutdown
    <3>2. writeShut' => writeShut \/ ~isWriting
      BY <2>2 DEF RunShutdown, shutdownInLoop
    <3>3. StillOpen' = StillOpen
      BY <2>0, <3>1 DEF StillOpen, Open
    <3> QED BY <1>0, <1>1, <1>4, <2>0, <3>1, <3>2, <3>3 DEF WritesIffBuffered
  <2>3. ASSUME RunForceClose(rest) \/ RunDestroy(rest) \/ RunCallback(rest)
        PROVE  Early' /\ Shut' /\ Whole' /\ owed' \subseteq SentByLoop'
    <3>1. UNCHANGED <<outputBuffer, accepted, writeShut>> /\ state' \in {state, "kDisconnected"}
      BY <2>3 DEF RunForceClose, RunDestroy, RunCallback, handleClose, connectDestroyed
    <3>2. StillOpen' => StillOpen
      BY <2>0, <3>1 DEF StillOpen, Open
    <3> QED BY <1>1, <1>4, <2>0, <3>1, <3>2
  <2> QED BY <1>12, <2>1, <2>2, <2>3 DEF RunFunctor
<1>13. ASSUME NEW n \in Sizes, Send(n)
       PROVE  Early' /\ Shut' /\ Whole' /\ owed' \subseteq SentByLoop'
  <2>1. PICK k : k = Len(sends) + 1
    OBVIOUS
  <2>2. /\ Grows(sends, sends') /\ k \in Messages /\ Len(sends') = k /\ Len(sends) \in Nat
    <3>1. "loop" \in Threads
      BY DEF Threads
    <3> QED BY <1>0, <1>13, <2>1, <3>1, SendsGrow DEF Send
  <2>3. n \in Nat \ {0} /\ sendInLoop(k, n, pendingFunctors)
        /\ UNCHANGED <<state, peer, writeShut, resurrected, owed>> /\ state = "kConnected"
    BY <1>13, <2>1 DEF Send
  <2>4. Accepts(accepted, accepted', k)
    BY <1>0, <2>2, <2>3, SendInLoopAccepts
  <2>5. ~writeShut
    BY <1>1, <2>3 DEF NotShutYet
  <2>6. sends'[k].size = n
    <3>1. sends \in Seq([thread : Threads, size : Sizes])
          /\ [thread |-> "loop", size |-> n] \in [thread : Threads, size : Sizes]
      BY <1>0 DEF TypeOK, Threads
    <3>2. sends'[Len(sends) + 1] = [thread |-> "loop", size |-> n]
      BY <1>13, <3>1, AppendProperties DEF Send
    <3> QED BY <2>1, <3>2
  <2>7. SentByLoop \subseteq SentByLoop' /\ SentByLoop' \subseteq SentByLoop \cup {k}
    <3>1. 1 .. Len(sends') = 1 .. Len(sends) \cup {k}
      BY <2>1, <2>2
    <3> QED BY <2>2, <3>1 DEF Grows, SentByLoop
  <2>8. Places(accepted, k) = {}
    <3>1. k \notin 1 .. Len(sends)
      BY <2>1, <2>2
    <3> QED BY <3>1 DEF Places, OrderInv, AcceptedInOrder
  <2>9. \A j \in SentByLoop : j # k /\ Places(accepted', j) = Places(accepted, j)
                              /\ sends'[j] = sends[j]
    <3>1. \A j \in SentByLoop : j # k /\ j \in 1 .. Len(sends)
      BY <2>1, <2>2 DEF SentByLoop
    <3> QED BY <2>2, <2>4, <3>1, PlacesTaken DEF Grows
  <2>10. ASSUME StillOpen', Alive' PROVE Taken'
    <3>1. ~WriteFails /\ StillOpen /\ Alive
      BY <2>3, <2>5, <2>10 DEF WriteFails, StillOpen, Open
    <3>2. Len(accepted') = Len(accepted) + n
      BY <1>0, <2>2, <2>3, <3>1, SendInLoopWhole
    <3>3. Cardinality(Places(accepted', k)) = n
      BY <2>3, <2>4, <2>8, <3>2, PlacesTaken
    <3>4. Taken
      BY <1>1, <3>1
    <3> QED BY <2>6, <2>7, <2>9, <3>3, <3>4
  <2> QED BY <1>1, <2>3, <2>5, <2>7, <2>10
<1>14. ASSUME NEW u \in Users, NEW n \in Sizes, UserSend(u, n)
       PROVE  Early' /\ Shut' /\ Whole' /\ owed' \subseteq SentByLoop'
  <2>1. PICK k : k = Len(sends) + 1
    OBVIOUS
  <2>2. /\ Grows(sends, sends') /\ Len(sends') = k /\ Len(sends) \in Nat /\ sends'[k].thread = u
        /\ u # "loop"
    <3>1. u \in Threads
      BY DEF Threads
    <3> QED BY <1>0, <1>14, <2>1, <3>1, SendsGrow, ClosersAssumption DEF UserSend
  <2>3. UNCHANGED <<state, peer, writeShut, resurrected, owed, accepted, outputBuffer>>
        /\ state = "kConnected"
    BY <1>14 DEF UserSend
  <2>4. SentByLoop' = SentByLoop /\ \A j \in SentByLoop : sends'[j] = sends[j]
    <3>1. 1 .. Len(sends') = 1 .. Len(sends) \cup {k}
      BY <2>1, <2>2
    <3> QED BY <2>2, <3>1 DEF Grows, SentByLoop
  <2>5. StillOpen' = StillOpen
    BY <2>3 DEF StillOpen, Open
  <2>6. Taken => Taken'
    BY <2>3, <2>4 DEF Places
  <2> QED BY <1>1, <2>3, <2>4, <2>5, <2>6
<1>15. ASSUME NEW u \in Users,
              UserQueuesSend(u) \/ UserQueuesClose(u) \/ UserShutdown(u) \/ UserForceClose(u)
       PROVE  Early' /\ Shut' /\ Whole' /\ owed' \subseteq SentByLoop'
  <2>1. UNCHANGED <<accepted, sends, owed, state, resurrected, peer, writeShut, outputBuffer>>
    BY <1>15 DEF UserQueuesSend, UserQueuesClose, UserShutdown, UserForceClose
  <2>2. StillOpen' = StillOpen
    BY <2>1 DEF StillOpen, Open
  <2> QED BY <1>1, <1>4, <2>1, <2>2
<1>16. ASSUME NEW u \in Users, UserSetsState(u)
       PROVE  Early' /\ Shut' /\ Whole' /\ owed' \subseteq SentByLoop'
  <2>1. /\ UNCHANGED <<accepted, sends, owed, peer, writeShut, outputBuffer>>
        /\ state' = "kDisconnecting"
    BY <1>16 DEF UserSetsState
  <2>2. state # "kConnecting" /\ state \in StateE
    BY <1>0, <1>16, CallTypes DEF UserSetsState, Fresh, TypeOK
  <2>3. StillOpen' => ~resurrected /\ state # "kDisconnected"
    BY <1>16, Zenon DEF UserSetsState, StillOpen
  <2>4. StillOpen' => StillOpen
    BY <2>2, <2>3 DEF StillOpen, Open, StateE
  <2> QED BY <1>1, <1>4, <2>1, <2>4
<1> QED BY <1>5, <1>6, <1>7, <1>8, <1>9, <1>10, <1>11, <1>12, <1>13, <1>14, <1>15, <1>16
        DEF Next, LoopStep, UserCode, UserStep, ForeignCall

(* When the write side of an open connection is shut down, everything the  *)
(* loop thread had sent before its shutdown() is on the wire, unless the   *)
(* peer reset: shutdownInLoop() waits for outputBuffer_ whoever calls it,  *)
(* nothing enters the buffer afterwards, and no send() of the loop thread  *)
(* was refused before.                                                     *)
THEOREM ShutdownIsGraceful == Spec => []GracefulShutdown
<1> DEFINE Inv == NothingLost /\ OrderInv /\ GraceInv
<1>1. Init => Inv
  <2> SUFFICES ASSUME Init PROVE Inv
    OBVIOUS
  <2>1. NothingLost /\ OrderInv
    BY OrderInit
  <2>2. NotShutYet
    BY EmptySeq, CallTypes DEF Init, NotShutYet
  <2>3. SentByLoop = {}
    BY EmptySeq DEF Init, SentByLoop
  <2> QED BY <2>1, <2>2, <2>3 DEF GraceInv, Init, StillOpen, Open
<1>2. LifeInv /\ Inv /\ [Next]_vars => Inv'
  <2>1. Inv /\ UNCHANGED vars => Inv'
    BY DEF vars, loopVars, socketVars, historyVars, NothingLost, OrderInv, AcceptedInOrder,
           QueuedInOrder, CalledInOrder, GraceInv, NotShutYet, StillOpen, Open, SentByLoop, Places
  <2> QED BY <2>1, OrderStep, GraceStep
<1>3. LifeInv /\ Inv => GracefulShutdown
  <2> SUFFICES ASSUME LifeInv, Inv, writeShut, StillOpen, peer \in {"open", "fin"},
                      NEW k \in owed
               PROVE  Cardinality({i \in DOMAIN wire : wire[i] = k}) = sends[k].size
    BY DEF GracefulShutdown, Drained
  <2>1. outputBuffer = <<>> /\ wire \in Seq(Messages) /\ wire \o outputBuffer = accepted
    BY DEF GraceInv, LifeInv, TypeInv, TypeOK, NothingLost
  <2>2. wire = accepted
    BY <2>1, ConcatEmptySeq
  <2>3. DOMAIN wire = 1 .. Len(wire)
    BY <2>1, LenProperties
  <2>4. {i \in DOMAIN wire : wire[i] = k} = Places(accepted, k)
    BY <2>2, <2>3 DEF Places
  <2>5. k \in SentByLoop /\ \A j \in SentByLoop : Cardinality(Places(accepted, j)) = sends[j].size
    BY DEF GraceInv
  <2> QED BY <2>4, <2>5
<1> QED BY <1>1, <1>2, <1>3, LifeInvariant, PTL DEF Spec

=============================================================================
