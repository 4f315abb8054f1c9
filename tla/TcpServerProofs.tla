-------------------------- MODULE TcpServerProofs --------------------------
(***************************************************************************)
(* Proofs about TcpServer, for any number of io loops, connections and     *)
(* descriptors: the types, and that a connection is established, erased    *)
(* and taken apart once, in this order, by whoever still owns it.          *)
(***************************************************************************)
EXTENDS TcpServer, Integers, SequenceTheorems, TLAPS

-----------------------------------------------------------------------------
(* The inductive invariant.                                                *)

\* x is in the queue q.
In(x, q) == \E i \in DOMAIN q : q[i] = x

Functor(name, c) == [f |-> name, c |-> c]

\* A functor that owns its connection is in a queue once.
Once(q) == \A i, j \in DOMAIN q : q[i] = q[j] /\ q[i].f \notin RawFunctors => i = j

\* connectDestroyed() comes after connectEstablished() and after every send
\* that was queued in time.
Ordered(q) ==
    \A i, j \in DOMAIN q :
        q[j].f = "connectDestroyed" /\ q[i].c = q[j].c
        /\ q[i].f \in {"connectEstablished", "sendInLoop"} => i < j

\* The queues of all loops.
Queues == [Loops -> Seq(Functors)]

Tidy(Q) == \A l \in Loops : Once(Q[l]) /\ Ordered(Q[l])

\* A functor is in the loop it is meant for.
Home(name, c) == IF name = "removeConnectionInLoop" THEN Base ELSE loopOf[c]

Placed(Q) == \A l \in Loops : \A n, c : In(Functor(n, c), Q[l]) => l = Home(n, c)

QueueInv == Tidy(queue) /\ Placed(queue)

Establishing(c) == In(Functor("connectEstablished", c), queue[loopOf[c]])
Destroying(c) == In(Functor("connectDestroyed", c), queue[loopOf[c]])
Sending(c) == In(Functor("sendInLoop", c), queue[loopOf[c]])
Removing(c) == In(Functor("removeConnectionInLoop", c), queue[Base])

States == {"kConnecting", "kConnected", "kDisconnecting", "kDisconnected"}

\* The connection still has to be taken apart.
Live(c) == state[c] = "kConnecting" \/ channel[c] \in {"reading", "disabled"}

\* Where a connection is in its life.
Stage(c) ==
    /\ state[c] = "kConnecting" <=> Establishing(c)
    /\ state[c] = "kConnecting" => channel[c] = "none"
    /\ state[c] = "kConnected" => channel[c] = "reading"
    /\ state[c] = "kDisconnecting" => channel[c] \in {"reading", "removed"}
    /\ channel[c] = "reading" => state[c] # "kDisconnected"
    /\ Live(c) <=> c \in connections \/ Destroying(c)
    /\ ~(c \in connections /\ Destroying(c))
    /\ pc[Base] # "ended" /\ (state[c] # "kDisconnected" \/ Removing(c)) => c \in connections
    /\ Removing(c) => state[c] = "kDisconnected"
    /\ Sending(c) => channel[c] \in {"reading", "disabled"}
    /\ c \in sender => channel[c] # "none"

StageInv == \A c \in Conns \ stranded : Stage(c)

\* The base loop and the io loop of a stranded connection have ended: nothing
\* happens to it any more, except that its last owner lets go.
StrandedInv ==
    \A c \in stranded : pc[Base] = "ended" /\ pc[loopOf[c]] = "ended" /\ c \notin connections

\* The destructor begins when the base loop has ended, and ends when all have.
\* It tells the io loops to end when no connection is left to give up.
DtorInv ==
    /\ dtor # "no" => pc[Base] = "ended"
    /\ dtor \in {"join", "done", "gone"} => connections = {}
    /\ \A l \in IoLoops : quit[l] \/ pc[l] = "ended" => dtor \in {"join", "done", "gone"}
    /\ dtor \in {"done", "gone"} => \A l \in IoLoops : pc[l] = "ended"

\* Only a half-closed connection fails an assertion.
BrokenInv == \A b \in broken : b.line = 61 /\ HalfClosed(b.c)

Inv == TypeOK /\ QueueInv /\ StageInv /\ StrandedInv /\ DtorInv /\ BrokenInv

-----------------------------------------------------------------------------
(* Functors and queues.                                                    *)

(* A functor is determined by its function and its connection.             *)
LEMMA FunctorFacts ==
    /\ \A n, c : Functor(n, c).f = n /\ Functor(n, c).c = c
    /\ \A n, c, m, d : Functor(n, c) = Functor(m, d) => n = m /\ c = d
    /\ \A n \in {"connectEstablished", "connectDestroyed", "removeConnectionInLoop",
                 "sendInLoop", "sendTooLate"}, c \in Conns : Functor(n, c) \in Functors
    /\ \A x \in Functors : x.c \in Conns /\ x = Functor(x.f, x.c)
<1>1. \A n, c : Functor(n, c).f = n /\ Functor(n, c).c = c
  BY DEF Functor
<1>2. \A n, c, m, d : Functor(n, c) = Functor(m, d) => n = m /\ c = d
  BY <1>1
<1>3. \A n \in {"connectEstablished", "connectDestroyed", "removeConnectionInLoop",
                "sendInLoop", "sendTooLate"}, c \in Conns : Functor(n, c) \in Functors
  BY DEF Functor, Functors
<1>4. \A x \in Functors : x.c \in Conns /\ x = Functor(x.f, x.c)
  BY DEF Functor, Functors
<1> QED BY <1>1, <1>2, <1>3, <1>4

(* queueInLoop() adds one functor at the end (EventLoop.cc:163-175).       *)
LEMMA AddToQueue ==
    ASSUME NEW q \in Seq(Functors), NEW x \in Functors
    PROVE  /\ Append(q, x) \in Seq(Functors) /\ Len(Append(q, x)) = Len(q) + 1
           /\ \A y : In(y, Append(q, x)) <=> In(y, q) \/ y = x
           /\ Once(q) /\ (x.f \in RawFunctors \/ ~In(x, q)) => Once(Append(q, x))
           /\ Ordered(q) /\ (\/ x.f \notin {"connectEstablished", "sendInLoop"}
                             \/ ~In(Functor("connectDestroyed", x.c), q))
                 => Ordered(Append(q, x))
<1>1. PICK r : r = Append(q, x)
  OBVIOUS
<1>2. PICK n \in Nat : n = Len(q)
  OBVIOUS
<1>3. /\ r \in Seq(Functors) /\ Len(r) = n + 1
      /\ DOMAIN r = 1..(n + 1) /\ DOMAIN q = 1..n
      /\ r[n + 1] = x /\ \A i \in 1..n : r[i] = q[i] /\ q[i] \in Functors
  BY <1>1, <1>2
<1>4. \A y : In(y, r) <=> In(y, q) \/ y = x
  BY <1>3 DEF In
<1>5. Once(q) /\ (x.f \in RawFunctors \/ ~In(x, q)) => Once(r)
  BY <1>3 DEF Once, In
<1>6. Ordered(q) /\ (\/ x.f \notin {"connectEstablished", "sendInLoop"}
                     \/ ~In(Functor("connectDestroyed", x.c), q)) => Ordered(r)
  <2> SUFFICES ASSUME Ordered(q),
                      \/ x.f \notin {"connectEstablished", "sendInLoop"}
                      \/ ~In(Functor("connectDestroyed", x.c), q),
                      NEW i \in 1..(n + 1), NEW j \in 1..(n + 1),
                      r[j].f = "connectDestroyed", r[i].c = r[j].c,
                      r[i].f \in {"connectEstablished", "sendInLoop"}
               PROVE  i < j
    BY <1>3 DEF Ordered
  <2>1. CASE i \in 1..n /\ j \in 1..n
    BY <1>3, <2>1 DEF Ordered
  <2>2. CASE i \in 1..n /\ j = n + 1
    BY <2>2
  <2>3. CASE i = n + 1 /\ j \in 1..n
    <3>1. q[j] = Functor("connectDestroyed", x.c)
      BY <1>3, <2>3, FunctorFacts
    <3> QED BY <1>3, <2>3, <3>1 DEF In
  <2>4. CASE i = n + 1 /\ j = n + 1
    BY <2>4
  <2> QED BY <2>1, <2>2, <2>3, <2>4
<1> QED BY <1>1, <1>2, <1>3, <1>4, <1>5, <1>6

(* doPendingFunctors() takes the functors from the front.                  *)
LEMMA TakeFromQueue ==
    ASSUME NEW q \in Seq(Functors), q # <<>>
    PROVE  /\ Tail(q) \in Seq(Functors) /\ Len(Tail(q)) = Len(q) - 1
           /\ Head(q) \in Functors
           /\ \A y : In(y, q) <=> y = Head(q) \/ In(y, Tail(q))
           /\ Once(q) => Once(Tail(q)) /\ (Head(q).f \notin RawFunctors => ~In(Head(q), Tail(q)))
           /\ Ordered(q) => Ordered(Tail(q))
           /\ Ordered(q) /\ Head(q).f = "connectDestroyed" =>
                 /\ ~In(Functor("connectEstablished", Head(q).c), q)
                 /\ ~In(Functor("sendInLoop", Head(q).c), q)
<1>1. PICK r : r = Tail(q)
  OBVIOUS
<1>2. PICK n \in Nat : n + 1 = Len(q)
  <2>1. Len(q) - 1 \in Nat /\ (Len(q) - 1) + 1 = Len(q)
    OBVIOUS
  <2> QED BY <2>1
<1>3. /\ r \in Seq(Functors) /\ Len(r) = n
      /\ DOMAIN r = 1..n /\ DOMAIN q = 1..(n + 1)
      /\ Head(q) = q[1] /\ q[1] \in Functors /\ \A i \in 1..n : r[i] = q[i + 1]
  BY <1>1, <1>2
<1>4. \A i \in 1..(n + 1) : i = 1 \/ \E k \in 1..n : i = k + 1
  <2> SUFFICES ASSUME NEW i \in 1..(n + 1), i # 1 PROVE \E k \in 1..n : i = k + 1
    OBVIOUS
  <2>1. i - 1 \in 1..n /\ i = (i - 1) + 1
    OBVIOUS
  <2> QED BY <2>1
<1>5. \A y : In(y, q) <=> y = Head(q) \/ In(y, r)
  <2>1. ASSUME NEW y, In(y, q) PROVE y = Head(q) \/ In(y, r)
    <3>1. PICK i \in 1..(n + 1) : q[i] = y
      BY <1>3, <2>1 DEF In
    <3>2. CASE i = 1
      BY <1>3, <3>1, <3>2
    <3>3. CASE i # 1
      <4>1. PICK k \in 1..n : i = k + 1
        BY <1>4, <3>3
      <4>2. r[k] = y
        BY <1>3, <3>1, <4>1
      <4> QED BY <1>3, <4>2 DEF In
    <3> QED BY <3>2, <3>3
  <2>2. ASSUME NEW y, y = Head(q) \/ In(y, r) PROVE In(y, q)
    <3>1. 1 \in 1..(n + 1) /\ \A i \in 1..n : i + 1 \in 1..(n + 1)
      OBVIOUS
    <3> QED BY <1>3, <2>2, <3>1 DEF In
  <2> QED BY <2>1, <2>2
<1>6. \A i \in 1..n : i + 1 \in 1..(n + 1) /\ i + 1 # 1
  OBVIOUS
<1>7. Once(q) => Once(r) /\ (Head(q).f \notin RawFunctors => ~In(Head(q), r))
  <2> SUFFICES ASSUME Once(q)
               PROVE  Once(r) /\ (Head(q).f \notin RawFunctors => ~In(Head(q), r))
    OBVIOUS
  <2>1. Once(r)
    <3> SUFFICES ASSUME NEW i \in 1..n, NEW j \in 1..n, r[i] = r[j],
                        r[i].f \notin RawFunctors
                 PROVE  i = j
      BY <1>3 DEF Once
    <3>1. q[i + 1] = q[j + 1] /\ q[i + 1].f \notin RawFunctors
      BY <1>3
    <3>2. i + 1 = j + 1
      BY <1>3, <1>6, <3>1 DEF Once
    <3> QED BY <3>2
  <2>2. Head(q).f \notin RawFunctors => ~In(Head(q), r)
    BY <1>3, <1>6 DEF Once, In
  <2> QED BY <2>1, <2>2
<1>8. Ordered(q) => Ordered(r)
  <2> SUFFICES ASSUME Ordered(q), NEW i \in 1..n, NEW j \in 1..n,
                      r[j].f = "connectDestroyed", r[i].c = r[j].c,
                      r[i].f \in {"connectEstablished", "sendInLoop"}
               PROVE  i < j
    BY <1>3 DEF Ordered
  <2>1. i + 1 < j + 1
    BY <1>3, <1>6 DEF Ordered
  <2> QED BY <2>1
<1>9. Ordered(q) /\ Head(q).f = "connectDestroyed" =>
          /\ ~In(Functor("connectEstablished", Head(q).c), q)
          /\ ~In(Functor("sendInLoop", Head(q).c), q)
  <2> SUFFICES ASSUME Ordered(q), Head(q).f = "connectDestroyed",
                      NEW m \in {"connectEstablished", "sendInLoop"},
                      NEW i \in 1..(n + 1), q[i] = Functor(m, Head(q).c)
               PROVE  FALSE
    BY <1>3 DEF In
  <2>1. q[i].f = m /\ q[i].c = q[1].c
    BY <1>3, FunctorFacts
  <2>2. i < 1
    BY <1>3, <2>1 DEF Ordered
  <2> QED BY <2>2
<1> QED BY <1>1, <1>2, <1>3, <1>5, <1>7, <1>8, <1>9

(* Adding a functor to the queue of one loop.                              *)
LEMMA AddStep ==
    ASSUME NEW Q \in Queues, NEW a \in Loops, NEW x \in Functors, NEW R,
           R = [Q EXCEPT ![a] = Append(@, x)], Tidy(Q),
           x.f \in RawFunctors \/ ~In(x, Q[a]),
           \/ x.f \notin {"connectEstablished", "sendInLoop"}
           \/ ~In(Functor("connectDestroyed", x.c), Q[a])
    PROVE  /\ R \in Queues /\ Tidy(R)
           /\ \A l \in Loops : \A y : In(y, R[l]) <=> In(y, Q[l]) \/ (l = a /\ y = x)
<1>1. Q[a] \in Seq(Functors)
  BY DEF Queues
<1>2. PICK r \in Seq(Functors) : r = Append(Q[a], x)
  BY <1>1, AddToQueue
<1>3. /\ \A y : In(y, r) <=> In(y, Q[a]) \/ y = x
      /\ Once(r) /\ Ordered(r)
  <2>1. Once(Q[a]) /\ Ordered(Q[a])
    BY DEF Tidy
  <2> QED BY <1>1, <1>2, <2>1, AddToQueue
<1>4. /\ R \in Queues
      /\ \A l \in Loops : R[l] = IF l = a THEN r ELSE Q[l]
  BY <1>2 DEF Queues
<1>5. Tidy(R)
  BY <1>3, <1>4 DEF Tidy
<1>6. \A l \in Loops : \A y : In(y, R[l]) <=> In(y, Q[l]) \/ (l = a /\ y = x)
  BY <1>3, <1>4
<1> QED BY <1>4, <1>5, <1>6

\* The queues when b has taken its first functor.
Rest(Q, b) == [Q EXCEPT ![b] = Tail(@)]

(* Taking the first functor from the queue of one loop.                    *)
LEMMA TakeStep ==
    ASSUME NEW Q \in Queues, NEW b \in Loops, Q[b] # <<>>, Tidy(Q)
    PROVE  /\ Rest(Q, b) \in Queues /\ Tidy(Rest(Q, b)) /\ In(Head(Q[b]), Q[b])
           /\ \A l \in Loops : \A y : In(y, Rest(Q, b)[l]) => In(y, Q[l])
           /\ \A l \in Loops : \A y :
                 In(y, Q[l]) /\ ~(l = b /\ y = Head(Q[b])) => In(y, Rest(Q, b)[l])
           /\ Head(Q[b]).f \notin RawFunctors => ~In(Head(Q[b]), Rest(Q, b)[b])
           /\ Head(Q[b]).f = "connectDestroyed" =>
                 /\ ~In(Functor("connectEstablished", Head(Q[b]).c), Q[b])
                 /\ ~In(Functor("sendInLoop", Head(Q[b]).c), Q[b])
<1>1. Q[b] \in Seq(Functors)
  BY DEF Queues
<1>2. PICK r \in Seq(Functors) : r = Tail(Q[b])
  BY <1>1, TakeFromQueue
<1>x. PICK x : x = Head(Q[b])
  OBVIOUS
<1>R. PICK R : R = Rest(Q, b)
  OBVIOUS
<1>3. /\ In(x, Q[b])
      /\ \A y : In(y, Q[b]) <=> y = x \/ In(y, r)
      /\ Once(r) /\ Ordered(r)
      /\ x.f \notin RawFunctors => ~In(x, r)
      /\ x.f = "connectDestroyed" =>
            /\ ~In(Functor("connectEstablished", x.c), Q[b])
            /\ ~In(Functor("sendInLoop", x.c), Q[b])
  <2>1. Once(Q[b]) /\ Ordered(Q[b])
    BY DEF Tidy
  <2> QED BY <1>1, <1>2, <1>x, <2>1, TakeFromQueue
<1>4. /\ R \in Queues
      /\ \A l \in Loops : R[l] = IF l = b THEN r ELSE Q[l]
  BY <1>2, <1>R DEF Queues, Rest
<1>5. Tidy(R)
  BY <1>3, <1>4 DEF Tidy
<1>6. \A l \in Loops : \A y : In(y, R[l]) => In(y, Q[l])
  BY <1>3, <1>4
<1>7. \A l \in Loops : \A y : In(y, Q[l]) /\ ~(l = b /\ y = x) => In(y, R[l])
  BY <1>3, <1>4
<1>8. x.f \notin RawFunctors => ~In(x, R[b])
  BY <1>3, <1>4
<1> QED BY <1>x, <1>R, <1>3, <1>4, <1>5, <1>6, <1>7, <1>8, Zenon

-----------------------------------------------------------------------------
(* Type correctness.                                                       *)

(* The loops, and what the constants allow.                                *)
LEMMA LoopFacts ==
    /\ Base \in Loops /\ IoLoops \subseteq Loops /\ Base \notin IoLoops
    /\ N \in Nat /\ N >= 1 /\ MaxBacklog \in Nat
  BY ThreadsAssumption, BoundsAssumption DEF Base, Loops, IoLoops

\* No loop runs more functors than are in its queue.
Batches(B, Q) == B \in [Loops -> Nat] /\ \A l \in Loops : B[l] <= Len(Q[l])

(* Adding a functor leaves the batches within the queues.                  *)
LEMMA AddTypes ==
    ASSUME NEW Q \in Queues, NEW B, Batches(B, Q), NEW a \in Loops, NEW x \in Functors,
           NEW R, R = [Q EXCEPT ![a] = Append(@, x)]
    PROVE  R \in Queues /\ Batches(B, R)
<1>1. Q[a] \in Seq(Functors)
  BY DEF Queues
<1>2. PICK r \in Seq(Functors) : r = Append(Q[a], x)
  BY <1>1, AddToQueue
<1>3. R \in Queues /\ \A l \in Loops : R[l] = IF l = a THEN r ELSE Q[l]
  BY <1>2 DEF Queues
<1>4. Len(r) = Len(Q[a]) + 1 /\ Len(Q[a]) \in Nat
  BY <1>1, <1>2, AddToQueue
<1>5. ASSUME NEW l \in Loops PROVE B[l] <= Len(R[l])
  <2>1. B[l] \in Nat /\ B[l] <= Len(Q[l])
    BY DEF Batches
  <2>2. CASE l = a
    BY <1>3, <1>4, <2>1, <2>2
  <2>3. CASE l # a
    BY <1>3, <2>1, <2>3
  <2> QED BY <2>2, <2>3
<1> QED BY <1>3, <1>5 DEF Batches

(* Running a functor takes it from the queue and from the batch.           *)
LEMMA TakeTypes ==
    ASSUME NEW Q \in Queues, NEW B, Batches(B, Q), NEW b \in Loops, B[b] > 0,
           NEW R, R = [Q EXCEPT ![b] = Tail(@)],
           NEW C, C = [B EXCEPT ![b] = @ - 1]
    PROVE  R \in Queues /\ Batches(C, R) /\ Q[b] # <<>>
<1>1. Q[b] \in Seq(Functors) /\ B[b] \in Nat /\ B[b] <= Len(Q[b])
  BY DEF Queues, Batches
<1>2. Q[b] # <<>>
  BY <1>1
<1>3. PICK r \in Seq(Functors) : r = Tail(Q[b])
  BY <1>1, <1>2, TakeFromQueue
<1>4. R \in Queues /\ \A l \in Loops : R[l] = IF l = b THEN r ELSE Q[l]
  BY <1>3 DEF Queues
<1>5. Len(r) = Len(Q[b]) - 1 /\ Len(Q[b]) \in Nat
  BY <1>1, <1>2, <1>3, TakeFromQueue
<1>6. PICK k \in Nat : k = B[b] - 1
  BY <1>1
<1>7. C \in [Loops -> Nat] /\ \A l \in Loops : C[l] = IF l = b THEN k ELSE B[l]
  BY <1>6 DEF Batches
<1>8. k <= Len(r)
  BY <1>1, <1>5, <1>6
<1>9. \A l \in Loops : C[l] <= Len(R[l])
  BY <1>4, <1>7, <1>8 DEF Batches
<1> QED BY <1>2, <1>4, <1>7, <1>9 DEF Batches

DtorSteps == {"no", "body", "join", "done", "gone"}
Failures == [line : {61, 106, 110, 117, 330}, c : Conns]

\* The variables that the queues do not depend on.
RestOK ==
    /\ started \in BOOLEAN /\ next \in 0..(N - 1)
    /\ connections \in SUBSET Conns
    /\ state \in [Conns -> States]
    /\ channel \in [Conns -> {"none", "reading", "disabled", "removed"}]
    /\ loopOf \in [Conns -> IoLoops]
    /\ pc \in [Loops -> {"events", "functors", "ended"}]
    /\ quit \in [Loops -> BOOLEAN]
    /\ backlog \in 0..MaxBacklog /\ acceptActive \in BOOLEAN
    /\ sender \in SUBSET Conns
    /\ dtor \in DtorSteps
    /\ broken \in SUBSET Failures
    /\ stranded \in SUBSET Conns

(* Running a functor: what Run() says of the queues.                       *)
LEMMA RunTypes ==
    ASSUME queue \in Queues, Batches(batch, queue), NEW l \in Loops, NEW name, NEW c,
           Run(l, name, c)
    PROVE  /\ Popped(l) \in Queues /\ Batches(batch', Popped(l)) /\ queue[l] # <<>>
           /\ Head(queue[l]) = Functor(name, c)
<1>1. /\ batch[l] > 0 /\ batch' = [batch EXCEPT ![l] = @ - 1]
      /\ Head(queue[l]) = Functor(name, c)
  BY DEF Run, Functor
<1>2. Popped(l) = [queue EXCEPT ![l] = Tail(@)]
  BY DEF Popped
<1> QED BY <1>1, <1>2, TakeTypes

(* Queueing a functor for a loop.                                          *)
LEMMA QueuedTypes ==
    ASSUME NEW Q \in Queues, NEW B, Batches(B, Q), NEW a \in Loops, NEW c \in Conns,
           NEW name \in {"connectEstablished", "connectDestroyed",
                         "removeConnectionInLoop", "sendInLoop", "sendTooLate"}
    PROVE  /\ Queued(Q, a, name, c) \in Queues /\ Batches(B, Queued(Q, a, name, c))
           /\ Functor(name, c) \in Functors
           /\ Queued(Q, a, name, c) = [Q EXCEPT ![a] = Append(@, Functor(name, c))]
<1>1. Functor(name, c) \in Functors
  BY FunctorFacts
<1>2. Queued(Q, a, name, c) = [Q EXCEPT ![a] = Append(@, Functor(name, c))]
  BY DEF Queued, Functor
<1>3. PICK x \in Functors : x = Functor(name, c)
  BY <1>1
<1>4. PICK R : R = [Q EXCEPT ![a] = Append(@, x)]
  OBVIOUS
<1>5. R \in Queues /\ Batches(B, R)
  BY <1>4, AddTypes
<1> QED BY <1>1, <1>2, <1>3, <1>4, <1>5, Zenon

(* A failed assertion is recorded with its line and its connection.        *)
LEMMA FailureTypes ==
    ASSUME NEW B \in SUBSET Failures, NEW c \in Conns,
           NEW line \in {61, 106, 110, 117, 330}
    PROVE  B \cup {[line |-> line, c |-> c]} \in SUBSET Failures
  BY DEF Failures

\* The queues when the loop a is destructed.
Without(Q, a) == [Q EXCEPT ![a] = <<>>]

(* The destructor of a loop that runs no functor drops its queue.          *)
LEMMA ClearTypes ==
    ASSUME NEW Q \in Queues, NEW B, Batches(B, Q), NEW a \in Loops, B[a] = 0
    PROVE  Without(Q, a) \in Queues /\ Batches(B, Without(Q, a))
<1>1. <<>> \in Seq(Functors) /\ Len(<<>>) = 0
  OBVIOUS
<1>2. PICK R : R = Without(Q, a)
  OBVIOUS
<1>3. R \in Queues /\ \A l \in Loops : R[l] = IF l = a THEN <<>> ELSE Q[l]
  BY <1>1, <1>2 DEF Queues, Without
<1>4. \A l \in Loops : B[l] <= Len(R[l])
  BY <1>1, <1>3 DEF Batches
<1> QED BY <1>2, <1>3, <1>4 DEF Batches

(* Every step of every thread keeps the types.                             *)
LEMMA TypeStep ==
    ASSUME TypeOK, [Next]_vars
    PROVE  TypeOK'
<1>0. RestOK /\ queue \in Queues /\ Batches(batch, queue)
  BY DEF TypeOK, RestOK, Queues, Batches, States, DtorSteps, Failures
<1>00. SUFFICES RestOK' /\ queue' \in Queues /\ Batches(batch', queue')
  BY DEF TypeOK, RestOK, Queues, Batches, States, DtorSteps, Failures
<1>1. CASE UNCHANGED vars
  BY <1>0, <1>1 DEF vars, connVars, acceptVars, history, RestOK
<1>2. CASE Start \/ ClientArrives \/ BaseQuit
  <2>1. UNCHANGED <<connections, state, channel, loopOf, next, acceptActive, pc, queue,
                    batch, sender, dtor, broken, stranded>>
    BY <1>2 DEF Start, ClientArrives, BaseQuit, connVars, acceptVars, history
  <2>2. started' \in BOOLEAN /\ quit' \in [Loops -> BOOLEAN]
    <3>1. started' = started \/ started' = TRUE
      BY <1>2 DEF Start, ClientArrives, BaseQuit, acceptVars
    <3>2. quit' = quit \/ quit' = [quit EXCEPT ![Base] = TRUE]
      BY <1>2 DEF Start, ClientArrives, BaseQuit
    <3>3. quit \in [Loops -> BOOLEAN] /\ [quit EXCEPT ![Base] = TRUE] \in [Loops -> BOOLEAN]
      BY <1>0, LoopFacts DEF RestOK
    <3>4. started' \in BOOLEAN
      BY <1>0, <3>1, Zenon DEF RestOK
    <3>5. quit' \in [Loops -> BOOLEAN]
      BY <3>2, <3>3, Zenon
    <3> QED BY <3>4, <3>5
  <2>3. backlog' \in 0..MaxBacklog
    <3>1. backlog' = backlog \/ (backlog' = backlog + 1 /\ backlog < MaxBacklog)
      BY <1>2 DEF Start, ClientArrives, BaseQuit, acceptVars
    <3>2. backlog \in 0..MaxBacklog
      BY <1>0 DEF RestOK
    <3> QED BY <3>1, <3>2, LoopFacts
  <2> QED BY <1>0, <2>1, <2>2, <2>3, Zenon DEF RestOK
<1>3. CASE DtorBegins \/ DtorBodyEnds \/ DtorEnds \/ \E l \in IoLoops : QuitIoLoop(l)
  <2>1. UNCHANGED <<connections, state, channel, loopOf, started, next, backlog,
                    acceptActive, pc, queue, batch, sender, broken, stranded>>
    BY <1>3 DEF DtorBegins, DtorBodyEnds, DtorEnds, QuitIoLoop, connVars, acceptVars, history
  <2>2. quit' = quit \/ \E l \in Loops : quit' = [quit EXCEPT ![l] = TRUE]
    BY <1>3, LoopFacts DEF DtorBegins, DtorBodyEnds, DtorEnds, QuitIoLoop
  <2>3. quit' \in [Loops -> BOOLEAN]
    <3>1. \A l \in Loops : [quit EXCEPT ![l] = TRUE] \in [Loops -> BOOLEAN]
      BY <1>0 DEF RestOK
    <3>2. quit \in [Loops -> BOOLEAN]
      BY <1>0 DEF RestOK
    <3> QED BY <2>2, <3>1, <3>2, Zenon
  <2>4. dtor' \in DtorSteps
    BY <1>0, <1>3 DEF DtorBegins, DtorBodyEnds, DtorEnds, QuitIoLoop, RestOK, DtorSteps
  <2> QED BY <1>0, <2>1, <2>3, <2>4, Zenon DEF RestOK
<1>4. CASE AcceptFails
  <2>1. UNCHANGED <<connections, state, channel, loopOf, started, next, pc, queue, batch,
                    quit, sender, dtor, broken, stranded>> /\ acceptActive' = FALSE
    BY <1>4 DEF AcceptFails, connVars, history
  <2>2. backlog' = backlog - 1 /\ backlog > 0
    BY <1>4 DEF AcceptFails, Accepting, TurnedAway
  <2>3. backlog' \in 0..MaxBacklog
    BY <1>0, <2>2, LoopFacts DEF RestOK
  <2> QED BY <1>0, <2>1, <2>3, Zenon DEF RestOK
<1>5. CASE \E c \in Conns : CallSend(c)
  BY <1>0, <1>5 DEF CallSend, connVars, acceptVars, history, RestOK
<1>6. ASSUME NEW l \in Loops, Swap(l) PROVE RestOK' /\ queue' \in Queues /\ Batches(batch', queue')
  <2>1. /\ pc' = [pc EXCEPT ![l] = "functors"] /\ batch' = [batch EXCEPT ![l] = Len(queue[l])]
        /\ UNCHANGED <<connections, state, channel, loopOf, started, next, backlog,
                       acceptActive, queue, quit, sender, dtor, broken, stranded>>
    BY <1>6 DEF Swap, connVars, acceptVars, history
  <2>2. RestOK'
    BY <1>0, <2>1 DEF RestOK
  <2>3. queue[l] \in Seq(Functors)
    BY <1>0 DEF Queues
  <2>4. PICK n \in Nat : n = Len(queue[l])
    BY <2>3
  <2>5. Batches(batch', queue')
    BY <1>0, <2>1, <2>4 DEF Batches
  <2> QED BY <1>0, <2>1, <2>2, <2>5
<1>7. ASSUME NEW l \in Loops, Iterate(l) PROVE RestOK' /\ queue' \in Queues /\ Batches(batch', queue')
  <2>1. /\ pc' = [pc EXCEPT ![l] = "events"]
        /\ UNCHANGED <<connections, state, channel, loopOf, started, next, backlog, batch,
                       queue, quit, sender, dtor, broken, stranded>>
    BY <1>7 DEF Iterate, connVars, history
  <2>2. acceptActive' \in BOOLEAN
    <3>1. acceptActive' = IF l = Base THEN backlog > 0 ELSE acceptActive
      BY <1>7 DEF Iterate
    <3>2. (backlog > 0) \in BOOLEAN
      OBVIOUS
    <3> QED BY <1>0, <3>1, <3>2, Zenon DEF RestOK
  <2> QED BY <1>0, <2>1, <2>2 DEF RestOK
<1>8. ASSUME NEW l \in Loops, NEW c \in Conns,
             \/ ConnectEstablished(l, c) \/ ConnectDestroyed(l, c)
             \/ SendInLoop(l, c) \/ SendTooLate(l, c)
      PROVE  RestOK' /\ queue' \in Queues /\ Batches(batch', queue')
  <2>1. queue' = Popped(l) /\ \E name : Run(l, name, c)
    BY <1>8 DEF ConnectEstablished, ConnectDestroyed, SendInLoop, SendTooLate
  <2>2. queue' \in Queues /\ Batches(batch', queue')
    BY <1>0, <2>1, RunTypes
  <2>3. UNCHANGED <<connections, loopOf, started, next, backlog, acceptActive, pc, quit,
                    sender, dtor, stranded>>
    BY <1>8 DEF ConnectEstablished, ConnectDestroyed, SendInLoop, SendTooLate, connVars,
                acceptVars, Check, history
  <2>4. /\ state' \in [Conns -> States]
        /\ channel' \in [Conns -> {"none", "reading", "disabled", "removed"}]
    BY <1>0, <1>8 DEF ConnectEstablished, ConnectDestroyed, SendInLoop, SendTooLate, connVars,
                      RestOK, States
  <2>5. broken' \in SUBSET Failures
    <3>1. \/ broken' = broken
          \/ \E line \in {61, 110, 330} : broken' = broken \cup {[line |-> line, c |-> c]}
      BY <1>8 DEF ConnectEstablished, ConnectDestroyed, SendInLoop, SendTooLate, Check, history
    <3> QED BY <1>0, <3>1, FailureTypes DEF RestOK
  <2> QED BY <1>0, <2>2, <2>3, <2>4, <2>5 DEF RestOK
<1>9. ASSUME NEW c \in Conns, Accept(c) PROVE RestOK' /\ queue' \in Queues /\ Batches(batch', queue')
  <2>1. next + 1 \in Loops /\ next + 1 \in IoLoops /\ NextIndex \in 0..(N - 1)
    BY <1>0, ThreadsAssumption DEF RestOK, Loops, IoLoops, NextIndex
  <2>2. queue' = Queued(queue, next + 1, "connectEstablished", c) /\ batch' = batch
    BY <1>9 DEF Accept
  <2>3. queue' \in Queues /\ Batches(batch', queue')
    BY <1>0, <2>1, <2>2, QueuedTypes
  <2>4. /\ UNCHANGED <<started, pc, quit, sender, dtor, broken, stranded>>
        /\ connections' = connections \cup {c} /\ acceptActive' = FALSE /\ next' = NextIndex
        /\ state' = [state EXCEPT ![c] = "kConnecting"]
        /\ channel' = [channel EXCEPT ![c] = "none"]
        /\ loopOf' = [loopOf EXCEPT ![c] = next + 1]
        /\ backlog' = backlog - 1 /\ backlog > 0
    BY <1>9 DEF Accept, Accepting, history
  <2>5. backlog' \in 0..MaxBacklog
    BY <1>0, <2>4, LoopFacts DEF RestOK
  <2>6. /\ connections' \in SUBSET Conns
        /\ state' \in [Conns -> States]
        /\ channel' \in [Conns -> {"none", "reading", "disabled", "removed"}]
        /\ loopOf' \in [Conns -> IoLoops]
    BY <1>0, <2>1, <2>4 DEF RestOK, States
  <2>7. RestOK'
    BY <1>0, <2>1, <2>4, <2>5, <2>6, Zenon DEF RestOK
  <2> QED BY <2>3, <2>7
<1>10. ASSUME NEW c \in Conns, HandleClose(c) PROVE RestOK' /\ queue' \in Queues /\ Batches(batch', queue')
  <2>1. queue' = Queued(queue, Base, "removeConnectionInLoop", c) /\ batch' = batch
    BY <1>10 DEF HandleClose
  <2>2. queue' \in Queues /\ Batches(batch', queue')
    BY <1>0, <2>1, QueuedTypes, LoopFacts
  <2>3. /\ UNCHANGED <<connections, loopOf, started, next, backlog, acceptActive, pc, quit,
                       sender, dtor, stranded>>
        /\ state' = [state EXCEPT ![c] = "kDisconnected"]
        /\ channel' = [channel EXCEPT ![c] = "disabled"]
        /\ \/ broken' = broken
           \/ \E line \in {106} : broken' = broken \cup {[line |-> line, c |-> c]}
    BY <1>10 DEF HandleClose, Check, acceptVars
  <2>4. broken' \in SUBSET Failures
    BY <1>0, <2>3, FailureTypes DEF RestOK
  <2>5. RestOK'
    BY <1>0, <2>3, <2>4 DEF RestOK, States
  <2> QED BY <2>2, <2>5
<1>11. ASSUME NEW c \in Conns, QueueSend(c) \/ DtorConnection(c)
       PROVE  RestOK' /\ queue' \in Queues /\ Batches(batch', queue')
  <2>0. loopOf[c] \in Loops
    BY <1>0, LoopFacts DEF RestOK
  <2>1. /\ batch' = batch
        /\ \E name \in {"sendInLoop", "sendTooLate", "connectDestroyed"} :
              queue' = Queued(queue, loopOf[c], name, c)
    BY <1>11 DEF QueueSend, DtorConnection
  <2>2. queue' \in Queues /\ Batches(batch', queue')
    BY <1>0, <2>0, <2>1, QueuedTypes
  <2>3. RestOK'
    <3>1. /\ UNCHANGED <<state, channel, loopOf, started, next, backlog, acceptActive, pc,
                          quit, dtor, broken, stranded>>
          /\ connections' = connections \/ connections' = connections \ {c}
          /\ sender' = sender \/ sender' = {}
      BY <1>11 DEF QueueSend, DtorConnection, connVars, acceptVars, history
    <3>2. connections' \in SUBSET Conns /\ sender' \in SUBSET Conns
      BY <1>0, <3>1 DEF RestOK
    <3> QED BY <1>0, <3>1, <3>2, Zenon DEF RestOK
  <2> QED BY <2>2, <2>3
<1>12. ASSUME NEW c \in Conns, RemoveConnectionInLoop(c)
       PROVE  RestOK' /\ queue' \in Queues /\ Batches(batch', queue')
  <2>0. loopOf[c] \in Loops
    BY <1>0, LoopFacts DEF RestOK
  <2>1. queue' = Queued(Popped(Base), loopOf[c], "connectDestroyed", c)
        /\ Run(Base, "removeConnectionInLoop", c)
    BY <1>12 DEF RemoveConnectionInLoop
  <2>2. Popped(Base) \in Queues /\ Batches(batch', Popped(Base))
    BY <1>0, <2>1, RunTypes, LoopFacts
  <2>3. queue' \in Queues /\ Batches(batch', queue')
    BY <2>0, <2>1, <2>2, QueuedTypes
  <2>4. /\ UNCHANGED <<state, channel, loopOf, started, next, backlog, acceptActive, pc, quit,
                       sender, dtor, stranded>>
        /\ connections' = connections \ {c}
        /\ \/ broken' = broken
           \/ \E line \in {117} : broken' = broken \cup {[line |-> line, c |-> c]}
    BY <1>12 DEF RemoveConnectionInLoop, Check, acceptVars
  <2>5. broken' \in SUBSET Failures /\ connections' \in SUBSET Conns
    BY <1>0, <2>4, FailureTypes DEF RestOK
  <2>6. RestOK'
    BY <1>0, <2>4, <2>5, Zenon DEF RestOK
  <2> QED BY <2>3, <2>6
<1>13. ASSUME NEW c \in Conns, Shutdown(c)
       PROVE  RestOK' /\ queue' \in Queues /\ Batches(batch', queue')
  BY <1>0, <1>13 DEF Shutdown, acceptVars, history, RestOK, States
<1>14. ASSUME NEW l \in Loops, LoopEnds(l)
       PROVE  /\ stranded' \in SUBSET Conns => RestOK'
              /\ batch' = batch /\ batch[l] = 0
  BY <1>0, <1>14 DEF LoopEnds, connVars, acceptVars, RestOK
<1>15. CASE BaseLoopEnds
  <2>1. LoopEnds(Base) /\ UNCHANGED <<queue, stranded>>
    BY <1>15 DEF BaseLoopEnds
  <2>2. stranded' \in SUBSET Conns
    BY <1>0, <2>1 DEF RestOK
  <2> QED BY <1>0, <1>14, <2>1, <2>2, LoopFacts
<1>16. ASSUME NEW l \in IoLoops, IoLoopEnds(l)
       PROVE  RestOK' /\ queue' \in Queues /\ Batches(batch', queue')
  <2>1. /\ LoopEnds(l) /\ l \in Loops
        /\ queue' = Without(queue, l)
        /\ stranded' = stranded \cup {c \in Conns : Mentioned(c, queue[l])}
    BY <1>16, LoopFacts DEF IoLoopEnds, Without
  <2>2. stranded' \in SUBSET Conns
    BY <1>0, <2>1 DEF RestOK
  <2> QED BY <1>0, <1>14, <2>1, <2>2, ClearTypes
<1>17. CASE BaseLoopDestructed
  <2>1. /\ queue' = Without(queue, Base) /\ batch' = [batch EXCEPT ![Base] = 0]
        /\ dtor' = "gone"
        /\ UNCHANGED <<connections, state, channel, loopOf, started, next, backlog,
                       acceptActive, pc, quit, sender, broken, stranded>>
    BY <1>17 DEF BaseLoopDestructed, Without, connVars, acceptVars, history
  <2>2. RestOK'
    BY <1>0, <2>1 DEF RestOK, DtorSteps
  <2>3. PICK B : B = batch'
    OBVIOUS
  <2>4. Batches(B, queue) /\ B[Base] = 0
    <3>1. \A l \in Loops : queue[l] \in Seq(Functors)
      BY <1>0 DEF Queues
    <3>2. B \in [Loops -> Nat] /\ \A l \in Loops : B[l] = IF l = Base THEN 0 ELSE batch[l]
      BY <1>0, <2>1, <2>3 DEF Batches
    <3>3. B[Base] = 0 /\ \A l \in Loops : B[l] <= Len(queue[l])
      BY <1>0, <3>1, <3>2, LoopFacts DEF Batches
    <3> QED BY <3>2, <3>3 DEF Batches
  <2>5. Without(queue, Base) \in Queues /\ Batches(B, Without(queue, Base))
    BY <1>0, <2>4, ClearTypes, LoopFacts
  <2> QED BY <2>1, <2>2, <2>3, <2>5
<1> QED BY <1>1, <1>2, <1>3, <1>4, <1>5, <1>6, <1>7, <1>8, <1>9, <1>10, <1>11, <1>12,
           <1>13, <1>15, <1>16, <1>17, LoopFacts
        DEF Next, BaseStep, DtorStep, LoopStep

(* The types hold at the start.                                            *)
LEMMA TypeInit == Init => TypeOK
  BY ThreadsAssumption, BoundsAssumption DEF Init, TypeOK, IoLoops, Loops

(* Every variable keeps its type: no loop runs a functor that is not in    *)
(* its queue, and next_ is always the index of a loop.                     *)
THEOREM TypeCorrect == Spec => []TypeOK
  BY TypeInit, TypeStep, PTL DEF Spec

-----------------------------------------------------------------------------
(* Queueing and running functors, in terms of which functors are where.    *)

(* What the invariant says of the queues.                                  *)
LEMMA InvQueues ==
    ASSUME Inv
    PROVE  /\ RestOK /\ queue \in Queues /\ Batches(batch, queue)
           /\ Tidy(queue) /\ Placed(queue)
           /\ \A c \in Conns : loopOf[c] \in IoLoops /\ loopOf[c] \in Loops
<1>1. RestOK /\ queue \in Queues /\ Batches(batch, queue)
  BY DEF Inv, TypeOK, RestOK, Queues, Batches, States, DtorSteps, Failures
<1>2. Tidy(queue) /\ Placed(queue)
  BY DEF Inv, QueueInv
<1>3. \A c \in Conns : loopOf[c] \in IoLoops /\ loopOf[c] \in Loops
  BY <1>1, LoopFacts DEF RestOK
<1> QED BY <1>1, <1>2, <1>3

(* A functor is queued for the loop it is meant for.                       *)
LEMMA Push ==
    ASSUME NEW Q \in Queues, Tidy(Q), NEW c \in Conns, NEW a \in Loops,
           NEW name \in {"connectEstablished", "connectDestroyed",
                         "removeConnectionInLoop", "sendInLoop", "sendTooLate"},
           name \in RawFunctors \/ ~In(Functor(name, c), Q[a]),
           \/ name \notin {"connectEstablished", "sendInLoop"}
           \/ ~In(Functor("connectDestroyed", c), Q[a]),
           NEW R, R = Queued(Q, a, name, c)
    PROVE  /\ R \in Queues /\ Tidy(R)
           /\ \A l \in Loops : \A n, d :
                 In(Functor(n, d), R[l]) <=>
                     In(Functor(n, d), Q[l]) \/ (l = a /\ n = name /\ d = c)
           /\ Placed(Q) /\ a = Home(name, c) => Placed(R)
<1>1. PICK x \in Functors : x = Functor(name, c)
  BY FunctorFacts
<1>2. x.f = name /\ x.c = c
  BY <1>1, FunctorFacts
<1>3. R = [Q EXCEPT ![a] = Append(@, x)]
  BY <1>1 DEF Queued, Functor
<1>4. /\ x.f \in RawFunctors \/ ~In(x, Q[a])
      /\ \/ x.f \notin {"connectEstablished", "sendInLoop"}
         \/ ~In(Functor("connectDestroyed", x.c), Q[a])
  BY <1>1, <1>2
<1>5. /\ R \in Queues /\ Tidy(R)
      /\ \A l \in Loops : \A y : In(y, R[l]) <=> In(y, Q[l]) \/ (l = a /\ y = x)
  BY <1>3, <1>4, AddStep
<1>6. \A n, d : Functor(n, d) = x <=> n = name /\ d = c
  BY <1>1, FunctorFacts
<1>7. \A l \in Loops : \A n, d :
          In(Functor(n, d), R[l]) <=> In(Functor(n, d), Q[l]) \/ (l = a /\ n = name /\ d = c)
  BY <1>5, <1>6
<1>8. Placed(Q) /\ a = Home(name, c) => Placed(R)
  BY <1>7 DEF Placed
<1> QED BY <1>5, <1>7, <1>8

(* A loop runs the functor at the front: it was meant for this loop, and   *)
(* if it owns its connection it is now in no queue.                        *)
LEMMA Pop ==
    ASSUME Inv, NEW l \in Loops, NEW name, NEW c, Run(l, name, c)
    PROVE  /\ Popped(l) \in Queues /\ Tidy(Popped(l)) /\ Placed(Popped(l))
           /\ In(Functor(name, c), queue[l]) /\ l = Home(name, c)
           /\ \A k \in Loops : \A n, d :
                 In(Functor(n, d), Popped(l)[k]) => In(Functor(n, d), queue[k])
           /\ \A k \in Loops : \A n, d :
                 In(Functor(n, d), queue[k]) /\ ~(n = name /\ d = c)
                     => In(Functor(n, d), Popped(l)[k])
           /\ name \notin RawFunctors =>
                 \A k \in Loops : ~In(Functor(name, c), Popped(l)[k])
           /\ name = "connectDestroyed" =>
                 /\ ~In(Functor("connectEstablished", c), queue[l])
                 /\ ~In(Functor("sendInLoop", c), queue[l])
<1>1. /\ queue \in Queues /\ Tidy(queue) /\ Placed(queue)
      /\ queue[l] # <<>> /\ Head(queue[l]) = Functor(name, c)
  BY InvQueues, RunTypes
<1>2. PICK x : x = Functor(name, c)
  OBVIOUS
<1>3. PICK R : R = Popped(l)
  OBVIOUS
<1>4. x = Head(queue[l]) /\ R = Rest(queue, l)
  BY <1>1, <1>2, <1>3 DEF Popped, Rest
<1>5. x.f = name /\ x.c = c /\ \A n, d : Functor(n, d) = x <=> n = name /\ d = c
  BY <1>2, FunctorFacts
<1>6. /\ R \in Queues /\ Tidy(R) /\ In(x, queue[l])
      /\ \A k \in Loops : \A y : In(y, R[k]) => In(y, queue[k])
      /\ \A k \in Loops : \A y : In(y, queue[k]) /\ ~(k = l /\ y = x) => In(y, R[k])
      /\ x.f \notin RawFunctors => ~In(x, R[l])
      /\ x.f = "connectDestroyed" =>
            /\ ~In(Functor("connectEstablished", x.c), queue[l])
            /\ ~In(Functor("sendInLoop", x.c), queue[l])
  BY <1>1, <1>4, TakeStep, Zenon
<1>7. l = Home(name, c)
  BY <1>1, <1>2, <1>6 DEF Placed
<1>8. Placed(R)
  BY <1>1, <1>6 DEF Placed
<1>9. name \notin RawFunctors => \A k \in Loops : ~In(Functor(name, c), R[k])
  <2> SUFFICES ASSUME name \notin RawFunctors, NEW k \in Loops, In(Functor(name, c), R[k])
               PROVE  FALSE
    OBVIOUS
  <2>1. k = l
    BY <1>7, <1>8 DEF Placed
  <2> QED BY <1>2, <1>5, <1>6, <2>1
<1> QED BY <1>2, <1>3, <1>5, <1>6, <1>7, <1>8, <1>9

-----------------------------------------------------------------------------
(* The life of a connection.                                               *)

(* A connection that a step does not touch stays where it is in its life.  *)
LEMMA StageFrame ==
    ASSUME NEW d \in Conns, Stage(d),
           state'[d] = state[d], channel'[d] = channel[d],
           d \in connections' <=> d \in connections,
           d \in sender' => d \in sender \/ channel[d] # "none",
           pc'[Base] # "ended" => pc[Base] # "ended",
           Establishing(d)' <=> Establishing(d), Destroying(d)' <=> Destroying(d),
           Sending(d)' => Sending(d), Removing(d)' => Removing(d)
    PROVE  Stage(d)'
  BY Zenon DEF Stage, Live

(* Where the functors of a connection are, after a step that moves it to   *)
(* no other loop.                                                          *)
LEMMA FunctorFrame ==
    ASSUME Inv, NEW d \in Conns, loopOf'[d] = loopOf[d]
    PROVE  /\ Establishing(d)' <=> In(Functor("connectEstablished", d), queue'[loopOf[d]])
           /\ Destroying(d)' <=> In(Functor("connectDestroyed", d), queue'[loopOf[d]])
           /\ Sending(d)' <=> In(Functor("sendInLoop", d), queue'[loopOf[d]])
           /\ Removing(d)' <=> In(Functor("removeConnectionInLoop", d), queue'[Base])
  BY DEF Establishing, Destroying, Sending, Removing, In, Functor

(* A connection whose functors stay and which a step does not touch.       *)
LEMMA OtherConnection ==
    ASSUME Inv, NEW d \in Conns, d \notin stranded, loopOf'[d] = loopOf[d],
           \A l \in Loops : \A n : In(Functor(n, d), queue'[l]) <=> In(Functor(n, d), queue[l]),
           state'[d] = state[d], channel'[d] = channel[d],
           d \in connections' <=> d \in connections,
           d \in sender' => d \in sender \/ channel[d] # "none",
           pc'[Base] # "ended" => pc[Base] # "ended"
    PROVE  Stage(d)'
<1>1. Stage(d)
  BY DEF Inv, StageInv
<1>2. loopOf[d] \in Loops /\ Base \in Loops
  BY InvQueues, LoopFacts
<1>3. Establishing(d)' <=> Establishing(d)
  BY <1>2, FunctorFrame DEF Establishing
<1>4. Destroying(d)' <=> Destroying(d)
  BY <1>2, FunctorFrame DEF Destroying
<1>5. Sending(d)' => Sending(d)
  BY <1>2, FunctorFrame DEF Sending
<1>6. Removing(d)' => Removing(d)
  BY <1>2, FunctorFrame DEF Removing
<1> QED BY <1>1, <1>3, <1>4, <1>5, <1>6, StageFrame

(* Nothing touches a half-closed connection any more: the base loop has    *)
(* ended.                                                                  *)
LEMMA HalfClosedFacts ==
    ASSUME Inv, NEW d \in Conns, HalfClosed(d)
    PROVE  pc[Base] = "ended" /\ ~Live(d)
<1>1. state[d] = "kDisconnecting" /\ channel[d] = "removed"
  BY DEF HalfClosed
<1>2. ~Live(d)
  BY <1>1 DEF Live
<1>3. CASE d \in stranded
  BY <1>2, <1>3 DEF Inv, StrandedInv
<1>4. CASE d \notin stranded
  <2>1. Stage(d)
    BY <1>4 DEF Inv, StageInv
  <2> QED BY <1>1, <1>2, <2>1 DEF Stage
<1> QED BY <1>3, <1>4

(* A step in which no assertion fails and that leaves half-closed          *)
(* connections alone.                                                      *)
LEMMA BrokenFrame ==
    ASSUME Inv, broken' = broken,
           \A d \in Conns : HalfClosed(d) => state'[d] = state[d] /\ channel'[d] = channel[d]
    PROVE  BrokenInv'
<1>1. \A b \in broken : b.c \in Conns /\ b.line = 61 /\ HalfClosed(b.c)
  BY InvQueues DEF RestOK, Failures, Inv, BrokenInv
<1> QED BY <1>1 DEF BrokenInv, HalfClosed

(* A connection whose io loop runs, or that the server still has, is not   *)
(* stranded.                                                               *)
LEMMA NotStranded ==
    ASSUME Inv, NEW c \in Conns,
           pc[loopOf[c]] # "ended" \/ pc[Base] # "ended" \/ c \in connections
    PROVE  c \notin stranded /\ Stage(c)
  BY DEF Inv, StrandedInv, StageInv

(* A step that changes neither a queue nor a connection.                   *)
LEMMA InvFrame ==
    ASSUME Inv, TypeOK', DtorInv', StrandedInv',
           UNCHANGED <<queue, loopOf, state, channel, connections, broken, stranded>>,
           \A d \in Conns \ stranded : d \in sender' => d \in sender \/ channel[d] # "none",
           pc'[Base] # "ended" => pc[Base] # "ended"
    PROVE  Inv'
<1>1. QueueInv'
  BY DEF Inv, QueueInv, Placed, Home, Tidy, Once, Ordered, In, Functor
<1>2. ASSUME NEW d \in Conns \ stranded PROVE Stage(d)'
  BY OtherConnection
<1>3. BrokenInv'
  BY BrokenFrame
<1> QED BY <1>1, <1>2, <1>3 DEF Inv, StageInv

(* The queues after a step that leaves every connection in its loop.       *)
LEMMA QueuesFrame ==
    ASSUME Tidy(queue'), Placed(queue'), loopOf' = loopOf
    PROVE  QueueInv'
  BY DEF QueueInv, Tidy, Once, Ordered, In, Placed, Home, Functor

(* A connection nobody owns has no functor and is in no set.               *)
LEMMA FreeFacts ==
    ASSUME NEW c \in Conns, Free(c)
    PROVE  /\ c \notin connections /\ c \notin sender
           /\ \A l \in Loops : \A n : ~In(Functor(n, c), queue[l])
<1>1. c \notin connections /\ c \notin sender
  BY DEF Free, Held
<1>2. ASSUME NEW l \in Loops, NEW n, In(Functor(n, c), queue[l]) PROVE FALSE
  BY <1>2, FunctorFacts DEF Free, In
<1> QED BY <1>1, <1>2

(* newConnection(): a new life begins.                                     *)
LEMMA InvAccept ==
    ASSUME Inv, TypeOK', DtorInv', StrandedInv', NEW c \in Conns, Accept(c)
    PROVE  Inv'
<1>1. /\ pc[Base] = "events" /\ Free(c)
      /\ queue' = Queued(queue, next + 1, "connectEstablished", c)
      /\ connections' = connections \cup {c}
      /\ state' = [state EXCEPT ![c] = "kConnecting"]
      /\ channel' = [channel EXCEPT ![c] = "none"]
      /\ loopOf' = [loopOf EXCEPT ![c] = next + 1]
      /\ UNCHANGED <<pc, sender, dtor, broken, stranded>>
  BY DEF Accept, Accepting, history
<1>2. next + 1 \in Loops /\ next + 1 \in IoLoops
  BY InvQueues, ThreadsAssumption DEF RestOK, Loops, IoLoops
<1>3. c \notin connections /\ c \notin sender /\ \A l \in Loops : \A n : ~In(Functor(n, c), queue[l])
  BY <1>1, FreeFacts
<1>4. PICK a \in Loops : a = next + 1
  BY <1>2
<1>5. /\ Tidy(queue')
      /\ \A l \in Loops : \A n, d :
            In(Functor(n, d), queue'[l]) <=>
                In(Functor(n, d), queue[l]) \/ (l = a /\ n = "connectEstablished" /\ d = c)
  BY <1>1, <1>3, <1>4, InvQueues, Push
<1>6. /\ \A d \in Conns : d # c => /\ state'[d] = state[d] /\ channel'[d] = channel[d]
                                   /\ loopOf'[d] = loopOf[d]
      /\ state'[c] = "kConnecting" /\ channel'[c] = "none" /\ loopOf'[c] = a
  BY <1>1, <1>4, InvQueues DEF RestOK
<1>7. Placed(queue)'
  <2> SUFFICES ASSUME NEW l \in Loops, NEW n, NEW d, In(Functor(n, d), queue'[l])
               PROVE  l = IF n = "removeConnectionInLoop" THEN Base ELSE loopOf'[d]
    BY DEF Placed, Home, In, Functor
  <2>1. CASE In(Functor(n, d), queue[l])
    <3>1. d # c
      BY <1>3, <2>1
    <3>2. l = Home(n, d)
      BY <2>1, InvQueues DEF Placed
    <3>3. d \in Conns
      <4>1. PICK i \in DOMAIN queue[l] : queue[l][i] = Functor(n, d)
        BY <2>1 DEF In
      <4>2. queue[l] \in Seq(Functors)
        BY InvQueues DEF Queues
      <4>3. Functor(n, d) \in Functors
        BY <4>1, <4>2
      <4> QED BY <4>3, FunctorFacts
    <3> QED BY <1>6, <3>1, <3>2, <3>3 DEF Home
  <2>2. CASE l = a /\ n = "connectEstablished" /\ d = c
    BY <1>6, <2>2
  <2> QED BY <1>5, <2>1, <2>2
<1>8. QueueInv'
  BY <1>5, <1>7 DEF QueueInv, Tidy, Once, Ordered
<1>9. ASSUME NEW d \in Conns \ stranded PROVE Stage(d)'
  <2>1. CASE d # c
    <3>1. \A l \in Loops : \A n : In(Functor(n, d), queue'[l]) <=> In(Functor(n, d), queue[l])
      BY <1>5, <2>1
    <3> QED BY <1>1, <1>6, <2>1, <3>1, OtherConnection
  <2>2. CASE d = c
    <3>1. \A l \in Loops : \A n : In(Functor(n, c), queue'[l]) <=>
              n = "connectEstablished" /\ l = a
      BY <1>3, <1>5
    <3>2. Establishing(c)' /\ ~Destroying(c)' /\ ~Sending(c)' /\ ~Removing(c)'
      BY <1>6, <3>1, LoopFacts DEF Establishing, Destroying, Sending, Removing
    <3>3. c \in connections' /\ c \notin sender'
      BY <1>1, <1>3
    <3> QED BY <1>6, <2>2, <3>2, <3>3 DEF Stage, Live
  <2> QED BY <2>1, <2>2
<1>10. BrokenInv'
  <2>1. \A d \in Conns : HalfClosed(d) => d # c
    BY <1>1, HalfClosedFacts
  <2> QED BY <1>1, <1>6, <2>1, BrokenFrame
<1> QED BY <1>1, <1>8, <1>9, <1>10 DEF Inv, StageInv

(* connectEstablished(): the functor is at the front once, so the          *)
(* connection is kConnecting.                                              *)
LEMMA InvEstablished ==
    ASSUME Inv, TypeOK', DtorInv', StrandedInv', NEW l \in Loops, NEW c \in Conns, ConnectEstablished(l, c)
    PROVE  Inv'
<1>1. /\ Run(l, "connectEstablished", c) /\ queue' = Popped(l)
      /\ Check(330, c, state[c] = "kConnecting")
      /\ state' = [state EXCEPT ![c] = "kConnected"]
      /\ channel' = [channel EXCEPT ![c] = "reading"]
      /\ UNCHANGED <<connections, loopOf, pc, sender, dtor>>
  BY DEF ConnectEstablished
<1>2. "connectEstablished" \notin RawFunctors
  BY DEF RawFunctors
<1>3. /\ Tidy(queue') /\ Placed(queue') /\ l = Home("connectEstablished", c)
      /\ In(Functor("connectEstablished", c), queue[l])
      /\ \A k \in Loops : \A n, d : ~(n = "connectEstablished" /\ d = c) =>
            (In(Functor(n, d), queue'[k]) <=> In(Functor(n, d), queue[k]))
      /\ \A k \in Loops : ~In(Functor("connectEstablished", c), queue'[k])
  BY <1>1, <1>2, Pop
<1>4. l = loopOf[c] /\ Establishing(c) /\ Stage(c)
  <2>1. l = loopOf[c] /\ pc[l] = "functors"
    BY <1>1, <1>3 DEF Home, Run
  <2> QED BY <1>3, <2>1, NotStranded DEF Establishing
<1>5. state[c] = "kConnecting" /\ broken' = broken /\ stranded' = stranded
  BY <1>1, <1>4 DEF Stage, Check
<1>6. /\ \A d \in Conns : d # c => state'[d] = state[d] /\ channel'[d] = channel[d]
      /\ state'[c] = "kConnected" /\ channel'[c] = "reading"
  BY <1>1, InvQueues DEF RestOK
<1>7. ASSUME NEW d \in Conns \ stranded PROVE Stage(d)'
  <2>1. CASE d # c
    BY <1>1, <1>3, <1>6, <2>1, OtherConnection
  <2>2. CASE d = c
    <3>1. loopOf[c] \in Loops /\ Base \in Loops
      BY InvQueues, LoopFacts
    <3>2. ~Establishing(c)'
      BY <1>1, <1>3, <3>1, FunctorFrame
    <3>3. Destroying(c)' <=> Destroying(c)
      BY <1>1, <1>3, <3>1, FunctorFrame DEF Destroying
    <3>4. Removing(c)' <=> Removing(c)
      BY <1>1, <1>3, <3>1, FunctorFrame DEF Removing
    <3> QED BY <1>1, <1>4, <1>5, <1>6, <2>2, <3>2, <3>3, <3>4 DEF Stage, Live
  <2> QED BY <2>1, <2>2
<1>8. BrokenInv'
  BY <1>5, <1>6, BrokenFrame DEF HalfClosed
<1> QED BY <1>1, <1>3, <1>5, <1>7, <1>8, QueuesFrame DEF Inv, StageInv

(* handleClose(): the io loop still runs, so the server still exists.      *)
LEMMA InvClose ==
    ASSUME Inv, TypeOK', DtorInv', StrandedInv', NEW c \in Conns, HandleClose(c)
    PROVE  Inv'
<1>1. /\ pc[loopOf[c]] = "events" /\ channel[c] = "reading"
      /\ state[c] # "kDisconnected"
      /\ state' = [state EXCEPT ![c] = "kDisconnected"]
      /\ channel' = [channel EXCEPT ![c] = "disabled"]
      /\ queue' = Queued(queue, Base, "removeConnectionInLoop", c)
      /\ Check(106, c, dtor \notin {"done", "gone"})
      /\ UNCHANGED <<connections, loopOf, pc, sender, dtor>>
  BY DEF HandleClose
<1>2. Stage(c) /\ ~Removing(c)
  BY <1>1, NotStranded DEF Stage
<1>3. /\ Tidy(queue') /\ Placed(queue')
      /\ \A l \in Loops : \A n, d :
            In(Functor(n, d), queue'[l]) <=>
                In(Functor(n, d), queue[l]) \/ (l = Base /\ n = "removeConnectionInLoop" /\ d = c)
  <2>1. Base = Home("removeConnectionInLoop", c) /\ Base \in Loops
    BY LoopFacts DEF Home
  <2>2. ~In(Functor("removeConnectionInLoop", c), queue[Base])
    BY <1>2 DEF Removing
  <2> QED BY <1>1, <2>1, <2>2, InvQueues, Push
<1>4. broken' = broken /\ stranded' = stranded
  <2>1. dtor \notin {"done", "gone"}
    BY <1>1, InvQueues DEF Inv, DtorInv
  <2> QED BY <1>1, <2>1 DEF Check
<1>5. /\ \A d \in Conns : d # c => state'[d] = state[d] /\ channel'[d] = channel[d]
      /\ state'[c] = "kDisconnected" /\ channel'[c] = "disabled"
  BY <1>1, InvQueues DEF RestOK
<1>6. ASSUME NEW d \in Conns \ stranded PROVE Stage(d)'
  <2>1. CASE d # c
    BY <1>1, <1>3, <1>5, <2>1, OtherConnection
  <2>2. CASE d = c
    <3>1. loopOf[c] \in Loops /\ Base \in Loops
      BY InvQueues, LoopFacts
    <3>2. Establishing(c)' <=> Establishing(c)
      BY <1>1, <1>3, <3>1, FunctorFrame DEF Establishing
    <3>3. Destroying(c)' <=> Destroying(c)
      BY <1>1, <1>3, <3>1, FunctorFrame DEF Destroying
    <3> QED BY <1>1, <1>2, <1>5, <2>2, <3>2, <3>3 DEF Stage, Live
  <2> QED BY <2>1, <2>2
<1>7. BrokenInv'
  BY <1>1, <1>4, <1>5, BrokenFrame DEF HalfClosed
<1> QED BY <1>1, <1>3, <1>4, <1>6, <1>7, QueuesFrame DEF Inv, StageInv

(* shutdown(): the connection keeps reading.                               *)
LEMMA InvShutdown ==
    ASSUME Inv, TypeOK', DtorInv', StrandedInv', NEW c \in Conns, Shutdown(c)
    PROVE  Inv'
<1>1. /\ pc[loopOf[c]] # "ended" /\ state[c] = "kConnected"
      /\ state' = [state EXCEPT ![c] = "kDisconnecting"]
      /\ UNCHANGED <<connections, channel, loopOf, pc, queue, sender, broken, stranded>>
  BY DEF Shutdown, history
<1>2. Stage(c)
  BY <1>1, NotStranded
<1>3. /\ \A d \in Conns : d # c => state'[d] = state[d]
      /\ state'[c] = "kDisconnecting"
  BY <1>1, InvQueues DEF RestOK
<1>4. ASSUME NEW d \in Conns \ stranded PROVE Stage(d)'
  <2>1. CASE d # c
    BY <1>1, <1>3, <2>1, OtherConnection
  <2>2. CASE d = c
    <3>1. /\ Establishing(c)' <=> Establishing(c)
          /\ Destroying(c)' <=> Destroying(c)
          /\ Sending(c)' <=> Sending(c)
          /\ Removing(c)' <=> Removing(c)
      BY <1>1, FunctorFrame DEF Establishing, Destroying, Sending, Removing
    <3> QED BY <1>1, <1>2, <1>3, <2>2, <3>1 DEF Stage, Live
  <2> QED BY <2>1, <2>2
<1>5. BrokenInv'
  BY <1>1, <1>3, BrokenFrame DEF HalfClosed
<1>6. Tidy(queue') /\ Placed(queue')
  BY <1>1, InvQueues
<1> QED BY <1>1, <1>4, <1>5, <1>6, QueuesFrame DEF Inv, StageInv

(* connectDestroyed(): the functor is behind connectEstablished() and the  *)
(* sends, and the connection is not in connections_ any more; if it was    *)
(* shut down, the base loop has ended.                                     *)
LEMMA InvDestroyed ==
    ASSUME Inv, TypeOK', DtorInv', StrandedInv', NEW l \in Loops, NEW c \in Conns, ConnectDestroyed(l, c)
    PROVE  Inv'
<1>1. /\ Run(l, "connectDestroyed", c) /\ queue' = Popped(l)
      /\ Check(61, c, state[c] = "kConnected" \/ channel[c] = "disabled")
      /\ state' = [state EXCEPT ![c] = IF @ = "kConnected" THEN "kDisconnected" ELSE @]
      /\ channel' = [channel EXCEPT ![c] = "removed"]
      /\ UNCHANGED <<connections, loopOf, pc, sender, dtor>>
  BY DEF ConnectDestroyed
<1>2. "connectDestroyed" \notin RawFunctors
  BY DEF RawFunctors
<1>3. /\ Tidy(queue') /\ Placed(queue') /\ l = Home("connectDestroyed", c)
      /\ In(Functor("connectDestroyed", c), queue[l])
      /\ ~In(Functor("connectEstablished", c), queue[l])
      /\ ~In(Functor("sendInLoop", c), queue[l])
      /\ \A k \in Loops : \A n, d :
            In(Functor(n, d), queue'[k]) => In(Functor(n, d), queue[k])
      /\ \A k \in Loops : \A n, d : ~(n = "connectDestroyed" /\ d = c) =>
            (In(Functor(n, d), queue'[k]) <=> In(Functor(n, d), queue[k]))
      /\ \A k \in Loops : ~In(Functor("connectDestroyed", c), queue'[k])
  BY <1>1, <1>2, Pop
<1>4. /\ l = loopOf[c] /\ Stage(c)
      /\ Destroying(c) /\ ~Establishing(c) /\ ~Sending(c)
  <2>1. l = loopOf[c] /\ pc[l] = "functors"
    BY <1>1, <1>3 DEF Home, Run
  <2> QED BY <1>3, <2>1, NotStranded DEF Establishing, Destroying, Sending
<1>5. /\ \/ state[c] = "kConnected"
         \/ state[c] = "kDisconnected" /\ channel[c] = "disabled"
         \/ state[c] = "kDisconnecting" /\ pc[Base] = "ended"
      /\ c \notin connections /\ Live(c)
  <2>1. state[c] \in States
    BY InvQueues DEF RestOK
  <2>2. state[c] # "kConnecting" /\ Live(c) /\ c \notin connections
    BY <1>4, Zenon DEF Stage
  <2>3. state[c] = "kDisconnecting" => pc[Base] = "ended"
    BY <1>4, <2>2 DEF Stage
  <2>4. state[c] = "kDisconnected" => channel[c] = "disabled"
    BY <1>4, <2>2 DEF Stage, Live
  <2> QED BY <2>1, <2>2, <2>3, <2>4 DEF States
<1>7. /\ \A d \in Conns : d # c => state'[d] = state[d] /\ channel'[d] = channel[d]
      /\ state'[c] = IF state[c] = "kConnected" THEN "kDisconnected" ELSE state[c]
      /\ channel'[c] = "removed"
  BY <1>1, InvQueues DEF RestOK
<1>6. BrokenInv'
  <2>1. \A d \in Conns : HalfClosed(d) => d # c
    BY <1>5, HalfClosedFacts
  <2>2. CASE state[c] # "kDisconnecting"
    <3>1. broken' = broken
      BY <1>1, <1>5, <2>2 DEF Check
    <3> QED BY <1>7, <2>1, <3>1, BrokenFrame
  <2>3. CASE state[c] = "kDisconnecting"
    <3>1. HalfClosed(c)'
      BY <1>7, <2>3 DEF HalfClosed
    <3>2. \A b \in broken : b.c \in Conns /\ b.line = 61 /\ HalfClosed(b.c)
      BY InvQueues DEF RestOK, Failures, Inv, BrokenInv
    <3>3. \A b \in broken : b.line = 61 /\ HalfClosed(b.c)'
      BY <1>7, <2>1, <3>2 DEF HalfClosed
    <3>4. broken' \subseteq broken \cup {[line |-> 61, c |-> c]}
      BY <1>1 DEF Check
    <3>5. [line |-> 61, c |-> c].line = 61 /\ [line |-> 61, c |-> c].c = c
      OBVIOUS
    <3> QED BY <3>1, <3>3, <3>4, <3>5 DEF BrokenInv, HalfClosed
  <2> QED BY <2>2, <2>3
<1>8. ASSUME NEW d \in Conns \ stranded PROVE Stage(d)'
  <2>1. CASE d # c
    BY <1>1, <1>3, <1>7, <2>1, OtherConnection
  <2>2. CASE d = c
    <3>1. loopOf[c] \in Loops /\ Base \in Loops
      BY InvQueues, LoopFacts
    <3>2. ~Establishing(c)' /\ ~Destroying(c)' /\ ~Sending(c)'
      BY <1>1, <1>3, <1>4, <3>1, FunctorFrame
    <3>3. Removing(c)' => Removing(c)
      BY <1>1, <1>3, <3>1, FunctorFrame DEF Removing
    <3> QED BY <1>1, <1>4, <1>5, <1>7, <2>2, <3>2, <3>3 DEF Stage, Live
  <2> QED BY <2>1, <2>2
<1>9. stranded' = stranded
  BY <1>1 DEF Check
<1> QED BY <1>1, <1>3, <1>6, <1>8, <1>9, QueuesFrame DEF Inv, StageInv

(* connectDestroyed() is queued for a connection that leaves connections_, *)
(* by removeConnectionInLoop() or by ~TcpServer().                         *)
LEMMA GivenUp ==
    ASSUME Inv, NEW c \in Conns, c \in connections,
           \/ state[c] = "kDisconnected" /\ ~Removing(c)'
           \/ pc[Base] = "ended",
           connections' = connections \ {c},
           UNCHANGED <<state, channel, loopOf, pc, sender, stranded>>,
           \A l \in Loops : \A n, d :
               ~(n = "removeConnectionInLoop" /\ d = c) =>
                   (In(Functor(n, d), queue'[l]) <=>
                       In(Functor(n, d), queue[l]) \/
                           (l = loopOf[c] /\ n = "connectDestroyed" /\ d = c)),
           \A l \in Loops :
               In(Functor("removeConnectionInLoop", c), queue'[l]) =>
                   In(Functor("removeConnectionInLoop", c), queue[l])
    PROVE  StageInv'
<1> SUFFICES ASSUME NEW d \in Conns \ stranded PROVE Stage(d)'
  BY DEF StageInv
<1>1. CASE d # c
  <2>1. \A l \in Loops : \A n : In(Functor(n, d), queue'[l]) <=> In(Functor(n, d), queue[l])
    BY <1>1
  <2> QED BY <1>1, <2>1, OtherConnection
<1>2. CASE d = c
  <2>1. loopOf[c] \in Loops /\ Base \in Loops /\ Stage(c)
    BY InvQueues, LoopFacts, NotStranded
  <2>2. Establishing(c)' <=> Establishing(c)
    BY <2>1, FunctorFrame DEF Establishing
  <2>3. Destroying(c)'
    BY <2>1, FunctorFrame
  <2>4. Sending(c)' => Sending(c)
    BY <2>1, FunctorFrame DEF Sending
  <2>5. Removing(c)' => Removing(c)
    BY <2>1, FunctorFrame DEF Removing
  <2>6. c \notin connections'
    OBVIOUS
  <2> QED BY <1>2, <2>1, <2>2, <2>3, <2>4, <2>5, <2>6 DEF Stage, Live
<1> QED BY <1>1, <1>2

(* removeConnectionInLoop(): the entry is there, because only this functor *)
(* erases it while the base loop runs.                                     *)
LEMMA InvRemove ==
    ASSUME Inv, TypeOK', DtorInv', StrandedInv', NEW c \in Conns, RemoveConnectionInLoop(c)
    PROVE  Inv'
<1>1. /\ Run(Base, "removeConnectionInLoop", c) /\ pc[Base] = "functors"
      /\ queue' = Queued(Popped(Base), loopOf[c], "connectDestroyed", c)
      /\ Check(117, c, c \in connections)
      /\ connections' = connections \ {c}
      /\ UNCHANGED <<state, channel, loopOf, pc, sender, dtor>>
  BY DEF RemoveConnectionInLoop, Run
<1>2. "removeConnectionInLoop" \notin RawFunctors /\ Base \in Loops /\ loopOf[c] \in Loops
  BY InvQueues, LoopFacts DEF RawFunctors
<1>3. PICK P \in Queues : P = Popped(Base)
  BY <1>1, <1>2, Pop
<1>4. /\ Tidy(P) /\ Placed(P)
      /\ In(Functor("removeConnectionInLoop", c), queue[Base])
      /\ \A k \in Loops : \A n, d : In(Functor(n, d), P[k]) => In(Functor(n, d), queue[k])
      /\ \A k \in Loops : \A n, d : ~(n = "removeConnectionInLoop" /\ d = c) =>
            (In(Functor(n, d), P[k]) <=> In(Functor(n, d), queue[k]))
      /\ \A k \in Loops : ~In(Functor("removeConnectionInLoop", c), P[k])
  BY <1>1, <1>2, <1>3, Pop
<1>5. Stage(c) /\ Removing(c)
  BY <1>1, <1>4, NotStranded DEF Removing
<1>6. /\ c \in connections /\ state[c] = "kDisconnected"
      /\ ~In(Functor("connectDestroyed", c), queue[loopOf[c]])
  BY <1>1, <1>5 DEF Stage, Destroying
<1>7. broken' = broken /\ stranded' = stranded
  BY <1>1, <1>6 DEF Check
<1>8. /\ Tidy(queue') /\ Placed(queue')
      /\ \A l \in Loops : \A n, d :
            In(Functor(n, d), queue'[l]) <=>
                In(Functor(n, d), P[l]) \/ (l = loopOf[c] /\ n = "connectDestroyed" /\ d = c)
  <2>1. loopOf[c] = Home("connectDestroyed", c)
    BY DEF Home
  <2>2. ~In(Functor("connectDestroyed", c), P[loopOf[c]])
    BY <1>2, <1>4, <1>6
  <2> QED BY <1>1, <1>2, <1>3, <1>4, <2>1, <2>2, Push
<1>9. \A l \in Loops : ~In(Functor("removeConnectionInLoop", c), queue'[l])
  BY <1>4, <1>8
<1>10. ~Removing(c)'
  BY <1>1, <1>2, <1>9, FunctorFrame
<1>11. \A l \in Loops : \A n, d :
           ~(n = "removeConnectionInLoop" /\ d = c) =>
               (In(Functor(n, d), queue'[l]) <=>
                   In(Functor(n, d), queue[l]) \/
                       (l = loopOf[c] /\ n = "connectDestroyed" /\ d = c))
  BY <1>4, <1>8
<1>12. StageInv'
  BY <1>1, <1>6, <1>7, <1>9, <1>10, <1>11, GivenUp
<1>13. BrokenInv'
  BY <1>1, <1>7, BrokenFrame
<1> QED BY <1>1, <1>7, <1>8, <1>12, <1>13, QueuesFrame DEF Inv

(* ~TcpServer(): the base loop has ended, nobody erases the entry again.   *)
LEMMA InvDtorConnection ==
    ASSUME Inv, TypeOK', DtorInv', StrandedInv', NEW c \in Conns, DtorConnection(c)
    PROVE  Inv'
<1>1. /\ dtor = "body" /\ c \in connections
      /\ connections' = connections \ {c}
      /\ queue' = Queued(queue, loopOf[c], "connectDestroyed", c)
      /\ UNCHANGED <<state, channel, loopOf, pc, sender, dtor, broken, stranded>>
  BY DEF DtorConnection, history
<1>2. pc[Base] = "ended" /\ Stage(c) /\ loopOf[c] \in Loops
  BY <1>1, InvQueues, NotStranded DEF Inv, DtorInv
<1>3. ~In(Functor("connectDestroyed", c), queue[loopOf[c]])
  BY <1>1, <1>2 DEF Stage, Destroying
<1>4. /\ Tidy(queue') /\ Placed(queue')
      /\ \A l \in Loops : \A n, d :
            In(Functor(n, d), queue'[l]) <=>
                In(Functor(n, d), queue[l]) \/ (l = loopOf[c] /\ n = "connectDestroyed" /\ d = c)
  <2>1. loopOf[c] = Home("connectDestroyed", c)
    BY DEF Home
  <2> QED BY <1>1, <1>2, <1>3, <2>1, InvQueues, Push
<1>5. \A l \in Loops :
          In(Functor("removeConnectionInLoop", c), queue'[l]) =>
              In(Functor("removeConnectionInLoop", c), queue[l])
  BY <1>4
<1>6. StageInv'
  BY <1>1, <1>2, <1>4, <1>5, GivenUp
<1>7. BrokenInv'
  BY <1>1, BrokenFrame
<1> QED BY <1>1, <1>4, <1>6, <1>7, QueuesFrame DEF Inv

(* The end of send(): the functor is queued in time if connectDestroyed()  *)
(* has neither run nor been queued.                                        *)
LEMMA InvQueueSend ==
    ASSUME Inv, TypeOK', DtorInv', StrandedInv', NEW c \in Conns, QueueSend(c)
    PROVE  Inv'
<1>1. PICK name \in {"sendInLoop", "sendTooLate"} :
          /\ name = "sendInLoop" => ~TakenApart(c)
          /\ queue' = Queued(queue, loopOf[c], name, c)
          /\ c \in sender /\ sender' = {} /\ pc[loopOf[c]] # "ended"
          /\ UNCHANGED <<connections, state, channel, loopOf, pc, dtor, broken, stranded>>
  BY DEF QueueSend, connVars, history
<1>2. loopOf[c] \in Loops /\ Base \in Loops /\ loopOf[c] = Home(name, c) /\ name \in RawFunctors
  BY <1>1, InvQueues, LoopFacts DEF Home, RawFunctors
<1>3. name = "sendInLoop" => channel[c] # "removed" /\ ~Destroying(c)
  BY <1>1 DEF TakenApart, Destroying, In, Functor
<1>4. name \notin {"connectEstablished", "sendInLoop"}
          \/ ~In(Functor("connectDestroyed", c), queue[loopOf[c]])
  BY <1>1, <1>3 DEF Destroying
<1>5. /\ Tidy(queue') /\ Placed(queue')
      /\ \A l \in Loops : \A n, d :
            In(Functor(n, d), queue'[l]) <=>
                In(Functor(n, d), queue[l]) \/ (l = loopOf[c] /\ n = name /\ d = c)
  BY <1>1, <1>2, <1>4, InvQueues, Push
<1>6. ASSUME NEW d \in Conns \ stranded PROVE Stage(d)'
  <2>1. CASE d # c
    BY <1>1, <1>5, <2>1, OtherConnection
  <2>2. CASE d = c
    <3>1. Stage(c)
      BY <1>1, NotStranded
    <3>2. Establishing(c)' <=> Establishing(c)
      BY <1>1, <1>2, <1>5, FunctorFrame DEF Establishing
    <3>3. Destroying(c)' <=> Destroying(c)
      BY <1>1, <1>2, <1>5, FunctorFrame DEF Destroying
    <3>4. Removing(c)' <=> Removing(c)
      BY <1>1, <1>2, <1>5, FunctorFrame DEF Removing
    <3>5. Sending(c)' => Sending(c) \/ name = "sendInLoop"
      BY <1>1, <1>2, <1>5, FunctorFrame DEF Sending
    <3>6. name = "sendInLoop" => channel[c] \in {"reading", "disabled"}
      BY <1>1, <1>3, <3>1, InvQueues DEF Stage, RestOK
    <3> QED BY <1>1, <2>2, <3>1, <3>2, <3>3, <3>4, <3>5, <3>6 DEF Stage, Live
  <2> QED BY <2>1, <2>2
<1>7. BrokenInv'
  BY <1>1, BrokenFrame
<1> QED BY <1>1, <1>5, <1>6, <1>7, QueuesFrame DEF Inv, StageInv

(* A connection that is live has an owner, unless it is stranded.          *)
LEMMA LiveIsHeld ==
    ASSUME Inv, NEW c \in Conns \ stranded, Live(c)
    PROVE  Held(c)
<1>1. c \in connections \/ Destroying(c)
  BY DEF Inv, StageInv, Stage
<1>2. CASE c \in connections
  BY <1>2 DEF Held
<1>3. CASE Destroying(c)
  <2>1. PICK i \in DOMAIN queue[loopOf[c]] :
            queue[loopOf[c]][i] = Functor("connectDestroyed", c)
    BY <1>3 DEF Destroying, In
  <2>2. Mentioned(c, queue[loopOf[c]])
    BY <2>1, FunctorFacts DEF Mentioned, RawFunctors
  <2> QED BY <2>2, InvQueues DEF Held
<1> QED BY <1>1, <1>2, <1>3

(* A queued send runs, in time or too late.                                *)
LEMMA InvSent ==
    ASSUME Inv, TypeOK', DtorInv', StrandedInv', NEW l \in Loops, NEW c \in Conns,
           SendInLoop(l, c) \/ SendTooLate(l, c)
    PROVE  Inv'
<1>1. PICK name \in RawFunctors :
          /\ Run(l, name, c) /\ queue' = Popped(l)
          /\ UNCHANGED <<connections, state, channel, loopOf, pc, sender, dtor>>
          /\ name = "sendInLoop" => Check(110, c, Held(c))
          /\ name # "sendInLoop" => broken' = broken
          /\ stranded' = stranded
  BY DEF SendInLoop, SendTooLate, connVars, RawFunctors, history, Check
<1>2. /\ Tidy(queue') /\ Placed(queue') /\ l = Home(name, c)
      /\ In(Functor(name, c), queue[l])
      /\ \A k \in Loops : \A n, d :
            In(Functor(n, d), queue'[k]) => In(Functor(n, d), queue[k])
      /\ \A k \in Loops : \A n, d : ~(n = name /\ d = c) =>
            (In(Functor(n, d), queue'[k]) <=> In(Functor(n, d), queue[k]))
  BY <1>1, Pop
<1>3. broken' = broken
  <2>1. CASE name = "sendInLoop"
    <3>0. l = loopOf[c] /\ pc[l] = "functors"
      BY <1>1, <1>2, <2>1 DEF Home, Run
    <3>1. Sending(c) /\ Stage(c) /\ c \notin stranded
      BY <1>2, <2>1, <3>0, NotStranded DEF Sending
    <3>2. Live(c)
      BY <3>1 DEF Stage, Live
    <3>3. Held(c)
      BY <3>1, <3>2, LiveIsHeld
    <3> QED BY <1>1, <2>1, <3>3 DEF Check
  <2> QED BY <1>1, <2>1
<1>4. ASSUME NEW d \in Conns \ stranded PROVE Stage(d)'
  <2>1. loopOf[d] \in Loops /\ Base \in Loops /\ Stage(d)
    BY InvQueues, LoopFacts DEF Inv, StageInv
  <2>2. name # "connectEstablished" /\ name # "connectDestroyed"
    BY <1>1 DEF RawFunctors
  <2>3. Establishing(d)' <=> Establishing(d)
    BY <1>1, <1>2, <2>1, <2>2, FunctorFrame DEF Establishing
  <2>4. Destroying(d)' <=> Destroying(d)
    BY <1>1, <1>2, <2>1, <2>2, FunctorFrame DEF Destroying
  <2>5. Sending(d)' => Sending(d)
    BY <1>1, <1>2, <2>1, FunctorFrame DEF Sending
  <2>6. Removing(d)' => Removing(d)
    BY <1>1, <1>2, <2>1, FunctorFrame DEF Removing
  <2> QED BY <1>1, <2>1, <2>3, <2>4, <2>5, <2>6, StageFrame
<1>5. BrokenInv'
  BY <1>1, <1>3, BrokenFrame
<1> QED BY <1>1, <1>2, <1>3, <1>4, <1>5, QueuesFrame DEF Inv, StageInv

-----------------------------------------------------------------------------
(* The end of a loop.                                                      *)

(* The functors of a loop that is destructed are in no queue.              *)
LEMMA Dropped ==
    ASSUME Inv, NEW a \in Loops, loopOf' = loopOf, queue' = Without(queue, a)
    PROVE  /\ QueueInv'
           /\ \A l \in Loops : l # a => queue'[l] = queue[l]
           /\ \A y : ~In(y, queue'[a])
<1>1. PICK R : R = queue'
  OBVIOUS
<1>2. /\ \A l \in Loops : R[l] = IF l = a THEN <<>> ELSE queue[l]
      /\ Tidy(queue) /\ Placed(queue)
  BY <1>1, InvQueues DEF Queues, Without
<1>3. \A y : ~In(y, R[a])
  BY <1>2 DEF In
<1>4. Once(<<>>) /\ Ordered(<<>>)
  BY DEF Once, Ordered
<1>5. Tidy(R)
  BY <1>2, <1>4 DEF Tidy
<1>6. Placed(R)
  BY <1>2, <1>3 DEF Placed
<1>7. QueueInv'
  BY <1>1, <1>5, <1>6, QueuesFrame
<1> QED BY <1>1, <1>2, <1>3, <1>7

(* threadFunc() returns: a connection that has no functor in the queue but *)
(* perhaps a send stays where it is in its life.                           *)
LEMMA InvIoLoopEnds ==
    ASSUME Inv, TypeOK', DtorInv', StrandedInv', NEW l \in IoLoops, IoLoopEnds(l)
    PROVE  Inv'
<1>1. /\ queue' = Without(queue, l)
      /\ stranded' = stranded \cup {c \in Conns : Mentioned(c, queue[l])}
      /\ pc' = [pc EXCEPT ![l] = "ended"]
      /\ UNCHANGED <<connections, state, channel, loopOf, sender, broken>>
  BY DEF IoLoopEnds, LoopEnds, Without, connVars
<1>2. l \in Loops /\ l # Base /\ Base \in Loops
  BY LoopFacts
<1>3. pc'[Base] = pc[Base]
  BY <1>1, <1>2, InvQueues DEF RestOK
<1>4. /\ QueueInv'
      /\ \A k \in Loops : k # l => queue'[k] = queue[k]
      /\ \A y : ~In(y, queue'[l])
  BY <1>1, <1>2, Dropped
<1>5. ASSUME NEW d \in Conns \ stranded' PROVE Stage(d)'
  <2>1. d \notin stranded /\ ~Mentioned(d, queue[l])
    BY <1>1
  <2>2. loopOf[d] \in Loops /\ Stage(d)
    BY <2>1, InvQueues DEF Inv, StageInv
  <2>3. \A n : n \notin RawFunctors => ~In(Functor(n, d), queue[l])
    BY <2>1, FunctorFacts DEF In, Mentioned
  <2>4. \A k \in Loops : \A n : n \notin RawFunctors =>
            (In(Functor(n, d), queue'[k]) <=> In(Functor(n, d), queue[k]))
    BY <1>4, <2>3
  <2>5. \A n \in {"connectEstablished", "connectDestroyed", "removeConnectionInLoop"} :
            n \notin RawFunctors
    BY DEF RawFunctors
  <2>6. Establishing(d)' <=> Establishing(d)
    BY <1>1, <2>2, <2>4, <2>5, FunctorFrame DEF Establishing
  <2>7. Destroying(d)' <=> Destroying(d)
    BY <1>1, <2>2, <2>4, <2>5, FunctorFrame DEF Destroying
  <2>8. Removing(d)' => Removing(d)
    BY <1>1, <1>2, <2>4, <2>5, FunctorFrame DEF Removing
  <2>9. Sending(d)' => Sending(d)
    BY <1>1, <1>4, <2>2, FunctorFrame DEF Sending
  <2> QED BY <1>1, <1>3, <2>2, <2>6, <2>7, <2>8, <2>9, StageFrame
<1>6. BrokenInv'
  BY <1>1, BrokenFrame
<1> QED BY <1>4, <1>5, <1>6 DEF Inv, StageInv

(* The base loop's destructor: nobody waits for the closes it drops.       *)
LEMMA InvBaseLoopDestructed ==
    ASSUME Inv, TypeOK', DtorInv', StrandedInv', BaseLoopDestructed
    PROVE  Inv'
<1>1. /\ queue' = Without(queue, Base)
      /\ UNCHANGED <<connections, state, channel, loopOf, pc, sender, broken, stranded>>
  BY DEF BaseLoopDestructed, Without, connVars, history
<1>2. /\ QueueInv'
      /\ \A k \in Loops : k # Base => queue'[k] = queue[k]
      /\ \A y : ~In(y, queue'[Base])
  BY <1>1, LoopFacts, Dropped
<1>3. ASSUME NEW d \in Conns \ stranded PROVE Stage(d)'
  <2>1. loopOf[d] \in Loops /\ loopOf[d] # Base /\ Stage(d)
    BY InvQueues, LoopFacts DEF Inv, StageInv
  <2>2. queue'[loopOf[d]] = queue[loopOf[d]]
    BY <1>2, <2>1
  <2>3. /\ Establishing(d)' <=> Establishing(d)
        /\ Destroying(d)' <=> Destroying(d)
        /\ Sending(d)' => Sending(d)
    BY <1>1, <2>2, FunctorFrame DEF Establishing, Destroying, Sending
  <2>4. ~Removing(d)'
    BY <1>1, <1>2, FunctorFrame
  <2> QED BY <1>1, <2>1, <2>3, <2>4, StageFrame
<1>4. BrokenInv'
  BY <1>1, BrokenFrame
<1> QED BY <1>1, <1>2, <1>3, <1>4 DEF Inv, StageInv

-----------------------------------------------------------------------------
(* The invariant holds, and the lifecycle is safe.                         *)

(* What a step may do to the loops and to connections_: a loop that has    *)
(* ended does not go on, and an io loop ends only after quit().            *)
LEMMA LoopSteps ==
    ASSUME TypeOK, [Next]_vars
    PROVE  /\ \A l \in Loops : pc[l] = "ended" => pc'[l] = "ended"
           /\ \A l \in IoLoops : pc'[l] = "ended" => pc[l] = "ended" \/ quit[l]
           /\ \A l \in IoLoops : quit'[l] => quit[l] \/ dtor = "join"
           /\ connections' \subseteq connections \/ pc[Base] = "events"
<1>0. RestOK
  BY DEF TypeOK, RestOK, States, DtorSteps, Failures
<1>1. /\ \A l \in Loops : pc[l] = "ended" => pc'[l] = "ended"
      /\ \A l \in IoLoops : pc'[l] = "ended" => pc[l] = "ended" \/ quit[l]
  <2>1. CASE \E k \in Loops : Swap(k)
    BY <1>0, <2>1, LoopFacts DEF Swap, RestOK
  <2>2. CASE \E k \in Loops : Iterate(k)
    BY <1>0, <2>2, LoopFacts DEF Iterate, RestOK
  <2>3. CASE \E k \in Loops : LoopEnds(k)
    BY <1>0, <2>3, LoopFacts DEF LoopEnds, RestOK
  <2>4. CASE pc' = pc
    BY <2>4
  <2>5. pc' = pc \/ \E k \in Loops : Swap(k) \/ Iterate(k) \/ LoopEnds(k)
    BY LoopFacts DEF Next, BaseStep, DtorStep, LoopStep, vars, Start, ClientArrives, BaseQuit,
          AcceptFails, Accept, RemoveConnectionInLoop, ConnectEstablished, ConnectDestroyed,
          SendInLoop, SendTooLate, DtorBegins, DtorBodyEnds, DtorEnds, DtorConnection,
          QuitIoLoop, HandleClose, Shutdown, CallSend, QueueSend, BaseLoopEnds, IoLoopEnds,
          BaseLoopDestructed
  <2> QED BY <2>1, <2>2, <2>3, <2>4, <2>5
<1>2. \A l \in IoLoops : quit'[l] => quit[l] \/ dtor = "join"
  <2>1. quit' = quit \/ BaseQuit \/ \E k \in IoLoops : QuitIoLoop(k)
    BY DEF Next, BaseStep, DtorStep, LoopStep, vars, Start, ClientArrives, Swap, Iterate,
          LoopEnds, AcceptFails, Accept, RemoveConnectionInLoop, ConnectEstablished,
          ConnectDestroyed, SendInLoop, SendTooLate, DtorBegins, DtorBodyEnds, DtorEnds,
          DtorConnection, HandleClose, Shutdown, CallSend, QueueSend, BaseLoopEnds,
          IoLoopEnds, BaseLoopDestructed
  <2>2. CASE BaseQuit
    BY <1>0, <2>2, LoopFacts DEF BaseQuit, RestOK
  <2> QED BY <2>1, <2>2 DEF QuitIoLoop
<1>3. connections' \subseteq connections \/ pc[Base] = "events"
  BY DEF Next, BaseStep, DtorStep, LoopStep, vars, connVars, Start, ClientArrives, BaseQuit,
         Swap, Iterate, LoopEnds, AcceptFails, Accept, Accepting, RemoveConnectionInLoop,
         ConnectEstablished, ConnectDestroyed, SendInLoop, SendTooLate, DtorBegins,
         DtorBodyEnds, DtorEnds, DtorConnection, QuitIoLoop, HandleClose, Shutdown, CallSend,
         QueueSend, BaseLoopEnds, IoLoopEnds, BaseLoopDestructed
<1> QED BY <1>1, <1>2, <1>3

(* The destructor waits for the base loop to end, gives up every           *)
(* connection before it stops an io loop, and joins them all.              *)
LEMMA DtorStepInv ==
    ASSUME TypeOK, DtorInv, [Next]_vars
    PROVE  DtorInv'
<1>1. /\ \A l \in Loops : pc[l] = "ended" => pc'[l] = "ended"
      /\ \A l \in IoLoops : pc'[l] = "ended" => pc[l] = "ended" \/ quit[l]
      /\ \A l \in IoLoops : quit'[l] => quit[l] \/ dtor = "join"
      /\ connections' \subseteq connections \/ pc[Base] = "events"
  BY LoopSteps
<1>2. \/ dtor' = dtor
      \/ DtorBegins \/ DtorBodyEnds \/ DtorEnds \/ BaseLoopDestructed
  BY DEF Next, BaseStep, DtorStep, LoopStep, vars, Start, ClientArrives, BaseQuit, Swap,
         Iterate, LoopEnds, AcceptFails, Accept, RemoveConnectionInLoop, ConnectEstablished,
         ConnectDestroyed, SendInLoop, SendTooLate, DtorConnection, QuitIoLoop,
         HandleClose, Shutdown, CallSend, QueueSend, BaseLoopEnds, IoLoopEnds
<1>3. CASE dtor' = dtor
  <2>1. dtor # "no" => pc'[Base] = "ended"
    BY <1>1, LoopFacts DEF DtorInv
  <2>2. dtor \in {"join", "done", "gone"} => connections' = {}
    BY <1>1 DEF DtorInv
  <2>3. \A l \in IoLoops : quit'[l] \/ pc'[l] = "ended" => dtor \in {"join", "done", "gone"}
    BY <1>1 DEF DtorInv
  <2>4. dtor \in {"done", "gone"} => \A l \in IoLoops : pc'[l] = "ended"
    BY <1>1, LoopFacts DEF DtorInv
  <2> QED BY <1>3, <2>1, <2>2, <2>3, <2>4 DEF DtorInv
<1>4. CASE DtorBegins \/ DtorBodyEnds \/ DtorEnds \/ BaseLoopDestructed
  <2>1. UNCHANGED <<pc, quit, connections>>
    BY <1>4 DEF DtorBegins, DtorBodyEnds, DtorEnds, BaseLoopDestructed, connVars
  <2>2. CASE DtorBegins
    BY <2>1, <2>2 DEF DtorBegins, DtorInv
  <2>3. CASE DtorBodyEnds
    BY <2>1, <2>3 DEF DtorBodyEnds, DtorInv
  <2>4. CASE DtorEnds
    BY <2>1, <2>4 DEF DtorEnds, Joined, DtorInv
  <2>5. CASE BaseLoopDestructed
    BY <2>1, <2>5 DEF BaseLoopDestructed, DtorInv
  <2> QED BY <1>4, <2>2, <2>3, <2>4, <2>5
<1> QED BY <1>2, <1>3, <1>4

(* A connection is stranded only when the server has given it up and the   *)
(* base loop has ended.                                                    *)
LEMMA StrandedStep ==
    ASSUME Inv, [Next]_vars
    PROVE  StrandedInv'
<1>1. \A l \in Loops : pc[l] = "ended" => pc'[l] = "ended"
  BY LoopSteps DEF Inv
<1>2. stranded \subseteq Conns /\ Base \in Loops /\ \A c \in Conns : loopOf[c] \in Loops
  BY InvQueues, LoopFacts DEF RestOK
<1>3. \/ stranded' = stranded /\ loopOf' = loopOf /\ connections' \subseteq connections
      \/ pc[Base] = "events" /\ stranded' = stranded
      \/ \E l \in IoLoops : IoLoopEnds(l)
  BY DEF Next, BaseStep, DtorStep, LoopStep, vars, connVars, history, Check, Start,
         ClientArrives, BaseQuit, Swap, Iterate, LoopEnds, AcceptFails, Accept, Accepting,
         RemoveConnectionInLoop, ConnectEstablished, ConnectDestroyed, SendInLoop,
         SendTooLate, DtorBegins, DtorBodyEnds, DtorEnds, DtorConnection, QuitIoLoop,
         HandleClose, Shutdown, CallSend, QueueSend, BaseLoopEnds, BaseLoopDestructed
<1>4. CASE stranded' = stranded /\ loopOf' = loopOf /\ connections' \subseteq connections
  BY <1>1, <1>2, <1>4 DEF Inv, StrandedInv
<1>5. CASE pc[Base] = "events" /\ stranded' = stranded
  BY <1>5 DEF Inv, StrandedInv
<1>6. ASSUME NEW l \in IoLoops, IoLoopEnds(l) PROVE StrandedInv'
  <2>1. /\ quit[l] /\ pc' = [pc EXCEPT ![l] = "ended"]
        /\ UNCHANGED <<loopOf, connections>>
        /\ stranded' = stranded \cup {c \in Conns : Mentioned(c, queue[l])}
    BY <1>6 DEF IoLoopEnds, LoopEnds, connVars
  <2>2. connections = {} /\ pc[Base] = "ended"
    BY <2>1 DEF Inv, DtorInv
  <2>3. l \in Loops /\ pc'[l] = "ended" /\ pc'[Base] = "ended"
    BY <1>1, <1>2, <2>1, <2>2, InvQueues, LoopFacts DEF RestOK
  <2>4. ASSUME NEW c \in Conns, Mentioned(c, queue[l]) PROVE loopOf[c] = l
    <3>1. PICK i \in DOMAIN queue[l] : queue[l][i].c = c
      BY <2>4 DEF Mentioned
    <3>2. queue[l] \in Seq(Functors)
      BY <2>3, InvQueues DEF Queues
    <3>3. queue[l][i] = Functor(queue[l][i].f, c)
      BY <3>1, <3>2, FunctorFacts
    <3>4. In(Functor(queue[l][i].f, c), queue[l])
      BY <3>3 DEF In
    <3>5. l = Home(queue[l][i].f, c)
      BY <2>3, <3>4, InvQueues DEF Placed
    <3> QED BY <3>5, LoopFacts DEF Home
  <2>5. ASSUME NEW c \in stranded'
        PROVE  pc'[Base] = "ended" /\ pc'[loopOf'[c]] = "ended" /\ c \notin connections'
    <3>1. CASE c \in stranded
      BY <1>1, <1>2, <2>1, <2>2, <2>3, <3>1 DEF Inv, StrandedInv
    <3>2. CASE c \in Conns /\ Mentioned(c, queue[l])
      BY <2>1, <2>2, <2>3, <2>4, <3>2
    <3> QED BY <2>1, <2>5, <3>1, <3>2
  <2> QED BY <2>5 DEF StrandedInv
<1> QED BY <1>3, <1>4, <1>5, <1>6

(* The invariant holds at the start.                                       *)
LEMMA InvInit ==
    ASSUME Init
    PROVE  Inv
<1>1. TypeOK
  BY TypeInit
<1>2. \A l \in Loops : queue[l] = <<>>
  BY DEF Init
<1>3. \A l \in Loops : \A y : ~In(y, queue[l])
  BY <1>2 DEF In
<1>4. QueueInv
  BY <1>2, <1>3 DEF QueueInv, Placed, Tidy, Once, Ordered
<1>5. ASSUME NEW c \in Conns PROVE Stage(c)
  <2>1. loopOf[c] \in Loops /\ Base \in Loops
    BY <1>1, LoopFacts DEF TypeOK
  <2>2. ~Establishing(c) /\ ~Destroying(c) /\ ~Sending(c) /\ ~Removing(c)
    BY <1>3, <2>1 DEF Establishing, Destroying, Sending, Removing
  <2> QED BY <2>2 DEF Init, Stage, Live
<1>6. StageInv /\ StrandedInv /\ BrokenInv
  BY <1>5 DEF Init, StageInv, StrandedInv, BrokenInv
<1>7. DtorInv
  BY LoopFacts DEF Init, DtorInv
<1> QED BY <1>1, <1>4, <1>6, <1>7 DEF Inv

(* Every step of every thread keeps the invariant.                         *)
LEMMA InvStep ==
    ASSUME Inv, [Next]_vars
    PROVE  Inv'
<1>1. TypeOK' /\ DtorInv' /\ StrandedInv'
  BY TypeStep, DtorStepInv, StrandedStep DEF Inv
<1>2. CASE \/ UNCHANGED vars \/ Start \/ ClientArrives \/ BaseQuit \/ AcceptFails
           \/ DtorBegins \/ DtorBodyEnds \/ DtorEnds
           \/ \E l \in IoLoops : QuitIoLoop(l)
  <2>1. UNCHANGED <<queue, loopOf, state, channel, connections, broken, stranded, sender, pc>>
    BY <1>2 DEF vars, connVars, acceptVars, history, Start, ClientArrives, BaseQuit,
                AcceptFails, DtorBegins, DtorBodyEnds, DtorEnds, QuitIoLoop
  <2> QED BY <1>1, <2>1, InvFrame
<1>3. ASSUME NEW l \in Loops, Swap(l) \/ Iterate(l) \/ BaseLoopEnds PROVE Inv'
  <2>1. UNCHANGED <<queue, loopOf, state, channel, connections, broken, stranded, sender>>
    BY <1>3 DEF Swap, Iterate, BaseLoopEnds, LoopEnds, connVars, history
  <2>2. pc'[Base] # "ended" => pc[Base] # "ended"
    BY <1>3, InvQueues, LoopFacts DEF Swap, Iterate, BaseLoopEnds, LoopEnds, RestOK
  <2> QED BY <1>1, <2>1, <2>2, InvFrame
<1>4. ASSUME NEW c \in Conns, CallSend(c) PROVE Inv'
  <2>1. /\ UNCHANGED <<queue, loopOf, state, channel, connections, broken, stranded, pc>>
        /\ sender' = {c} /\ state[c] = "kConnected"
    BY <1>4 DEF CallSend, connVars, history
  <2>2. c \notin stranded => channel[c] # "none"
    BY <2>1 DEF Inv, StageInv, Stage
  <2>3. \A d \in Conns \ stranded : d \in sender' => d \in sender \/ channel[d] # "none"
    BY <2>1, <2>2
  <2> QED BY <1>1, <2>1, <2>3, InvFrame
<1>5. ASSUME NEW l \in Loops, LoopStep(l) PROVE Inv'
  BY <1>1, <1>3, <1>5, InvEstablished, InvDestroyed, InvSent DEF LoopStep
<1>6. ASSUME NEW c \in Conns, \/ Accept(c) \/ RemoveConnectionInLoop(c) \/ DtorConnection(c)
                              \/ HandleClose(c) \/ QueueSend(c) \/ Shutdown(c)
      PROVE  Inv'
  BY <1>1, <1>6, InvAccept, InvRemove, InvDtorConnection, InvClose, InvQueueSend, InvShutdown
<1>7. CASE BaseLoopEnds \/ BaseLoopDestructed \/ \E l \in IoLoops : IoLoopEnds(l)
  BY <1>1, <1>3, <1>7, InvIoLoopEnds, InvBaseLoopDestructed, LoopFacts
<1> QED BY <1>2, <1>4, <1>5, <1>6, <1>7, LoopFacts DEF Next, BaseStep, DtorStep

(* The invariant holds in every reachable state.                           *)
THEOREM InvAlways == Spec => []Inv
  BY InvInit, InvStep, PTL DEF Spec

(* Whatever the peers and the thread that sends do, and however far the    *)
(* server is in giving up its connections: connectEstablished() finds a    *)
(* connection that is connecting, removeConnectionInLoop() finds its entry *)
(* in connections_, a close finds its server, a send that was queued in    *)
(* time its connection.  Channel::remove() finds a channel without events, *)
(* unless ~TcpServer() gave up a connection in kDisconnecting; and a       *)
(* connection that was not so given up, and whose functors were not        *)
(* dropped with an io loop, is disconnected and removed when its last      *)
(* owner lets go.                                                          *)
THEOREM LifecycleIsSafe == Spec => []LifecycleSafe
<1>1. Inv => LifecycleSafe
  <2> SUFFICES ASSUME Inv PROVE LifecycleSafe
    OBVIOUS
  <2>1. ASSUME NEW c \in Conns \ stranded, ~Held(c), ~HalfClosed(c)
        PROVE  state[c] = "kDisconnected" /\ channel[c] \in {"none", "removed"}
    <3>1. ~Live(c) /\ Stage(c)
      BY <2>1, LiveIsHeld DEF Inv, StageInv
    <3>2. /\ state[c] \in States
          /\ channel[c] \in {"none", "reading", "disabled", "removed"}
      BY InvQueues DEF RestOK
    <3>3. channel[c] \in {"none", "removed"} /\ state[c] # "kConnecting"
      BY <3>1, <3>2 DEF Live
    <3>4. state[c] # "kConnected" /\ state[c] # "kDisconnecting"
      BY <2>1, <3>1, <3>3 DEF Stage, HalfClosed
    <3> QED BY <3>2, <3>3, <3>4 DEF States
  <2>2. \A b \in broken : b.line = 61 /\ HalfClosed(b.c)
    BY DEF Inv, BrokenInv
  <2> QED BY <2>1, <2>2 DEF LifecycleSafe
<1> QED BY <1>1, InvAlways, PTL

=============================================================================
