-------------------------- MODULE TcpClientProofs --------------------------
(***************************************************************************)
(* Proofs about TcpClient: the types and stop() for any number of calls,   *)
(* and for a client that connects once, however often it is stopped, that  *)
(* the assertions hold, no socket is lost and the chain of retries is one. *)
(***************************************************************************)
EXTENDS TcpClient, Integers, SequenceTheorems, FiniteSetTheorems, TLAPS

-----------------------------------------------------------------------------
(* The inductive invariant.                                                *)

\* Where functors called name are in the queue q, and how many.
Places(q, name) == {i \in DOMAIN q : q[i].f = name}
Count(q, name) == Cardinality(Places(q, name))

\* A functor called name is in the queue q.
Has(q, name) == \E i \in DOMAIN q : q[i].f = name

\* The channel is deleted before a connection of C is closed.
Ordered(q, C) ==
    \A i, j \in DOMAIN q :
        q[i].f = "reset" /\ q[j].f = "forceClose" /\ q[j].of \cap C # {} => i < j

One(condition) == IF condition THEN 1 ELSE 0

\* The sockets somebody will close.
Owned == One(state = "connecting") + Cardinality(conns) + Count(Queue, "connectDestroyed")

\* An iteration has run its functors when the next one handles events.
PhaseInv == (pc = "events" => batch = <<>>) /\ (pc = "functors" => fresh = {})

\* TypeOK in three parts: the flags, the other values, and the two queues.
FlagsOK ==
    /\ connect \in BOOLEAN /\ clientConnect \in BOOLEAN /\ alive \in BOOLEAN
    /\ keepAlive \in BOOLEAN /\ restarting \in BOOLEAN /\ gaveUp \in BOOLEAN

ValuesOK ==
    /\ state \in {"disconnected", "connecting", "connected"}
    /\ channel \in {"none", "registered", "removed"}
    /\ retryDelay \in InitRetryDelay..MaxRetryDelay
    /\ timers \in Nat /\ fds \in Nat
    /\ connection \in {{}} \cup {{c} : c \in Conns}
    /\ conns \in SUBSET Conns /\ fresh \in SUBSET Conns
    /\ pc \in {"events", "functors"}
    /\ user \in {"idle", "connect", "stop", "stopping"}
    /\ connects \in 0..MaxConnects /\ stops \in 0..MaxStops
    /\ stopped \in {"no", "yes", "raced"}
    /\ broken \in SUBSET {51, 133, 171}

QueuesOK == pending \in Seq(Functors) /\ batch \in Seq(Functors)

TypeInv == TypeOK /\ PhaseInv /\ Owned <= fds

\* The chain of retries.
Links == timers + Count(Queue, "start") + One(state # "disconnected")

ChainInv ==
    /\ Links <= 1
    /\ connect /\ ~gaveUp => Links = 1
    /\ user = "connect" => connects # 0
    /\ connects = 0 \/ user = "connect" => Links = 0 /\ ~connect /\ channel = "none"
    /\ Has(Queue, "start") => channel = "none"

\* The channel and the functor that will delete it.
ChannelInv ==
    /\ channel = "registered" <=> state = "connecting"
    /\ Count(Queue, "reset") = One(channel = "removed")
    /\ Ordered(Queue, conns)
    /\ pc = "events" /\ conns \ fresh # {} => channel # "removed"
    /\ pc = "functors" /\ conns # {} => ~Has(pending, "reset")

\* The connection and the client.
ConnInv ==
    /\ state # "connected" => conns = {}
    /\ alive => conns = connection
    /\ \A c, d \in conns : c = d
    /\ restarting => alive /\ state = "connected" /\ channel = "none" /\ conns = {}

\* A client that is gone.
GoneInv ==
    /\ ~alive => user = "idle"
    /\ ~alive /\ connect => state = "connected"
    /\ ~alive /\ state = "connecting" => keepAlive /\ Has(Queue, "stop")
    /\ ~alive /\ ~keepAlive => /\ channel = "none"
                               /\ ~Has(Queue, "start") /\ ~Has(Queue, "stop")

SafeInv == ChainInv /\ ChannelInv /\ ConnInv /\ GoneInv /\ broken = {}

Inv == TypeInv /\ fds = Owned /\ SafeInv

\* A stop() in force has cleared both flags.
StopInv ==
    stopped = "yes" =>
        /\ ~clientConnect /\ ~restarting /\ user # "connect"
        /\ user \in {"idle", "stopping"} => ~connect

-----------------------------------------------------------------------------
(* Functors and queues.                                                    *)

(* A functor has a name, and belongs to at most one connection.            *)
LEMMA FunctorFacts ==
    /\ \A n : Functor(n).f = n /\ Functor(n).of = {}
    /\ \A n, c : ConnFunctor(n, c).f = n /\ ConnFunctor(n, c).of = {c}
    /\ \A n \in {"start", "stop", "reset", "forceClose", "connectDestroyed"} :
          Functor(n) \in Functors /\ \A c \in Conns : ConnFunctor(n, c) \in Functors
  BY DEF Functor, ConnFunctor, Functors

(* The functors of one name can be counted.                                *)
LEMMA CountFacts ==
    ASSUME NEW q \in Seq(Functors), NEW n
    PROVE  /\ IsFiniteSet(Places(q, n)) /\ Count(q, n) \in Nat
           /\ Count(q, n) = 0 <=> ~Has(q, n)
<1>1. Len(q) \in Nat /\ DOMAIN q = 1..Len(q)
  OBVIOUS
<1>2. Places(q, n) \in SUBSET (1..Len(q))
  BY <1>1 DEF Places
<1>3. IsFiniteSet(Places(q, n))
  <2>1. IsFiniteSet(1..Len(q))
    BY <1>1, FS_Interval
  <2> QED BY <1>2, <2>1, FS_Subset
<1>4. Count(q, n) \in Nat
  BY <1>3, FS_CardinalityType DEF Count
<1>5. Count(q, n) = 0 <=> Places(q, n) = {}
  BY <1>3, FS_EmptySet DEF Count
<1>6. Places(q, n) = {} <=> ~Has(q, n)
  BY DEF Places, Has
<1> QED BY <1>3, <1>4, <1>5, <1>6

(* queueInLoop(): one functor more.                                        *)
LEMMA AddFacts ==
    ASSUME NEW q \in Seq(Functors), NEW x \in Functors
    PROVE  /\ Append(q, x) \in Seq(Functors)
           /\ \A n : Count(Append(q, x), n) = Count(q, n) + One(x.f = n)
           /\ \A n : Has(Append(q, x), n) <=> Has(q, n) \/ x.f = n
           /\ \A C : Ordered(q, C) /\ (x.f # "reset" \/ C = {}) => Ordered(Append(q, x), C)
<1>1. PICK r : r = Append(q, x)
  OBVIOUS
<1>2. PICK m \in Nat : m = Len(q)
  OBVIOUS
<1>3. /\ r \in Seq(Functors) /\ DOMAIN q = 1..m /\ DOMAIN r = 1..(m + 1)
      /\ r[m + 1] = x /\ \A i \in 1..m : r[i] = q[i]
  BY <1>1, <1>2
<1>4. ASSUME NEW n PROVE Count(r, n) = Count(q, n) + One(x.f = n)
  <2>1. CASE x.f = n
    <3>1. Places(r, n) = Places(q, n) \cup {m + 1}
      BY <1>3, <2>1 DEF Places
    <3>2. m + 1 \notin Places(q, n)
      BY <1>3 DEF Places
    <3>3. Cardinality(Places(q, n) \cup {m + 1}) = Cardinality(Places(q, n)) + 1
      BY <3>2, CountFacts, FS_AddElement
    <3> QED BY <2>1, <3>1, <3>3 DEF Count, One
  <2>2. CASE x.f # n
    <3>1. Places(r, n) = Places(q, n)
      BY <1>3, <2>2 DEF Places
    <3> QED BY <2>2, <3>1, CountFacts DEF Count, One
  <2> QED BY <2>1, <2>2
<1>5. \A n : Has(r, n) <=> Has(q, n) \/ x.f = n
  BY <1>3 DEF Has
<1>6. \A C : Ordered(q, C) /\ (x.f # "reset" \/ C = {}) => Ordered(r, C)
  <2> SUFFICES ASSUME NEW C, Ordered(q, C), x.f # "reset",
                      NEW i \in 1..(m + 1), NEW j \in 1..(m + 1),
                      r[i].f = "reset", r[j].f = "forceClose", r[j].of \cap C # {}
               PROVE  i < j
    BY <1>3 DEF Ordered
  <2>1. i \in 1..m
    BY <1>3
  <2>2. CASE j \in 1..m
    BY <1>3, <2>1, <2>2 DEF Ordered
  <2>3. CASE j = m + 1
    BY <2>1, <2>3
  <2> QED BY <2>2, <2>3
<1> QED BY <1>1, <1>3, <1>4, <1>5, <1>6

(* doPendingFunctors(): the first functor is run.                          *)
LEMMA TakeFacts ==
    ASSUME NEW q \in Seq(Functors), q # <<>>
    PROVE  /\ Tail(q) \in Seq(Functors) /\ Head(q) \in Functors
           /\ \A n : Count(Tail(q), n) + One(Head(q).f = n) = Count(q, n)
           /\ \A n : Has(q, n) <=> Has(Tail(q), n) \/ Head(q).f = n
           /\ \A C : Ordered(q, C) => Ordered(Tail(q), C)
           /\ \A C : Ordered(q, C) /\ Head(q).f = "forceClose" /\ Head(q).of \cap C # {} =>
                 ~Has(q, "reset")
<1>1. PICK r : r = Tail(q)
  OBVIOUS
<1>2. PICK m \in Nat : m + 1 = Len(q)
  <2>1. Len(q) - 1 \in Nat /\ (Len(q) - 1) + 1 = Len(q)
    OBVIOUS
  <2> QED BY <2>1
<1>3. /\ r \in Seq(Functors) /\ DOMAIN q = 1..(m + 1) /\ DOMAIN r = 1..m
      /\ Head(q) = q[1] /\ q[1] \in Functors /\ \A i \in 1..m : r[i] = q[i + 1]
  BY <1>1, <1>2
<1>4. \A i \in 1..(m + 1) : i = 1 \/ \E k \in 1..m : i = k + 1
  <2> SUFFICES ASSUME NEW i \in 1..(m + 1), i # 1 PROVE \E k \in 1..m : i = k + 1
    OBVIOUS
  <2>1. i - 1 \in 1..m /\ i = (i - 1) + 1
    OBVIOUS
  <2> QED BY <2>1
<1>5. \A k \in 1..m : k + 1 \in 1..(m + 1) /\ k + 1 # 1
  OBVIOUS
<1>6. ASSUME NEW n PROVE Count(r, n) + One(Head(q).f = n) = Count(q, n)
  <2>1. IsFiniteSet(Places(r, n)) /\ IsFiniteSet(Places(q, n)) /\ Count(r, n) \in Nat
        /\ Count(q, n) \in Nat
    BY <1>3, CountFacts
  <2>2. Cardinality(Places(q, n) \ {1}) = Cardinality(Places(r, n))
    <3> DEFINE shift == [k \in Places(r, n) |-> k + 1]
    <3>1. \A k \in Places(r, n) : k \in 1..m /\ shift[k] = k + 1 /\ shift[k] \in Places(q, n) \ {1}
      BY <1>3, <1>5 DEF Places
    <3>2. shift \in [Places(r, n) -> Places(q, n) \ {1}]
      BY <3>1
    <3>3. \A k, l \in Places(r, n) : shift[k] = shift[l] => k = l
      BY <3>1
    <3>4. ASSUME NEW i \in Places(q, n) \ {1} PROVE \E k \in Places(r, n) : shift[k] = i
      <4>1. i \in 1..(m + 1) /\ i # 1 /\ q[i].f = n
        BY <1>3 DEF Places
      <4>2. PICK k \in 1..m : i = k + 1
        BY <1>4, <4>1
      <4>3. k \in Places(r, n)
        BY <1>3, <4>1, <4>2 DEF Places
      <4> QED BY <4>2, <4>3
    <3>5. shift \in Bijection(Places(r, n), Places(q, n) \ {1})
      BY <3>2, <3>3, <3>4 DEF Bijection, Injection, Surjection, IsInjective
    <3>6. ExistsBijection(Places(r, n), Places(q, n) \ {1})
      BY <3>5 DEF ExistsBijection
    <3> HIDE DEF shift
    <3> QED BY <2>1, <3>6, FS_Bijection
  <2>3. Cardinality(Places(q, n) \ {1}) =
            IF 1 \in Places(q, n) THEN Cardinality(Places(q, n)) - 1 ELSE Cardinality(Places(q, n))
    BY <2>1, FS_RemoveElement
  <2>4. 1 \in Places(q, n) <=> Head(q).f = n
    BY <1>3 DEF Places
  <2> QED BY <2>1, <2>2, <2>3, <2>4 DEF Count, One
<1>7. \A n : Has(q, n) <=> Has(r, n) \/ Head(q).f = n
  <2>1. ASSUME NEW n, Has(q, n) PROVE Has(r, n) \/ Head(q).f = n
    <3>1. PICK i \in 1..(m + 1) : q[i].f = n
      BY <1>3, <2>1 DEF Has
    <3>2. CASE i = 1
      BY <1>3, <3>1, <3>2
    <3>3. CASE i # 1
      <4>1. PICK k \in 1..m : i = k + 1
        BY <1>4, <3>3
      <4> QED BY <1>3, <3>1, <4>1 DEF Has
    <3> QED BY <3>2, <3>3
  <2>2. ASSUME NEW n, Has(r, n) \/ Head(q).f = n PROVE Has(q, n)
    <3>1. 1 \in 1..(m + 1)
      OBVIOUS
    <3> QED BY <1>3, <1>5, <2>2, <3>1 DEF Has
  <2> QED BY <2>1, <2>2
<1>8. \A C : Ordered(q, C) => Ordered(r, C)
  <2> SUFFICES ASSUME NEW C, Ordered(q, C), NEW i \in 1..m, NEW j \in 1..m,
                      r[i].f = "reset", r[j].f = "forceClose", r[j].of \cap C # {}
               PROVE  i < j
    BY <1>3 DEF Ordered
  <2>1. i + 1 < j + 1
    BY <1>3, <1>5 DEF Ordered
  <2> QED BY <2>1
<1>9. \A C : Ordered(q, C) /\ Head(q).f = "forceClose" /\ Head(q).of \cap C # {} =>
          ~Has(q, "reset")
  <2> SUFFICES ASSUME NEW C, Ordered(q, C), Head(q).f = "forceClose", Head(q).of \cap C # {},
                      NEW i \in 1..(m + 1), q[i].f = "reset"
               PROVE  FALSE
    BY <1>3 DEF Has
  <2>1. 1 \in 1..(m + 1)
    OBVIOUS
  <2>2. i < 1
    BY <1>3, <2>1 DEF Ordered
  <2> QED BY <2>2
<1> QED BY <1>1, <1>3, <1>6, <1>7, <1>8, <1>9

(* The order of fewer connections, and of connections nobody mentions.     *)
LEMMA OrderedFacts ==
    ASSUME NEW q, NEW C
    PROVE  /\ \A D : D \subseteq C /\ Ordered(q, C) => Ordered(q, D)
           /\ (\A j \in DOMAIN q : q[j].of \cap C = {}) => Ordered(q, C)
           /\ C = {} => Ordered(q, C)
<1>1. ASSUME NEW D, D \subseteq C, Ordered(q, C) PROVE Ordered(q, D)
  <2>1. \A j : q[j].of \cap D # {} => q[j].of \cap C # {}
    BY <1>1
  <2> QED BY <1>1, <2>1 DEF Ordered
<1>2. (\A j \in DOMAIN q : q[j].of \cap C = {}) => Ordered(q, C)
  BY DEF Ordered
<1>3. C = {} => \A j \in DOMAIN q : q[j].of \cap C = {}
  OBVIOUS
<1> QED BY <1>1, <1>2, <1>3

(* The queue is what is left of the batch, then what was queued since.     *)
LEMMA ConcatFacts ==
    ASSUME NEW p \in Seq(Functors), NEW q \in Seq(Functors)
    PROVE  /\ p \o q \in Seq(Functors)
           /\ \A x \in Functors : p \o Append(q, x) = Append(p \o q, x)
           /\ \A x \in Functors : q \o <<x>> = Append(q, x)
           /\ p # <<>> => /\ p \o q # <<>> /\ Head(p \o q) = Head(p)
                          /\ Tail(p) \o q = Tail(p \o q)
           /\ p = <<>> => p \o q = q
           /\ q \o <<>> = q
           /\ \A n : Has(q, n) => Has(p \o q, n)
<1>1. PICK r : r = p \o q
  OBVIOUS
<1>2. PICK m \in Nat, k \in Nat : m = Len(p) /\ k = Len(q)
  OBVIOUS
<1>3. /\ r \in Seq(Functors) /\ Len(r) = m + k
      /\ DOMAIN p = 1..m /\ DOMAIN q = 1..k /\ DOMAIN r = 1..(m + k)
      /\ \A i \in 1..(m + k) : r[i] = IF i <= m THEN p[i] ELSE q[i - m]
  BY <1>1, <1>2
<1>4. ASSUME NEW x \in Functors PROVE p \o Append(q, x) = Append(r, x)
  BY <1>1
<1>5. ASSUME NEW x \in Functors PROVE q \o <<x>> = Append(q, x)
  OBVIOUS
<1>6. ASSUME p # <<>> PROVE r # <<>> /\ Head(r) = Head(p) /\ Tail(p) \o q = Tail(r)
  <2>1. m >= 1
    BY <1>2, <1>6
  <2>2. r # <<>> /\ Head(r) = Head(p)
    BY <1>1, <1>2, <1>3, <1>6, <2>1
  <2>3. Tail(p) \o q = Tail(r)
    BY <1>1, <1>2, <1>6, <2>1
  <2> QED BY <2>2, <2>3
<1>7. p = <<>> => r = q
  BY <1>1
<1>8. q \o <<>> = q
  OBVIOUS
<1>9. ASSUME NEW n, Has(q, n) PROVE Has(r, n)
  <2>1. PICK i \in 1..k : q[i].f = n
    BY <1>3, <1>9 DEF Has
  <2>2. i + m \in 1..(m + k) /\ ~(i + m <= m) /\ (i + m) - m = i
    OBVIOUS
  <2>3. r[i + m].f = n
    BY <1>3, <2>1, <2>2
  <2> QED BY <1>3, <2>2, <2>3 DEF Has
<1> QED BY <1>1, <1>3, <1>4, <1>5, <1>6, <1>7, <1>8, <1>9

(* What the functors in the queue are.                                     *)
LEMMA QueueFacts ==
    ASSUME TypeOK
    PROVE  /\ Queue \in Seq(Functors)
           /\ \A n : Count(Queue, n) \in Nat /\ (Count(Queue, n) = 0 <=> ~Has(Queue, n))
<1>1. batch \in Seq(Functors) /\ pending \in Seq(Functors)
  BY DEF TypeOK
<1>2. Queue \in Seq(Functors)
  BY <1>1, ConcatFacts DEF Queue
<1> QED BY <1>2, CountFacts

(* A step that queues x.                                                   *)
LEMMA Adds ==
    ASSUME TypeOK, NEW x \in Functors, batch' = batch, pending' = Append(pending, x)
    PROVE  /\ pending' \in Seq(Functors)
           /\ Queue' \in Seq(Functors) /\ Queue' = Append(Queue, x)
           /\ \A n : Count(Queue', n) = Count(Queue, n) + One(x.f = n)
           /\ \A n : Has(Queue', n) <=> Has(Queue, n) \/ x.f = n
           /\ \A n : Has(pending', n) <=> Has(pending, n) \/ x.f = n
           /\ \A C : Ordered(Queue, C) /\ (x.f # "reset" \/ C = {}) => Ordered(Queue', C)
<1>1. batch \in Seq(Functors) /\ pending \in Seq(Functors) /\ Queue \in Seq(Functors)
  BY QueueFacts DEF TypeOK
<1>2. Queue' = Append(Queue, x)
  BY <1>1, ConcatFacts DEF Queue
<1>3. PICK q \in Seq(Functors) : q = Queue
  BY <1>1
<1>4. PICK p \in Seq(Functors) : p = pending
  BY <1>1
<1>5. PICK r, s : r = Append(q, x) /\ s = Append(p, x)
  OBVIOUS
<1>6. /\ r \in Seq(Functors) /\ s \in Seq(Functors)
      /\ \A n : Count(r, n) = Count(q, n) + One(x.f = n)
      /\ \A n : Has(r, n) <=> Has(q, n) \/ x.f = n
      /\ \A n : Has(s, n) <=> Has(p, n) \/ x.f = n
      /\ \A C : Ordered(q, C) /\ (x.f # "reset" \/ C = {}) => Ordered(r, C)
  BY <1>5, AddFacts
<1>7. Queue' = r /\ pending' = s
  BY <1>2, <1>3, <1>4, <1>5
<1> QED BY <1>2, <1>3, <1>4, <1>6, <1>7, Zenon

(* A step that takes the first functor.                                    *)
LEMMA Takes ==
    ASSUME TypeOK, batch # <<>>, batch' = Tail(batch), pending' = pending
    PROVE  /\ batch' \in Seq(Functors) /\ Head(batch) \in Functors
           /\ Queue' \in Seq(Functors)
           /\ \A n : Count(Queue', n) + One(Head(batch).f = n) = Count(Queue, n)
           /\ \A n : Has(Queue, n) <=> Has(Queue', n) \/ Head(batch).f = n
           /\ \A C : Ordered(Queue, C) => Ordered(Queue', C)
           /\ \A C : Ordered(Queue, C) /\ Head(batch).f = "forceClose" /\ Head(batch).of \cap C # {} =>
                 ~Has(Queue, "reset")
<1>1. batch \in Seq(Functors) /\ pending \in Seq(Functors) /\ Queue \in Seq(Functors)
  BY QueueFacts DEF TypeOK
<1>2. Queue' = Tail(Queue) /\ Queue # <<>> /\ Head(Queue) = Head(batch)
  BY <1>1, ConcatFacts DEF Queue
<1>3. PICK q \in Seq(Functors) : q = Queue
  BY <1>1
<1>4. PICK r, x : r = Tail(q) /\ x = Head(q)
  OBVIOUS
<1>5. /\ r \in Seq(Functors) /\ x \in Functors
      /\ \A n : Count(r, n) + One(x.f = n) = Count(q, n)
      /\ \A n : Has(q, n) <=> Has(r, n) \/ x.f = n
      /\ \A C : Ordered(q, C) => Ordered(r, C)
      /\ \A C : Ordered(q, C) /\ x.f = "forceClose" /\ x.of \cap C # {} => ~Has(q, "reset")
  BY <1>2, <1>3, <1>4, TakeFacts
<1>6. Queue' = r /\ Head(batch) = x
  BY <1>2, <1>3, <1>4
<1>7. batch' \in Seq(Functors)
  BY <1>1, TakeFacts
<1> QED BY <1>3, <1>5, <1>6, <1>7, Zenon

(* A functor that queues another, x.                                       *)
LEMMA TakesAndAdds ==
    ASSUME TypeOK, batch # <<>>, NEW x \in Functors,
           batch' = Tail(batch), pending' = Append(pending, x)
    PROVE  /\ batch' \in Seq(Functors) /\ Head(batch) \in Functors
           /\ pending' \in Seq(Functors) /\ Queue' \in Seq(Functors)
           /\ \A n : Count(Queue', n) + One(Head(batch).f = n) = Count(Queue, n) + One(x.f = n)
           /\ \A n : Has(Queue', n) \/ Head(batch).f = n <=> Has(Queue, n) \/ x.f = n
                                                             \/ Head(batch).f = n
           /\ \A n : x.f = n => Has(Queue', n)
           /\ \A n : Has(pending', n) <=> Has(pending, n) \/ x.f = n
           /\ \A C : Ordered(Queue, C) /\ (x.f # "reset" \/ C = {}) => Ordered(Queue', C)
           /\ \A C : Ordered(Queue, C) /\ Head(batch).f = "forceClose" /\ Head(batch).of \cap C # {} =>
                 ~Has(Queue, "reset")
<1>1. batch \in Seq(Functors) /\ pending \in Seq(Functors) /\ Queue \in Seq(Functors)
  BY QueueFacts DEF TypeOK
<1>2. PICK q \in Seq(Functors), p \in Seq(Functors), b \in Seq(Functors) :
          q = Queue /\ p = pending /\ b = batch
  BY <1>1
<1>3. PICK r, t, h, s : r = Tail(q) /\ t = Append(r, x) /\ h = Head(q) /\ s = Append(p, x)
  OBVIOUS
<1>4. q # <<>> /\ h = Head(batch) /\ r = Tail(b) \o p /\ Tail(b) \in Seq(Functors)
  BY <1>2, <1>3, ConcatFacts, TakeFacts DEF Queue
<1>5. /\ r \in Seq(Functors) /\ h \in Functors
      /\ \A n : Count(r, n) + One(h.f = n) = Count(q, n)
      /\ \A n : Has(q, n) <=> Has(r, n) \/ h.f = n
      /\ \A C : Ordered(q, C) => Ordered(r, C)
      /\ \A C : Ordered(q, C) /\ h.f = "forceClose" /\ h.of \cap C # {} => ~Has(q, "reset")
  BY <1>3, <1>4, TakeFacts
<1>6. /\ t \in Seq(Functors) /\ s \in Seq(Functors)
      /\ \A n : Count(t, n) = Count(r, n) + One(x.f = n)
      /\ \A n : Has(t, n) <=> Has(r, n) \/ x.f = n
      /\ \A n : Has(s, n) <=> Has(p, n) \/ x.f = n
      /\ \A C : Ordered(r, C) /\ (x.f # "reset" \/ C = {}) => Ordered(t, C)
  <2>1. /\ t \in Seq(Functors)
        /\ \A n : Count(t, n) = Count(r, n) + One(x.f = n)
        /\ \A n : Has(t, n) <=> Has(r, n) \/ x.f = n
        /\ \A C : Ordered(r, C) /\ (x.f # "reset" \/ C = {}) => Ordered(t, C)
    <3>1. r \in Seq(Functors) /\ t = Append(r, x)
      BY <1>3, <1>5
    <3> QED BY <3>1, AddFacts
  <2>2. s \in Seq(Functors) /\ \A n : Has(s, n) <=> Has(p, n) \/ x.f = n
    BY <1>3, AddFacts
  <2> QED BY <2>1, <2>2, Zenon
<1>7. Queue' = t
  <2>1. PICK d \in Seq(Functors) : d = Tail(b)
    BY <1>4
  <2>2. d \o Append(p, x) = Append(d \o p, x)
    BY ConcatFacts
  <2> QED BY <1>2, <1>3, <1>4, <2>1, <2>2 DEF Queue
<1>8. ASSUME NEW n PROVE Count(t, n) + One(h.f = n) = Count(q, n) + One(x.f = n)
  <2>1. Count(r, n) \in Nat /\ One(h.f = n) \in Nat /\ One(x.f = n) \in Nat
    BY <1>5, CountFacts DEF One
  <2> QED BY <1>5, <1>6, <2>1
<1>9. /\ \A n : Has(t, n) \/ h.f = n <=> Has(q, n) \/ x.f = n \/ h.f = n
      /\ \A n : x.f = n => Has(t, n)
      /\ \A C : Ordered(q, C) /\ (x.f # "reset" \/ C = {}) => Ordered(t, C)
  BY <1>5, <1>6, Zenon
<1>10. batch' = Tail(b) /\ pending' = s /\ Head(batch) = h
  BY <1>2, <1>3, <1>4
<1>11. batch' \in Seq(Functors) /\ Head(batch) \in Functors /\ pending' \in Seq(Functors)
       /\ Queue' \in Seq(Functors)
  BY <1>4, <1>5, <1>6, <1>7, <1>10
<1>12. \A n : Has(pending', n) <=> Has(pending, n) \/ x.f = n
  BY <1>2, <1>6, <1>10
<1>13. \A C : Ordered(Queue, C) /\ Head(batch).f = "forceClose" /\ Head(batch).of \cap C # {} =>
           ~Has(Queue, "reset")
  BY <1>2, <1>5, <1>10
<1> QED BY <1>2, <1>7, <1>8, <1>9, <1>10, <1>11, <1>12, <1>13, Zenon

-----------------------------------------------------------------------------
(* Types, however often connect() is called.                               *)

(* TypeOK by its parts.                                                    *)
LEMMA TypeParts == TypeOK <=> FlagsOK /\ ValuesOK /\ QueuesOK
<1>1. {connect, clientConnect, alive, keepAlive, restarting, gaveUp} \subseteq BOOLEAN <=> FlagsOK
  BY Zenon DEF FlagsOK
<1> QED BY <1>1, Zenon DEF TypeOK, ValuesOK, QueuesOK

(* The same after a step.                                                  *)
LEMMA TypePartsNext == TypeOK' <=> FlagsOK' /\ ValuesOK' /\ QueuesOK'
<1>1. {connect', clientConnect', alive', keepAlive', restarting', gaveUp'} \subseteq BOOLEAN <=> FlagsOK'
  BY Zenon DEF FlagsOK
<1> QED BY <1>1, Zenon DEF TypeOK, ValuesOK, QueuesOK

(* The delay of a retry stays between its limits.                          *)
LEMMA DelayFacts ==
    /\ InitRetryDelay \in InitRetryDelay..MaxRetryDelay
    /\ \A d \in InitRetryDelay..MaxRetryDelay : Doubled(d) \in InitRetryDelay..MaxRetryDelay
<1>1. InitRetryDelay \in Nat /\ MaxRetryDelay \in Nat /\ InitRetryDelay <= MaxRetryDelay
  BY DelayAssumption
<1>2. ASSUME NEW d \in InitRetryDelay..MaxRetryDelay
      PROVE  Doubled(d) \in InitRetryDelay..MaxRetryDelay
  <2>1. \E x \in {d * 2, MaxRetryDelay} : \A y \in {d * 2, MaxRetryDelay} : x <= y
    BY <1>1
  <2>2. /\ Doubled(d) \in {d * 2, MaxRetryDelay}
        /\ \A y \in {d * 2, MaxRetryDelay} : Doubled(d) <= y
    BY <2>1 DEF Doubled, Min
  <2>3. PICK x \in {d * 2, MaxRetryDelay} : x = Doubled(d)
    BY <2>2
  <2>4. x <= MaxRetryDelay
    BY <2>2, <2>3
  <2>5. InitRetryDelay <= x /\ x \in Int
    BY <1>1, <2>3
  <2> QED BY <1>1, <2>3, <2>4, <2>5
<1> QED BY <1>1, <1>2

(* The parts of Owned are numbers.                                         *)
LEMMA OwnedFacts ==
    ASSUME TypeOK
    PROVE  /\ IsFiniteSet(conns) /\ Cardinality(conns) \in Nat
           /\ Count(Queue, "connectDestroyed") \in Nat
           /\ fds \in Nat /\ Owned \in Nat
<1>1. conns \in SUBSET Conns /\ fds \in Nat
  BY DEF TypeOK
<1>2. IsFiniteSet(conns) /\ Cardinality(conns) \in Nat
  BY <1>1, BoundsAssumption, FS_Subset, FS_CardinalityType
<1>3. Count(Queue, "connectDestroyed") \in Nat
  BY QueueFacts
<1> QED BY <1>1, <1>2, <1>3 DEF Owned, One

(* startInLoop() in the state from.                                        *)
LEMMA ConnectTypes ==
    ASSUME FlagsOK, ValuesOK, NEW from \in {"disconnected", "connecting", "connected"},
           NEW d \in InitRetryDelay..MaxRetryDelay, NEW set \in Nat,
           Connect(from, d, set)
    PROVE  /\ state' \in {"disconnected", "connecting", "connected"}
           /\ channel' \in {"none", "registered", "removed"}
           /\ retryDelay' \in InitRetryDelay..MaxRetryDelay
           /\ timers' \in Nat /\ fds' \in Nat /\ gaveUp' \in BOOLEAN
           /\ broken' \in SUBSET {51, 133, 171}
           /\ \/ fds' = fds + 1 /\ state' = "connecting"
              \/ fds' = fds /\ state' = "disconnected"
              \/ fds' = fds /\ state' = from
<1>1. Doubled(d) \in InitRetryDelay..MaxRetryDelay
  BY DelayFacts
<1>2. broken' \in SUBSET {51, 133, 171}
  <2>1. broken' \in {broken, broken \cup {51}, broken \cup {133}}
    BY DEF Connect, Assert
  <2> QED BY <2>1 DEF ValuesOK
<1>3. gaveUp' \in BOOLEAN
  <2>1. gaveUp' = gaveUp \/ gaveUp' = TRUE
    BY DEF Connect
  <2> QED BY <2>1, Zenon DEF FlagsOK
<1>4. /\ state' \in {"disconnected", "connecting", "connected"}
      /\ channel' \in {"none", "registered", "removed"}
      /\ timers' \in Nat /\ fds' \in Nat
  <2>1. state' \in {"connecting", "disconnected", from} /\ timers' \in {set, set + 1}
    BY DEF Connect, Retry
  <2>2. channel' \in {channel, "registered"} /\ fds' \in {fds, fds + 1}
    BY DEF Connect
  <2> QED BY <2>1, <2>2 DEF ValuesOK
<1>5. retryDelay' \in InitRetryDelay..MaxRetryDelay
  BY <1>1 DEF Connect, Retry
<1>6. \/ fds' = fds + 1 /\ state' = "connecting"
      \/ fds' = fds /\ state' = "disconnected"
      \/ fds' = fds /\ state' = from
  BY DEF Connect, Retry
<1> QED BY <1>2, <1>3, <1>4, <1>5, <1>6

(* startInLoop() in the state it finds, or not at all after stop().        *)
LEMMA StartTypes ==
    ASSUME FlagsOK, ValuesOK, NEW set \in Nat, StartInLoop(set)
    PROVE  /\ state' \in {"disconnected", "connecting", "connected"}
           /\ channel' \in {"none", "registered", "removed"}
           /\ retryDelay' \in InitRetryDelay..MaxRetryDelay
           /\ timers' \in Nat /\ fds' \in Nat /\ gaveUp' \in BOOLEAN
           /\ broken' \in SUBSET {51, 133, 171}
           /\ \/ fds' = fds + 1 /\ state' = "connecting"
              \/ fds' = fds /\ (state' = "disconnected" \/ state' = state)
<1>1. state \in {"disconnected", "connecting", "connected"} /\ retryDelay \in InitRetryDelay..MaxRetryDelay
  BY DEF ValuesOK
<1>2. CASE Connect(state, retryDelay, set)
  BY <1>1, <1>2, ConnectTypes
<1>3. CASE /\ Assert(51, state = "disconnected")
           /\ timers' = set
           /\ UNCHANGED <<state, channel, retryDelay, fds, gaveUp>>
  <2>1. gaveUp' \in BOOLEAN
    BY <1>3, Zenon DEF FlagsOK
  <2> QED BY <1>3, <2>1 DEF ValuesOK, Assert
<1> QED BY <1>2, <1>3 DEF StartInLoop

(* Sockets keep their owners unless state, connections or queue change.    *)
LEMMA OwnedFrame ==
    ASSUME UNCHANGED <<state, conns, batch, pending>>
    PROVE  Owned' = Owned
  BY DEF Owned, Queue

(* So they do when another functor than connectDestroyed() is queued.      *)
LEMMA OwnedAdds ==
    ASSUME TypeOK, NEW x \in Functors, x.f # "connectDestroyed",
           UNCHANGED <<state, conns, batch>>, pending' = Append(pending, x)
    PROVE  Owned' = Owned
<1>1. Count(Queue', "connectDestroyed") = Count(Queue, "connectDestroyed")
  <2>1. Count(Queue', "connectDestroyed") = Count(Queue, "connectDestroyed") + One(x.f = "connectDestroyed")
    BY Adds
  <2> QED BY <2>1, OwnedFacts DEF One
<1> QED BY <1>1 DEF Owned

(* connect(), disconnect() and stop() up to where they queue a functor.    *)
LEMMA TypeUser ==
    ASSUME TypeInv, CallConnect \/ Disconnect \/ CallStop \/ ConnectorStop
    PROVE  TypeInv' /\ (fds = Owned => fds' = Owned')
<1>0. FlagsOK /\ ValuesOK /\ QueuesOK /\ PhaseInv /\ Owned <= fds
  BY TypeParts DEF TypeInv
<1>1. UNCHANGED <<state, channel, retryDelay, timers, fds, gaveUp, connection, conns, alive,
                  keepAlive, loopVars, broken>>
  BY DEF CallConnect, Disconnect, CallStop, ConnectorStop, connectorVars, clientVars
<1>2. FlagsOK'
  <2>1. connect' = connect \/ connect' = FALSE
    BY DEF CallConnect, Disconnect, CallStop, ConnectorStop, connectorVars
  <2>2. clientConnect' = clientConnect \/ clientConnect' = TRUE \/ clientConnect' = FALSE
    BY DEF CallConnect, Disconnect, CallStop, ConnectorStop, clientVars
  <2> QED BY <1>0, <1>1, <2>1, <2>2, Zenon DEF FlagsOK, loopVars
<1>3. ValuesOK'
  <2>1. /\ user' \in {"idle", "connect", "stop", "stopping"}
        /\ stopped' \in {"no", "yes", "raced"}
    BY <1>0 DEF CallConnect, Disconnect, CallStop, ConnectorStop, userVars, ValuesOK
  <2>2. connects' \in 0..MaxConnects /\ stops' \in 0..MaxStops
    <3>1. /\ connects' = connects \/ (connects' = connects + 1 /\ connects < MaxConnects)
          /\ stops' = stops \/ (stops' = stops + 1 /\ stops < MaxStops)
      BY DEF CallConnect, Disconnect, CallStop, ConnectorStop, userVars
    <3> QED BY <1>0, <3>1, BoundsAssumption DEF ValuesOK
  <2> QED BY <1>0, <1>1, <2>1, <2>2 DEF ValuesOK, loopVars
<1>4. QueuesOK' /\ PhaseInv' /\ Owned' = Owned /\ fds' = fds
  BY <1>0, <1>1, OwnedFrame DEF QueuesOK, PhaseInv, loopVars
<1> QED BY <1>0, <1>2, <1>3, <1>4, TypePartsNext DEF TypeInv

(* Where they, and ~TcpClient(), queue one.                                *)
LEMMA TypeQueues ==
    ASSUME TypeInv, ConnectorStart \/ StopQueued \/ Destroy
    PROVE  TypeInv' /\ (fds = Owned => fds' = Owned')
<1>0. FlagsOK /\ ValuesOK /\ QueuesOK /\ PhaseInv /\ Owned <= fds /\ TypeOK
  BY TypeParts DEF TypeInv
<1>1. UNCHANGED <<state, channel, retryDelay, timers, fds, gaveUp, clientConnect, connection, conns,
                  connects, stops, stopped, pc, restarting, batch, fresh, broken>>
  BY DEF ConnectorStart, StopQueued, Destroy, connectorVars, clientVars, userVars
<1>2. FlagsOK'
  <2>1. connect' = connect \/ connect' = FALSE \/ connect' = TRUE
    BY DEF ConnectorStart, StopQueued, Destroy, connectorVars
  <2>2. /\ alive' = alive \/ alive' = FALSE
        /\ keepAlive' = keepAlive \/ keepAlive' = TRUE
    BY DEF ConnectorStart, StopQueued, Destroy, clientVars
  <2> QED BY <1>0, <1>1, <2>1, <2>2, Zenon DEF FlagsOK
<1>3. ValuesOK'
  <2>1. user' \in {"idle", user}
    BY DEF ConnectorStart, StopQueued, Destroy, userVars
  <2> QED BY <1>0, <1>1, <2>1 DEF ValuesOK
<1>4. pending' = pending \/ \E x \in Functors : x.f # "connectDestroyed" /\ pending' = Append(pending, x)
  <2>1. ASSUME NEW c \in connection PROVE ConnFunctor("forceClose", c) \in Functors
    BY <1>0, FunctorFacts DEF ValuesOK
  <2>2. /\ Functor("start") \in Functors /\ Functor("start").f # "connectDestroyed"
        /\ Functor("stop") \in Functors /\ Functor("stop").f # "connectDestroyed"
        /\ \A c : ConnFunctor("forceClose", c).f # "connectDestroyed"
    BY FunctorFacts
  <2> QED BY <2>1, <2>2 DEF ConnectorStart, StopQueued, Destroy
<1>5. QueuesOK' /\ Owned' = Owned
  BY <1>0, <1>1, <1>4, OwnedFrame, OwnedAdds, Adds DEF QueuesOK
<1>6. PhaseInv'
  BY <1>0, <1>1 DEF PhaseInv
<1> QED BY <1>0, <1>1, <1>2, <1>3, <1>5, <1>6, TypePartsNext DEF TypeInv

(* startInLoop(), from connect(), a retry timer or restart().              *)
LEMMA TypeStart ==
    ASSUME TypeInv, RetryTimer \/ RunStart \/ Restart
    PROVE  TypeInv' /\ (fds = Owned /\ state # "connecting" => fds' = Owned')
<1>0. FlagsOK /\ ValuesOK /\ QueuesOK /\ PhaseInv /\ Owned <= fds /\ TypeOK
  BY TypeParts DEF TypeInv
<1>1. UNCHANGED <<clientVars, userVars, pc, pending, fresh>>
  BY DEF RetryTimer, RunStart, Restart, StartInLoop, loopVars
<1>2. /\ state' \in {"disconnected", "connecting", "connected"}
      /\ channel' \in {"none", "registered", "removed"}
      /\ retryDelay' \in InitRetryDelay..MaxRetryDelay
      /\ timers' \in Nat /\ fds' \in Nat /\ gaveUp' \in BOOLEAN
      /\ broken' \in SUBSET {51, 133, 171}
      /\ \/ fds' = fds + 1 /\ state' = "connecting"
         \/ fds' = fds /\ (state' = "disconnected" \/ state' = state)
  <2>1. CASE RetryTimer
    <3>1. timers - 1 \in Nat /\ StartInLoop(timers - 1)
      BY <1>0, <2>1 DEF RetryTimer, ValuesOK
    <3> QED BY <1>0, <3>1, StartTypes
  <2>2. CASE RunStart
    BY <1>0, <2>2, StartTypes DEF RunStart, ValuesOK
  <2>3. CASE Restart
    <3>1. Connect("disconnected", InitRetryDelay, timers) /\ timers \in Nat
      BY <1>0, <2>3 DEF Restart, ValuesOK
    <3> QED BY <1>0, <3>1, DelayFacts, ConnectTypes
  <2> QED BY <2>1, <2>2, <2>3
<1>3. FlagsOK'
  <2>1. /\ connect' = connect \/ connect' = TRUE
        /\ restarting' = restarting \/ restarting' = FALSE
    BY DEF RetryTimer, RunStart, Restart, StartInLoop, loopVars
  <2> QED BY <1>0, <1>1, <1>2, <2>1, Zenon DEF FlagsOK, clientVars
<1>4. ValuesOK'
  BY <1>0, <1>1, <1>2 DEF ValuesOK, clientVars, userVars
<1>5. /\ batch' \in Seq(Functors)
      /\ batch = <<>> => batch' = <<>>
      /\ Count(Queue', "connectDestroyed") = Count(Queue, "connectDestroyed")
  <2>1. CASE RetryTimer \/ Restart
    <3>1. batch' = batch
      BY <2>1 DEF RetryTimer, Restart, loopVars
    <3> QED BY <1>0, <1>1, <3>1 DEF QueuesOK, Queue
  <2>2. CASE RunStart
    <3>1. batch # <<>> /\ batch' = Tail(batch) /\ Head(batch).f = "start"
      BY <2>2 DEF RunStart, RunFunctor
    <3>2. /\ batch' \in Seq(Functors) /\ Queue' \in Seq(Functors)
          /\ Count(Queue', "connectDestroyed") + One(Head(batch).f = "connectDestroyed")
                = Count(Queue, "connectDestroyed")
      BY <1>0, <1>1, <3>1, Takes
    <3>3. Count(Queue', "connectDestroyed") \in Nat
      BY <3>2, CountFacts
    <3> QED BY <3>1, <3>2, <3>3 DEF One
  <2> QED BY <2>1, <2>2
<1>6. PhaseInv' /\ QueuesOK'
  BY <1>0, <1>1, <1>5 DEF PhaseInv, QueuesOK
<1>7. Owned' <= fds' /\ (fds = Owned /\ state # "connecting" => fds' = Owned')
  BY <1>0, <1>1, <1>2, <1>5, OwnedFacts DEF Owned, One, clientVars
<1> QED BY <1>3, <1>4, <1>6, <1>7, TypePartsNext DEF TypeInv

(* An attempt ends in failure: its socket is closed, and a functor will    *)
(* delete the channel.                                                     *)
LEMMA FailureTypes ==
    ASSUME FlagsOK, ValuesOK, Failure
    PROVE  /\ state' = "disconnected" /\ channel' = "removed" /\ fds' = fds - 1
           /\ retryDelay' \in InitRetryDelay..MaxRetryDelay
           /\ timers' \in Nat /\ timers' = timers + One(connect)
           /\ pending' = pending \o <<Functor("reset")>> \o <<>>
<1>1. Doubled(retryDelay) \in InitRetryDelay..MaxRetryDelay
  BY DelayFacts DEF ValuesOK
<1> QED BY <1>1 DEF Failure, Retry, RemoveAndReset, ValuesOK, One

(* What removeAndResetChannel() queues.                                    *)
LEMMA ResetQueued ==
    ASSUME QueuesOK
    PROVE  /\ Functor("reset") \in Functors /\ Functor("reset").f = "reset"
           /\ pending \o <<Functor("reset")>> \o <<>> = Append(pending, Functor("reset"))
           /\ \A c \in Conns :
                 /\ ConnFunctor("forceClose", c) \in Functors
                 /\ ConnFunctor("forceClose", c).f = "forceClose"
                 /\ ConnFunctor("forceClose", c).of = {c}
                 /\ pending \o <<Functor("reset")>> \o <<ConnFunctor("forceClose", c)>>
                       = Append(Append(pending, Functor("reset")), ConnFunctor("forceClose", c))
<1>1. PICK x \in Functors : x = Functor("reset")
  BY FunctorFacts
<1>2. PICK p \in Seq(Functors) : p = pending
  BY DEF QueuesOK
<1>3. PICK q \in Seq(Functors) : q = Append(p, x)
  BY AddFacts
<1>4. p \o <<x>> = q /\ q \o <<>> = q
  BY <1>3, ConcatFacts
<1>5. ASSUME NEW c \in Conns
      PROVE  /\ ConnFunctor("forceClose", c) \in Functors
             /\ ConnFunctor("forceClose", c).f = "forceClose"
             /\ ConnFunctor("forceClose", c).of = {c}
             /\ q \o <<ConnFunctor("forceClose", c)>> = Append(q, ConnFunctor("forceClose", c))
  BY FunctorFacts, ConcatFacts
<1>6. Functor("reset").f = "reset"
  BY FunctorFacts
<1> QED BY <1>1, <1>2, <1>3, <1>4, <1>5, <1>6

(* An attempt that ends without a connection.                              *)
LEMMA TypeFailure ==
    ASSUME TypeInv, HandleFailure \/ HandleUnwanted \/ RunStop
    PROVE  TypeInv' /\ (fds = Owned => fds' = Owned')
<1>0. FlagsOK /\ ValuesOK /\ QueuesOK /\ PhaseInv /\ Owned <= fds /\ TypeOK
  BY TypeParts DEF TypeInv
<1>1. UNCHANGED <<connect, gaveUp, clientVars, userVars, pc, restarting, fresh, broken>>
  BY DEF HandleFailure, HandleUnwanted, RunStop, StopInLoop, Failure, connectorVars
<1>2. FlagsOK'
  BY <1>0, <1>1, Zenon DEF FlagsOK, clientVars
<1>3. \/ state' = state /\ fds' = fds /\ pending' = pending
      \/ /\ state = "connecting" /\ state' # "connecting" /\ fds' = fds - 1
         /\ pending' = Append(pending, Functor("reset"))
  <2>1. CASE HandleFailure \/ RunStop
    <3>1. \/ state = "connecting" /\ Failure
          \/ state' = state /\ fds' = fds /\ pending' = pending
      BY <2>1 DEF HandleFailure, RunStop, StopInLoop, connectorVars
    <3> QED BY <1>0, <3>1, FailureTypes, ResetQueued
  <2>2. CASE HandleUnwanted
    BY <1>0, <2>2, ResetQueued DEF HandleUnwanted, RemoveAndReset
  <2> QED BY <2>1, <2>2
<1>4. /\ batch' \in Seq(Functors) /\ pending' \in Seq(Functors)
      /\ batch = <<>> => batch' = <<>>
      /\ Count(Queue', "connectDestroyed") = Count(Queue, "connectDestroyed")
  <2>1. PICK x \in Functors : x = Functor("reset") /\ x.f = "reset"
    BY <1>0, ResetQueued
  <2>2. pending' = pending \/ pending' = Append(pending, x)
    BY <1>3, <2>1
  <2>3. CASE HandleFailure \/ HandleUnwanted
    <3>1. batch' = batch
      BY <2>3 DEF HandleFailure, HandleUnwanted
    <3>2. CASE pending' = pending
      BY <1>0, <3>1, <3>2 DEF QueuesOK, Queue
    <3>3. CASE pending' = Append(pending, x)
      <4>1. /\ pending' \in Seq(Functors)
            /\ Count(Queue', "connectDestroyed") =
                  Count(Queue, "connectDestroyed") + One(x.f = "connectDestroyed")
        BY <1>0, <3>1, <3>3, Adds
      <4> QED BY <1>0, <2>1, <3>1, <4>1, OwnedFacts DEF One, QueuesOK
    <3> QED BY <2>2, <3>2, <3>3
  <2>4. CASE RunStop
    <3>1. batch # <<>> /\ batch' = Tail(batch) /\ Head(batch).f = "stop"
      BY <2>4 DEF RunStop, RunFunctor
    <3>2. /\ batch' \in Seq(Functors) /\ pending' \in Seq(Functors) /\ Queue' \in Seq(Functors)
          /\ Count(Queue', "connectDestroyed") + One(Head(batch).f = "connectDestroyed") \in
               {Count(Queue, "connectDestroyed"),
                Count(Queue, "connectDestroyed") + One(x.f = "connectDestroyed")}
      <4>1. CASE pending' = pending
        BY <1>0, <3>1, <4>1, Takes DEF QueuesOK
      <4>2. CASE pending' = Append(pending, x)
        BY <1>0, <3>1, <4>2, TakesAndAdds
      <4> QED BY <2>2, <4>1, <4>2
    <3>3. Count(Queue', "connectDestroyed") \in Nat
      BY <3>2, CountFacts
    <3> QED BY <1>0, <2>1, <3>1, <3>2, <3>3, OwnedFacts DEF One
  <2> QED BY <2>3, <2>4
<1>5. PhaseInv' /\ QueuesOK'
  BY <1>0, <1>1, <1>4 DEF PhaseInv, QueuesOK
<1>6. Owned' <= fds' /\ fds' \in Nat /\ (fds = Owned => fds' = Owned')
  BY <1>0, <1>1, <1>3, <1>4, OwnedFacts DEF Owned, One, clientVars
<1>7. ValuesOK'
  <2>1. /\ state' \in {state, "disconnected", "connected"} /\ channel' \in {channel, "removed"}
        /\ retryDelay' \in InitRetryDelay..MaxRetryDelay /\ timers' \in Nat
    <3>1. CASE HandleFailure \/ RunStop
      <4>1. \/ Failure
            \/ UNCHANGED <<state, channel, retryDelay, timers>>
        BY <3>1 DEF HandleFailure, RunStop, StopInLoop, connectorVars
      <4> QED BY <1>0, <4>1, FailureTypes DEF ValuesOK
    <3>2. CASE HandleUnwanted
      BY <1>0, <3>2 DEF HandleUnwanted, RemoveAndReset, ValuesOK
    <3> QED BY <3>1, <3>2
  <2> QED BY <1>0, <1>1, <1>6, <2>1 DEF ValuesOK, clientVars, userVars
<1> QED BY <1>2, <1>5, <1>6, <1>7, TypePartsNext DEF TypeInv

(* What newConnection() does to the queue: the channel is deleted, then    *)
(* the connection may be closed.                                           *)
LEMMA ConnectedQueue ==
    ASSUME TypeOK, HandleConnected
    PROVE  \E c \in FreeConns :
             /\ connection' = {c} /\ conns' = conns \cup {c} /\ fresh' = {c}
             /\ channel' = "removed"
             /\ pending' \in Seq(Functors) /\ Queue' \in Seq(Functors)
             /\ \A n : n # "forceClose" =>
                   /\ Count(Queue', n) = Count(Queue, n) + One(n = "reset")
                   /\ Has(Queue', n) <=> Has(Queue, n) \/ n = "reset"
             /\ Ordered(Queue', {c})
<1>1. QueuesOK /\ Queue \in Seq(Functors) /\ pending \in Seq(Functors) /\ batch \in Seq(Functors)
  BY TypeParts, QueueFacts DEF QueuesOK
<1>2. PICK c \in FreeConns :
          /\ connection' = {c} /\ conns' = conns \cup {c} /\ fresh' = {c}
          /\ \E later \in {<<>>, <<ConnFunctor("forceClose", c)>>} : RemoveAndReset(later)
  BY DEF HandleConnected
<1>3. channel' = "removed" /\ batch' = batch /\ c \in Conns
  BY <1>2 DEF RemoveAndReset, HandleConnected, FreeConns
<1>4. PICK x \in Functors : x = Functor("reset") /\ x.f = "reset"
  BY <1>1, ResetQueued
<1>5. PICK y \in Functors : y = ConnFunctor("forceClose", c) /\ y.f = "forceClose"
  BY <1>1, <1>3, ResetQueued
<1>6. PICK p \in Seq(Functors) : p = Append(pending, x)
  BY <1>1, AddFacts
<1>7. pending' = p \/ pending' = Append(p, y)
  BY <1>1, <1>2, <1>3, <1>4, <1>5, <1>6, ResetQueued DEF RemoveAndReset
<1>8. PICK q \in Seq(Functors) : q = Queue
  BY <1>1
<1>9. PICK r \in Seq(Functors) : r = Append(q, x)
  BY AddFacts
<1>10. PICK s \in Seq(Functors) : s = Append(r, y)
  BY AddFacts
<1>11. batch \o p = r /\ batch \o Append(p, y) = s
  BY <1>1, <1>6, <1>8, <1>9, <1>10, ConcatFacts DEF Queue
<1>12. Queue' = r \/ Queue' = s
  BY <1>3, <1>7, <1>11 DEF Queue
<1>13. \A n : /\ Count(r, n) = Count(q, n) + One(x.f = n)
              /\ Has(r, n) <=> Has(q, n) \/ x.f = n
  BY <1>9, AddFacts
<1>14. /\ \A n : /\ Count(s, n) = Count(r, n) + One(y.f = n)
                 /\ Has(s, n) <=> Has(r, n) \/ y.f = n
       /\ Ordered(r, {c}) => Ordered(s, {c})
  BY <1>5, <1>10, AddFacts
<1>15. \A n : Count(r, n) \in Nat
  BY CountFacts
<1>16. ASSUME NEW n, n # "forceClose"
       PROVE  /\ Count(r, n) = Count(q, n) + One(n = "reset")
              /\ Count(s, n) = Count(q, n) + One(n = "reset")
              /\ Has(r, n) <=> Has(q, n) \/ n = "reset"
              /\ Has(s, n) <=> Has(q, n) \/ n = "reset"
  <2>1. One(x.f = n) = One(n = "reset") /\ One(y.f = n) = 0
    BY <1>4, <1>5, <1>16 DEF One
  <2>2. Count(s, n) = Count(r, n)
    BY <1>14, <1>15, <2>1
  <2> QED BY <1>4, <1>5, <1>13, <1>14, <1>16, <2>1, <2>2
<1>17. Ordered(r, {c})
  <2>1. \A j \in DOMAIN q : c \notin q[j].of
    BY <1>2, <1>8 DEF FreeConns
  <2>2. PICK m \in Nat : m = Len(q)
    OBVIOUS
  <2>3. DOMAIN r = 1..(m + 1) /\ DOMAIN q = 1..m /\ r[m + 1] = x /\ \A j \in 1..m : r[j] = q[j]
    BY <1>9, <2>2
  <2>4. x.f # "forceClose"
    BY <1>4
  <2> QED BY <2>1, <2>3, <2>4 DEF Ordered
<1>18. pending' \in Seq(Functors)
  <2>1. Append(p, y) \in Seq(Functors)
    BY AddFacts
  <2> QED BY <1>7, <2>1
<1>19. WITNESS c \in FreeConns
<1>20. CASE Queue' = r
  BY <1>2, <1>3, <1>8, <1>16, <1>17, <1>18, <1>20
<1>21. CASE Queue' = s
  BY <1>2, <1>3, <1>8, <1>14, <1>16, <1>17, <1>18, <1>21
<1> QED BY <1>12, <1>20, <1>21

(* newConnection(): the socket passes from the attempt to the connection.  *)
LEMMA TypeConnected ==
    ASSUME TypeInv, HandleConnected
    PROVE  TypeInv' /\ (fds = Owned => fds' = Owned')
<1>0. FlagsOK /\ ValuesOK /\ QueuesOK /\ PhaseInv /\ Owned <= fds /\ TypeOK
  BY TypeParts DEF TypeInv
<1>1. /\ UNCHANGED <<connect, retryDelay, timers, fds, gaveUp, clientConnect, alive,
                     keepAlive, userVars, pc, restarting, batch, broken>>
      /\ state = "connecting" /\ state' = "connected" /\ pc = "events"
  BY DEF HandleConnected, Handling
<1>2. PICK c \in FreeConns :
          /\ connection' = {c} /\ conns' = conns \cup {c} /\ fresh' = {c}
          /\ channel' = "removed"
          /\ pending' \in Seq(Functors) /\ Queue' \in Seq(Functors)
          /\ \A n : n # "forceClose" =>
                   /\ Count(Queue', n) = Count(Queue, n) + One(n = "reset")
                   /\ Has(Queue', n) <=> Has(Queue, n) \/ n = "reset"
  BY <1>0, ConnectedQueue
<1>3. c \in Conns /\ c \notin conns
  BY DEF FreeConns
<1>4. FlagsOK'
  BY <1>0, <1>1, Zenon DEF FlagsOK
<1>5. ValuesOK'
  BY <1>0, <1>1, <1>2, <1>3 DEF ValuesOK, userVars
<1>6. PhaseInv' /\ QueuesOK'
  BY <1>0, <1>1, <1>2 DEF PhaseInv, QueuesOK
<1>7. Owned' <= fds' /\ (fds = Owned => fds' = Owned')
  <2>1. Count(Queue', "connectDestroyed") = Count(Queue, "connectDestroyed")
    BY <1>0, <1>2, OwnedFacts DEF One
  <2>2. Cardinality(conns') = Cardinality(conns) + 1
    BY <1>0, <1>2, <1>3, OwnedFacts, FS_AddElement
  <2> QED BY <1>0, <1>1, <2>1, <2>2, OwnedFacts DEF Owned, One
<1> QED BY <1>4, <1>5, <1>6, <1>7, TypePartsNext DEF TypeInv

(* removeConnection() of c.                                                *)
LEMMA RemovedTypes ==
    ASSUME FlagsOK, ValuesOK, NEW c \in conns, RemoveConnection(c)
    PROVE  /\ FlagsOK'
           /\ broken' \in SUBSET {51, 133, 171}
           /\ connection' \in {{}} \cup {{d} : d \in Conns}
           /\ UNCHANGED <<connectorVars, userVars, pc, fresh>> /\ conns' = conns \ {c}
           /\ Cardinality(conns') = Cardinality(conns) - 1
           /\ ConnFunctor("connectDestroyed", c) \in Functors
           /\ ConnFunctor("connectDestroyed", c).f = "connectDestroyed"
           /\ pending' = Append(pending, ConnFunctor("connectDestroyed", c))
<1>1. /\ UNCHANGED <<connectorVars, clientConnect, alive, keepAlive, userVars, pc, fresh>>
      /\ conns' = conns \ {c} /\ pending' = Append(pending, ConnFunctor("connectDestroyed", c))
  BY DEF RemoveConnection
<1>2. restarting' = restarting \/ restarting' = clientConnect
  BY DEF RemoveConnection, Reconnects
<1>3. FlagsOK'
  BY <1>1, <1>2, Zenon DEF FlagsOK, connectorVars
<1>4. broken' \in {broken, broken \cup {171}} /\ connection' \in {connection, {}}
  BY DEF RemoveConnection, Assert
<1>5. broken' \in SUBSET {51, 133, 171} /\ connection' \in {{}} \cup {{d} : d \in Conns}
  BY <1>4 DEF ValuesOK
<1>6. IsFiniteSet(conns) /\ c \in Conns
  BY BoundsAssumption, FS_Subset DEF ValuesOK
<1>7. Cardinality(conns \ {c}) = Cardinality(conns) - 1
  BY <1>6, FS_RemoveElement
<1> QED BY <1>1, <1>3, <1>5, <1>6, <1>7, FunctorFacts

(* A connection that the peer closes, or forceClose().                     *)
LEMMA TypeClose ==
    ASSUME TypeInv, (\E c \in Conns : PeerCloses(c)) \/ RunForceClose
    PROVE  TypeInv' /\ (fds = Owned => fds' = Owned')
<1>0. FlagsOK /\ ValuesOK /\ QueuesOK /\ PhaseInv /\ Owned <= fds /\ TypeOK
  BY TypeParts DEF TypeInv
<1>1. ASSUME NEW c \in conns, RemoveConnection(c),
             \/ batch' = batch
             \/ batch # <<>> /\ batch' = Tail(batch) /\ Head(batch).f = "forceClose"
      PROVE  TypeInv' /\ (fds = Owned => fds' = Owned')
  <2>1. /\ FlagsOK'
        /\ broken' \in SUBSET {51, 133, 171}
        /\ connection' \in {{}} \cup {{d} : d \in Conns}
        /\ UNCHANGED <<connectorVars, userVars, pc, fresh>> /\ conns' = conns \ {c}
        /\ Cardinality(conns') = Cardinality(conns) - 1
    BY <1>0, <1>1, RemovedTypes
  <2>2. PICK x \in Functors : x.f = "connectDestroyed" /\ pending' = Append(pending, x)
    BY <1>0, <1>1, RemovedTypes
  <2>3. /\ pending' \in Seq(Functors) /\ batch' \in Seq(Functors)
        /\ Count(Queue', "connectDestroyed") = Count(Queue, "connectDestroyed") + 1
    <3>1. CASE batch' = batch
      <4>1. /\ pending' \in Seq(Functors)
            /\ Count(Queue', "connectDestroyed") = Count(Queue, "connectDestroyed") + One(x.f = "connectDestroyed")
        BY <1>0, <2>2, <3>1, Adds
      <4> QED BY <1>0, <2>2, <3>1, <4>1 DEF One, QueuesOK
    <3>2. CASE batch # <<>> /\ batch' = Tail(batch) /\ Head(batch).f = "forceClose"
      <4>1. /\ pending' \in Seq(Functors) /\ batch' \in Seq(Functors) /\ Queue' \in Seq(Functors)
            /\ Count(Queue', "connectDestroyed") + One(Head(batch).f = "connectDestroyed")
                  = Count(Queue, "connectDestroyed") + One(x.f = "connectDestroyed")
        BY <1>0, <2>2, <3>2, TakesAndAdds
      <4>2. Count(Queue', "connectDestroyed") \in Nat
        BY <4>1, CountFacts
      <4> QED BY <2>2, <3>2, <4>1, <4>2 DEF One
    <3> QED BY <1>1, <3>1, <3>2
  <2>4. ValuesOK'
    BY <1>0, <2>1 DEF ValuesOK, connectorVars, userVars
  <2>5. PhaseInv' /\ QueuesOK'
    BY <1>0, <1>1, <2>1, <2>3 DEF PhaseInv, QueuesOK
  <2>6. Owned' <= fds' /\ (fds = Owned => fds' = Owned')
    BY <1>0, <2>1, <2>3, OwnedFacts DEF Owned, One, connectorVars
  <2> QED BY <2>1, <2>4, <2>5, <2>6, TypePartsNext DEF TypeInv
<1>2. CASE \E c \in Conns : PeerCloses(c)
  BY <1>1, <1>2 DEF PeerCloses
<1>3. CASE RunForceClose /\ \E c \in Head(batch).of \cap conns : RemoveConnection(c)
  BY <1>1, <1>3 DEF RunForceClose, RunFunctor
<1>4. CASE /\ RunForceClose
           /\ UNCHANGED <<connectorVars, clientVars, userVars, pc, restarting, pending, fresh, broken>>
  <2>1. batch # <<>> /\ batch' = Tail(batch) /\ Head(batch).f = "forceClose" /\ pending' = pending
    BY <1>4 DEF RunForceClose, RunFunctor
  <2>2. /\ batch' \in Seq(Functors) /\ Queue' \in Seq(Functors)
        /\ Count(Queue', "connectDestroyed") + One(Head(batch).f = "connectDestroyed")
              = Count(Queue, "connectDestroyed")
    BY <1>0, <2>1, Takes
  <2>3. Count(Queue', "connectDestroyed") \in Nat
    BY <2>2, CountFacts
  <2>4. FlagsOK'
    BY <1>0, <1>4, Zenon DEF FlagsOK, connectorVars, clientVars
  <2>5. ValuesOK'
    BY <1>0, <1>4 DEF ValuesOK, connectorVars, clientVars, userVars
  <2>6. PhaseInv' /\ QueuesOK'
    BY <1>0, <1>4, <2>1, <2>2 DEF PhaseInv, QueuesOK
  <2>7. Owned' <= fds' /\ (fds = Owned => fds' = Owned')
    BY <1>0, <1>4, <2>1, <2>2, <2>3 DEF Owned, One, connectorVars, clientVars
  <2> QED BY <2>4, <2>5, <2>6, <2>7, TypePartsNext DEF TypeInv
<1> QED BY <1>2, <1>3, <1>4 DEF RunForceClose

(* The loop's own steps, and the timer of ~TcpClient().                    *)
LEMMA TypeLoop ==
    ASSUME TypeInv,
           \/ KeepAliveTimer \/ BeginFunctors \/ EndFunctors \/ ResetChannel \/ ConnectDestroyed
           \/ UNCHANGED vars
    PROVE  TypeInv' /\ (fds = Owned => fds' = Owned')
<1>0. FlagsOK /\ ValuesOK /\ QueuesOK /\ PhaseInv /\ Owned <= fds /\ TypeOK
  BY TypeParts DEF TypeInv
<1>1. UNCHANGED <<connect, state, retryDelay, timers, gaveUp, clientConnect, connection, conns,
                  alive, userVars, restarting, broken>>
  BY DEF KeepAliveTimer, BeginFunctors, EndFunctors, ResetChannel, ConnectDestroyed,
         vars, connectorVars, clientVars, loopVars
<1>2. FlagsOK'
  <2>1. keepAlive' = keepAlive \/ keepAlive' = FALSE
    BY DEF KeepAliveTimer, BeginFunctors, EndFunctors, ResetChannel, ConnectDestroyed,
           vars, clientVars
  <2> QED BY <1>0, <1>1, <2>1, Zenon DEF FlagsOK
<1>3. CASE KeepAliveTimer \/ EndFunctors \/ UNCHANGED vars
  <2>1. UNCHANGED <<channel, fds, batch, pending, fresh>>
    BY <1>3 DEF KeepAliveTimer, EndFunctors, vars, connectorVars, loopVars
  <2>2. pc' = pc \/ (pc = "functors" /\ pc' = "events" /\ batch = <<>>)
    BY <1>3 DEF KeepAliveTimer, EndFunctors, vars, loopVars
  <2>3. ValuesOK'
    BY <1>0, <1>1, <2>1, <2>2 DEF ValuesOK, userVars
  <2>4. PhaseInv' /\ QueuesOK'
    BY <1>0, <2>1, <2>2 DEF PhaseInv, QueuesOK
  <2>5. Owned' <= fds' /\ (fds = Owned => fds' = Owned')
    BY <1>0, <1>1, <2>1, OwnedFrame
  <2> QED BY <1>2, <2>3, <2>4, <2>5, TypePartsNext DEF TypeInv
<1>4. CASE BeginFunctors
  <2>1. /\ pc = "events" /\ batch = <<>>
        /\ pc' = "functors" /\ batch' = pending /\ pending' = <<>> /\ fresh' = {}
        /\ UNCHANGED <<channel, fds>>
    BY <1>0, <1>4 DEF BeginFunctors, Handling, PhaseInv, connectorVars
  <2>2. ValuesOK'
    BY <1>0, <1>1, <2>1 DEF ValuesOK, userVars
  <2>3. PhaseInv' /\ QueuesOK'
    BY <1>0, <2>1 DEF PhaseInv, QueuesOK
  <2>4. Queue' = Queue
    BY <1>0, <2>1, ConcatFacts DEF Queue, QueuesOK
  <2>5. Owned' <= fds' /\ (fds = Owned => fds' = Owned')
    BY <1>0, <1>1, <2>1, <2>4 DEF Owned
  <2> QED BY <1>2, <2>2, <2>3, <2>5, TypePartsNext DEF TypeInv
<1>5. CASE ResetChannel \/ ConnectDestroyed
  <2>1. /\ batch # <<>> /\ batch' = Tail(batch) /\ UNCHANGED <<pending, pc, fresh>>
        /\ channel' \in {channel, "none"}
        /\ \/ fds' = fds /\ Head(batch).f = "reset"
           \/ fds' = fds - 1 /\ Head(batch).f = "connectDestroyed"
    BY <1>5 DEF ResetChannel, ConnectDestroyed, RunFunctor
  <2>2. /\ batch' \in Seq(Functors) /\ Queue' \in Seq(Functors)
        /\ Count(Queue', "connectDestroyed") + One(Head(batch).f = "connectDestroyed")
              = Count(Queue, "connectDestroyed")
    BY <1>0, <2>1, Takes
  <2>3. Count(Queue', "connectDestroyed") \in Nat
    BY <2>2, CountFacts
  <2>4. fds' \in Nat /\ Owned' <= fds' /\ (fds = Owned => fds' = Owned')
    <3>1. CASE fds' = fds /\ Head(batch).f = "reset"
      <4>1. Count(Queue', "connectDestroyed") = Count(Queue, "connectDestroyed")
        BY <2>2, <2>3, <3>1 DEF One
      <4>2. Owned' = Owned
        BY <1>1, <4>1 DEF Owned
      <4> QED BY <1>0, <3>1, <4>2, OwnedFacts
    <3>2. CASE fds' = fds - 1 /\ Head(batch).f = "connectDestroyed"
      <4>1. Count(Queue', "connectDestroyed") = Count(Queue, "connectDestroyed") - 1
        BY <2>2, <2>3, <3>2 DEF One
      <4>2. Owned' = Owned - 1 /\ Owned' >= 0
        BY <1>0, <1>1, <2>3, <4>1, OwnedFacts DEF Owned, One
      <4> QED BY <1>0, <3>2, <4>2, OwnedFacts
    <3> QED BY <2>1, <3>1, <3>2
  <2>5. ValuesOK'
    BY <1>0, <1>1, <2>1, <2>4 DEF ValuesOK, userVars
  <2>6. PhaseInv' /\ QueuesOK'
    BY <1>0, <2>1, <2>2 DEF PhaseInv, QueuesOK
  <2> QED BY <1>2, <2>4, <2>5, <2>6, TypePartsNext DEF TypeInv
<1> QED BY <1>3, <1>4, <1>5

(* Initially nothing is open.                                              *)
LEMMA TypeInit == Init => TypeInv
<1> SUFFICES ASSUME Init PROVE TypeInv
  OBVIOUS
<1>1. FlagsOK
  BY Zenon DEF Init, FlagsOK
<1>2. ValuesOK
  BY DelayFacts, BoundsAssumption DEF Init, ValuesOK
<1>3. QueuesOK /\ PhaseInv
  BY DEF Init, QueuesOK, PhaseInv
<1>4. Owned = 0
  <2>1. Queue = <<>> /\ Queue \in Seq(Functors)
    BY DEF Init, Queue
  <2>2. ~Has(Queue, "connectDestroyed")
    BY <2>1 DEF Has
  <2>3. Count(Queue, "connectDestroyed") = 0 /\ Cardinality(conns) = 0
    BY <2>1, <2>2, CountFacts, FS_EmptySet DEF Init
  <2> QED BY <2>3 DEF Init, Owned, One
<1>5. Owned <= fds
  BY <1>4 DEF Init
<1> QED BY <1>1, <1>2, <1>3, <1>5, TypeParts DEF TypeInv

(* Every step keeps the types.                                             *)
LEMMA TypeStep == TypeInv /\ [Next]_vars => TypeInv'
  BY TypeUser, TypeQueues, TypeStart, TypeFailure, TypeConnected, TypeClose, TypeLoop, Zenon
     DEF Next

(* A socket is lost only if startInLoop() connects during an attempt.      *)
LEMMA OwnedStep ==
    ASSUME TypeInv, [Next]_vars, fds = Owned,
           RetryTimer \/ RunStart \/ Restart => state # "connecting"
    PROVE  fds' = Owned'
  BY TypeUser, TypeQueues, TypeStart, TypeFailure, TypeConnected, TypeClose, TypeLoop, Zenon
     DEF Next

(* The types, the phases of the loop, and an open socket per owner.        *)
LEMMA TypeInvariant == Spec => []TypeInv
  BY TypeInit, TypeStep, PTL DEF Spec

(* Every value stays in its type, in particular: no socket is closed that  *)
(* is not open, and the delay between retries stays within its limits,     *)
(* however often connect() and stop() are called.                          *)
THEOREM TypeCorrect == Spec => []TypeOK
<1>1. TypeInv => TypeOK
  BY DEF TypeInv
<1> QED BY <1>1, TypeInvariant, PTL

-----------------------------------------------------------------------------
(* stop(), however often connect() is called.                              *)

(* No step revives a flag that a stop() in force has cleared.              *)
LEMMA StopStep == StopInv /\ [Next]_vars => StopInv'
<1> SUFFICES ASSUME StopInv, [Next]_vars PROVE StopInv'
  OBVIOUS
<1>1. CASE CallConnect \/ ConnectorStart
  BY <1>1 DEF CallConnect, ConnectorStart, StopInv
<1>2. CASE CallStop
  BY <1>2 DEF CallStop, StopInv, connectorVars, loopVars
<1>3. CASE Disconnect \/ ConnectorStop \/ StopQueued
  BY <1>3 DEF Disconnect, ConnectorStop, StopQueued, StopInv, connectorVars, clientVars, userVars, loopVars
<1>4. CASE Destroy
  BY <1>4 DEF Destroy, StopInv, userVars
<1>5. CASE Restart
  BY <1>5 DEF Restart, StopInv, userVars
<1>6. CASE RetryTimer \/ RunStart
  <2>1. UNCHANGED <<connect, clientConnect, restarting, user, stopped>>
    BY <1>6 DEF RetryTimer, RunStart, StartInLoop, clientVars, userVars, loopVars
  <2> QED BY <2>1 DEF StopInv
<1>7. CASE HandleFailure \/ HandleConnected \/ HandleUnwanted \/ RunStop
  <2>1. UNCHANGED <<connect, clientConnect, restarting, user, stopped>>
    BY <1>7 DEF HandleFailure, HandleConnected, HandleUnwanted, RunStop, StopInLoop, Failure,
                connectorVars, clientVars, userVars
  <2> QED BY <2>1 DEF StopInv
<1>8. CASE (\E c \in Conns : PeerCloses(c)) \/ RunForceClose
  <2>1. UNCHANGED <<connect, clientConnect, user, stopped>> /\ restarting' \in {restarting, clientConnect}
    BY <1>8 DEF PeerCloses, RunForceClose, RemoveConnection, Reconnects, connectorVars,
                clientVars, userVars
  <2> QED BY <2>1 DEF StopInv
<1>9. CASE \/ KeepAliveTimer \/ BeginFunctors \/ EndFunctors \/ ResetChannel \/ ConnectDestroyed
           \/ UNCHANGED vars
  <2>1. UNCHANGED <<connect, clientConnect, restarting, user, stopped>>
    BY <1>9 DEF KeepAliveTimer, BeginFunctors, EndFunctors, ResetChannel, ConnectDestroyed,
                vars, connectorVars, clientVars, userVars, loopVars
  <2> QED BY <2>1 DEF StopInv
<1> QED BY <1>1, <1>2, <1>3, <1>4, <1>5, <1>6, <1>7, <1>8, <1>9 DEF Next

(* A connection is made only while the Connector's flag is set.            *)
LEMMA OnlyWanted ==
    ASSUME [Next]_vars, ~connect
    PROVE  conns' \subseteq conns
<1>1. CASE CallConnect \/ ConnectorStart \/ Disconnect \/ CallStop \/ ConnectorStop \/ StopQueued \/ Destroy
  BY <1>1 DEF CallConnect, ConnectorStart, Disconnect, CallStop, ConnectorStop, StopQueued, Destroy, clientVars
<1>2. CASE RetryTimer \/ Restart \/ RunStart
  BY <1>2 DEF RetryTimer, Restart, RunStart, StartInLoop, clientVars
<1>3. CASE HandleFailure \/ HandleConnected \/ HandleUnwanted \/ RunStop
  BY <1>3 DEF HandleFailure, HandleConnected, HandleUnwanted, RunStop, StopInLoop, Failure, clientVars
<1>4. CASE (\E c \in Conns : PeerCloses(c)) \/ RunForceClose
  BY <1>4 DEF PeerCloses, RunForceClose, RemoveConnection, clientVars
<1>5. CASE \/ KeepAliveTimer \/ BeginFunctors \/ EndFunctors \/ ResetChannel \/ ConnectDestroyed
           \/ UNCHANGED vars
  BY <1>5 DEF KeepAliveTimer, BeginFunctors, EndFunctors, ResetChannel, ConnectDestroyed, vars, clientVars
<1> QED BY <1>1, <1>2, <1>3, <1>4, <1>5 DEF Next

(* Once stop() has returned, no step makes a connection until connect() is *)
(* called again: neither an attempt that succeeds late nor a retry timer   *)
(* nor removeConnection(), however often the client is started and         *)
(* stopped.  Only a stop() that restart() overtakes is excepted.           *)
THEOREM StopIsFinal == Spec => StopSticks
<1>1. Init => StopInv
  BY DEF Init, StopInv
<1>2. StopInv /\ [Next]_vars => [stopped = "yes" /\ user = "idle" => conns' \subseteq conns]_vars
  BY OnlyWanted DEF StopInv
<1> QED BY <1>1, <1>2, StopStep, PTL DEF Spec, StopSticks

-----------------------------------------------------------------------------
(* A client that connects once.                                            *)

(* The numbers in the invariant.                                           *)
LEMMA InvFacts ==
    ASSUME TypeOK
    PROVE  /\ timers \in Nat
           /\ Count(Queue, "start") \in Nat /\ (Has(Queue, "start") <=> Count(Queue, "start") # 0)
           /\ Count(Queue, "reset") \in Nat /\ (Has(Queue, "reset") <=> Count(Queue, "reset") # 0)
           /\ state \in {"disconnected", "connecting", "connected"}
           /\ channel \in {"none", "registered", "removed"}
           /\ connects \in Nat
           /\ Links \in Nat
<1>1. /\ timers \in Nat /\ state \in {"disconnected", "connecting", "connected"}
      /\ channel \in {"none", "registered", "removed"} /\ connects \in Nat
  BY BoundsAssumption DEF TypeOK
<1>2. /\ Count(Queue, "start") \in Nat /\ (Has(Queue, "start") <=> Count(Queue, "start") # 0)
      /\ Count(Queue, "reset") \in Nat /\ (Has(Queue, "reset") <=> Count(Queue, "reset") # 0)
  BY QueueFacts
<1>3. Links \in Nat
  BY <1>1, <1>2 DEF Links, One
<1> QED BY <1>1, <1>2, <1>3

(* connect(), disconnect() and stop() up to where they queue a functor.    *)
LEMMA SafeUser ==
    ASSUME TypeOK, SafeInv, MaxConnects <= 1,
           CallConnect \/ Disconnect \/ CallStop \/ ConnectorStop
    PROVE  SafeInv'
<1>0. ChainInv /\ ChannelInv /\ ConnInv /\ GoneInv /\ broken = {}
  BY DEF SafeInv
<1>1. UNCHANGED <<state, channel, timers, gaveUp, connection, conns, alive, keepAlive,
                  restarting, pending, batch, pc, fresh, broken>>
  BY DEF CallConnect, Disconnect, CallStop, ConnectorStop, connectorVars, clientVars, loopVars
<1>2. Queue' = Queue /\ Links' = Links
  BY <1>1 DEF Queue, Links
<1>3. ChannelInv' /\ ConnInv' /\ broken' = {}
  BY <1>0, <1>1, <1>2 DEF ChannelInv, ConnInv
<1>4. GoneInv' /\ alive
  <2>1. alive
    BY <1>0 DEF CallConnect, Disconnect, CallStop, ConnectorStop, GoneInv
  <2> QED BY <1>1, <2>1 DEF GoneInv
<1>5. ChainInv'
  <2>1. CASE CallConnect
    <3>1. connects = 0 /\ connects' = 1 /\ user' = "connect" /\ connect' = connect
      BY <2>1, InvFacts, BoundsAssumption DEF CallConnect, connectorVars
    <3> QED BY <1>0, <1>1, <1>2, <3>1 DEF ChainInv
  <2>2. CASE Disconnect \/ CallStop \/ ConnectorStop
    <3>1. /\ connects' = connects /\ (user' = "connect" => user = "connect")
          /\ connect' => connect
      BY <2>2 DEF Disconnect, CallStop, ConnectorStop, connectorVars, userVars
    <3> QED BY <1>0, <1>1, <1>2, <3>1 DEF ChainInv
  <2> QED BY <2>1, <2>2
<1> QED BY <1>3, <1>4, <1>5 DEF SafeInv

(* Connector::start() queues startInLoop().                                *)
LEMMA SafeStart ==
    ASSUME TypeOK, SafeInv, ConnectorStart
    PROVE  SafeInv'
<1>0. ChainInv /\ ChannelInv /\ ConnInv /\ GoneInv /\ broken = {}
  BY DEF SafeInv
<1>1. /\ UNCHANGED <<state, channel, timers, gaveUp, connection, conns, alive, keepAlive,
                     restarting, batch, pc, fresh, broken, connects>>
      /\ user = "connect" /\ user' = "idle" /\ pending' = Append(pending, Functor("start"))
  BY DEF ConnectorStart, connectorVars, clientVars, userVars
<1>2. PICK x \in Functors : x = Functor("start") /\ x.f = "start"
  BY FunctorFacts
<1>3. /\ \A n : Count(Queue', n) = Count(Queue, n) + One(x.f = n)
      /\ \A n : Has(Queue', n) <=> Has(Queue, n) \/ x.f = n
      /\ \A n : Has(pending', n) <=> Has(pending, n) \/ x.f = n
      /\ \A C : Ordered(Queue, C) /\ (x.f # "reset" \/ C = {}) => Ordered(Queue', C)
  BY <1>1, <1>2, Adds
<1>4. /\ Count(Queue', "start") = Count(Queue, "start") + 1
      /\ Count(Queue', "reset") = Count(Queue, "reset")
      /\ Has(pending', "reset") <=> Has(pending, "reset")
      /\ Ordered(Queue', conns) <=> TRUE
  BY <1>0, <1>2, <1>3, InvFacts DEF One, ChannelInv
<1>5. Links = 0 /\ channel = "none" /\ connects # 0 /\ alive
  BY <1>0, <1>1 DEF ChainInv, GoneInv
<1>6. Links' = 1
  BY <1>1, <1>4, <1>5, InvFacts DEF Links, One
<1>7. ChainInv'
  BY <1>1, <1>5, <1>6 DEF ChainInv
<1>8. ChannelInv'
  BY <1>0, <1>1, <1>4 DEF ChannelInv
<1>9. ConnInv' /\ GoneInv' /\ broken' = {}
  BY <1>0, <1>1, <1>5 DEF ConnInv, GoneInv
<1> QED BY <1>7, <1>8, <1>9 DEF SafeInv

(* Connector::stop() queues stopInLoop().                                  *)
LEMMA SafeStop ==
    ASSUME TypeOK, SafeInv, StopQueued
    PROVE  SafeInv'
<1>0. ChainInv /\ ChannelInv /\ ConnInv /\ GoneInv /\ broken = {}
  BY DEF SafeInv
<1>1. /\ UNCHANGED <<connect, state, channel, timers, gaveUp, connection, conns, alive, keepAlive,
                     restarting, batch, pc, fresh, broken, connects>>
      /\ user = "stopping" /\ user' = "idle" /\ pending' = Append(pending, Functor("stop"))
  BY DEF StopQueued, connectorVars, clientVars, userVars
<1>2. PICK x \in Functors : x = Functor("stop") /\ x.f = "stop"
  BY FunctorFacts
<1>3. /\ \A n : Count(Queue', n) = Count(Queue, n) + One(x.f = n)
      /\ \A n : Has(Queue', n) <=> Has(Queue, n) \/ x.f = n
      /\ \A n : Has(pending', n) <=> Has(pending, n) \/ x.f = n
      /\ \A C : Ordered(Queue, C) /\ (x.f # "reset" \/ C = {}) => Ordered(Queue', C)
  BY <1>1, <1>2, Adds
<1>4. /\ Count(Queue', "start") = Count(Queue, "start")
      /\ Count(Queue', "reset") = Count(Queue, "reset")
      /\ Has(Queue', "start") <=> Has(Queue, "start")
      /\ Has(pending', "reset") <=> Has(pending, "reset")
      /\ Ordered(Queue', conns) <=> TRUE
  BY <1>0, <1>2, <1>3, InvFacts DEF One, ChannelInv
<1>5. Links' = Links /\ alive
  BY <1>0, <1>1, <1>4 DEF Links, GoneInv
<1>7. ChainInv'
  BY <1>0, <1>1, <1>4, <1>5 DEF ChainInv
<1>8. ChannelInv'
  BY <1>0, <1>1, <1>4 DEF ChannelInv
<1>9. ConnInv' /\ GoneInv' /\ broken' = {}
  BY <1>0, <1>1, <1>5 DEF ConnInv, GoneInv
<1> QED BY <1>7, <1>8, <1>9 DEF SafeInv

(* ~TcpClient().                                                           *)
LEMMA SafeDestroy ==
    ASSUME TypeOK, SafeInv, Destroy
    PROVE  SafeInv'
<1>0. ChainInv /\ ChannelInv /\ ConnInv /\ GoneInv /\ broken = {}
  BY DEF SafeInv
<1>1. /\ UNCHANGED <<state, channel, timers, gaveUp, connection, conns,
                     restarting, batch, pc, fresh, broken, connects, user>>
      /\ user = "idle" /\ alive /\ ~alive' /\ ~restarting
  BY DEF Destroy, userVars
<1>2. CASE /\ connect' = FALSE /\ keepAlive' = TRUE
           /\ pending' = Append(pending, Functor("stop"))
  <2>1. PICK x \in Functors : x = Functor("stop") /\ x.f = "stop"
    BY FunctorFacts
  <2>2. /\ \A n : Count(Queue', n) = Count(Queue, n) + One(x.f = n)
        /\ \A n : Has(Queue', n) <=> Has(Queue, n) \/ x.f = n
        /\ \A n : Has(pending', n) <=> Has(pending, n) \/ x.f = n
        /\ \A C : Ordered(Queue, C) /\ (x.f # "reset" \/ C = {}) => Ordered(Queue', C)
    BY <1>1, <1>2, <2>1, Adds
  <2>3. /\ Count(Queue', "start") = Count(Queue, "start")
        /\ Count(Queue', "reset") = Count(Queue, "reset")
        /\ Has(Queue', "start") <=> Has(Queue, "start")
        /\ Has(Queue', "stop")
        /\ Has(pending', "reset") <=> Has(pending, "reset")
        /\ Ordered(Queue', conns)
    BY <1>0, <2>1, <2>2, InvFacts DEF One, ChannelInv
  <2>4. Links' = Links
    BY <1>1, <2>3 DEF Links
  <2>5. ChainInv'
    BY <1>0, <1>1, <1>2, <2>3, <2>4 DEF ChainInv
  <2>6. ChannelInv'
    BY <1>0, <1>1, <2>3 DEF ChannelInv
  <2>7. ConnInv' /\ GoneInv' /\ broken' = {}
    BY <1>0, <1>1, <1>2, <2>3 DEF ConnInv, GoneInv
  <2> QED BY <2>5, <2>6, <2>7 DEF SafeInv
<1>3. CASE /\ connection # {} /\ ConnectorQueued = {}
           /\ \E c \in connection, unique \in BOOLEAN :
                 pending' = IF unique THEN Append(pending, ConnFunctor("forceClose", c))
                                      ELSE pending
           /\ UNCHANGED <<connect, keepAlive>>
  <2>1. ~Has(Queue, "start") /\ ~Has(Queue, "stop") /\ ~Has(Queue, "reset")
    BY <1>3 DEF ConnectorQueued, Queued, Has
  <2>2. state = "connected" /\ channel = "none"
    <3>1. conns # {}
      BY <1>0, <1>1, <1>3 DEF ConnInv
    <3> QED BY <1>0, <2>1, <3>1, InvFacts DEF ConnInv, ChannelInv, One
  <2>3. /\ Count(Queue', "start") = Count(Queue, "start")
        /\ Count(Queue', "reset") = Count(Queue, "reset")
        /\ \A n \in {"start", "stop", "reset"} : Has(Queue', n) <=> Has(Queue, n)
        /\ Has(pending', "reset") <=> Has(pending, "reset")
        /\ Ordered(Queue', conns)
    <3>1. CASE pending' = pending
      BY <1>0, <1>1, <3>1 DEF Queue, ChannelInv
    <3>2. CASE pending' # pending
      <4>1. PICK c \in connection : pending' = Append(pending, ConnFunctor("forceClose", c))
        BY <1>3, <3>2
      <4>2. PICK x \in Functors : x = ConnFunctor("forceClose", c) /\ x.f = "forceClose"
        <5>1. c \in Conns
          BY DEF TypeOK
        <5> QED BY <5>1, FunctorFacts
      <4>3. /\ \A n : Count(Queue', n) = Count(Queue, n) + One(x.f = n)
            /\ \A n : Has(Queue', n) <=> Has(Queue, n) \/ x.f = n
            /\ \A n : Has(pending', n) <=> Has(pending, n) \/ x.f = n
            /\ \A C : Ordered(Queue, C) /\ (x.f # "reset" \/ C = {}) => Ordered(Queue', C)
        BY <1>1, <4>1, <4>2, Adds
      <4> QED BY <1>0, <4>2, <4>3, InvFacts DEF One, ChannelInv
    <3> QED BY <3>1, <3>2
  <2>4. Links' = Links
    BY <1>1, <2>3 DEF Links
  <2>5. ChainInv'
    BY <1>0, <1>1, <1>3, <2>3, <2>4 DEF ChainInv
  <2>6. ChannelInv'
    BY <1>0, <1>1, <2>3 DEF ChannelInv
  <2>7. ConnInv' /\ GoneInv' /\ broken' = {}
    BY <1>0, <1>1, <1>3, <2>1, <2>2, <2>3 DEF ConnInv, GoneInv
  <2> QED BY <2>5, <2>6, <2>7 DEF SafeInv
<1> QED BY <1>2, <1>3 DEF Destroy

(* startInLoop() when it may: nothing else is under way.                   *)
LEMMA ConnectSafe ==
    ASSUME NEW d, NEW set, Connect("disconnected", d, set), channel = "none", broken = {}
    PROVE  /\ broken' = {}
           /\ \/ state' = "connecting" /\ channel' = "registered" /\ timers' = set /\ gaveUp' = gaveUp
              \/ state' = "disconnected" /\ channel' = "none" /\ timers' = set + 1 /\ gaveUp' = gaveUp
              \/ state' = "disconnected" /\ channel' = "none" /\ timers' = set /\ gaveUp' = TRUE
<1>1. broken' = {}
  BY DEF Connect, Assert
<1>2. \/ state' = "connecting" /\ channel' = "registered" /\ timers' = set /\ gaveUp' = gaveUp
      \/ state' = "disconnected" /\ channel' = "none" /\ timers' = set + 1 /\ gaveUp' = gaveUp
      \/ state' = "disconnected" /\ channel' = "none" /\ timers' = set /\ gaveUp' = TRUE
  BY DEF Connect, Retry
<1> QED BY <1>1, <1>2

(* The state in which the loop calls startInLoop(): it is the one link of  *)
(* the chain, and no channel is left of the attempt before.                *)
LEMMA StartReady ==
    ASSUME TypeOK, SafeInv, RetryTimer \/ RunStart \/ Restart
    PROVE  /\ channel = "none" /\ conns = {} /\ connects # 0 /\ user # "connect"
           /\ state # "connecting"
           /\ ~Restart => state = "disconnected" /\ ~restarting
           /\ Count(Queue', "start") = 0 /\ Count(Queue', "reset") = 0
           /\ ~Has(Queue', "start")
           /\ Has(Queue', "stop") <=> Has(Queue, "stop")
           /\ Restart => timers = 0 /\ alive
           /\ RunStart => timers = 0 /\ Has(Queue, "start")
           /\ RetryTimer => timers = 1
<1>0. ChainInv /\ ChannelInv /\ ConnInv /\ GoneInv /\ broken = {}
  BY DEF SafeInv
<1>1. CASE RetryTimer
  <2>1. timers > 0 /\ Queue = <<>> /\ ~restarting /\ UNCHANGED <<batch, pending>>
    BY <1>1 DEF RetryTimer, Handling, loopVars
  <2>2. \A n : ~Has(Queue, n)
    BY <2>1 DEF Has
  <2>3. timers = 1 /\ state = "disconnected" /\ Count(Queue, "start") = 0 /\ Links # 0
    BY <1>0, <2>1, InvFacts DEF ChainInv, Links, One
  <2>4. channel = "none" /\ conns = {} /\ Count(Queue, "reset") = 0
    BY <1>0, <2>2, <2>3, InvFacts DEF ChannelInv, ConnInv, One
  <2>5. connects # 0 /\ user # "connect"
    BY <1>0, <2>3 DEF ChainInv
  <2>6. Queue' = Queue
    BY <2>1 DEF Queue
  <2>7. ~Restart /\ ~RunStart
    BY <2>1, ConcatFacts, QueueFacts DEF Restart, RunStart, RunFunctor, Queue, TypeOK
  <2> QED BY <2>1, <2>2, <2>3, <2>4, <2>5, <2>6, <2>7
<1>2. CASE RunStart
  <2>1. /\ batch # <<>> /\ batch' = Tail(batch) /\ pending' = pending
        /\ Head(batch).f = "start" /\ ~restarting
    BY <1>2 DEF RunStart, RunFunctor
  <2>2. /\ Queue' \in Seq(Functors)
        /\ \A n : Count(Queue', n) + One(Head(batch).f = n) = Count(Queue, n)
        /\ \A n : Has(Queue, n) <=> Has(Queue', n) \/ Head(batch).f = n
    BY <2>1, Takes
  <2>3. /\ Count(Queue', "start") + 1 = Count(Queue, "start") /\ Has(Queue, "start")
        /\ Count(Queue', "reset") = Count(Queue, "reset")
        /\ Has(Queue', "stop") <=> Has(Queue, "stop")
        /\ Count(Queue', "start") \in Nat
        /\ Has(Queue', "start") => Count(Queue', "start") # 0
    <3>1. \A n : Count(Queue', n) \in Nat /\ (Count(Queue', n) = 0 <=> ~Has(Queue', n))
      BY <2>2, CountFacts
    <3> QED BY <2>1, <2>2, <3>1 DEF One
  <2>4. timers = 0 /\ state = "disconnected" /\ Count(Queue', "start") = 0 /\ Links # 0
    BY <1>0, <2>3, InvFacts DEF ChainInv, Links, One
  <2>5. channel = "none" /\ conns = {} /\ Count(Queue', "reset") = 0
    BY <1>0, <2>3, <2>4 DEF ChainInv, ChannelInv, ConnInv, One
  <2>6. connects # 0 /\ user # "connect"
    BY <1>0, <2>4 DEF ChainInv
  <2>7. ~Restart /\ ~RetryTimer
    BY <1>2, <2>1 DEF Restart, RetryTimer, Handling, RunStart, RunFunctor
  <2> QED BY <2>1, <2>3, <2>4, <2>5, <2>6, <2>7
<1>3. CASE Restart
  <2>1. restarting /\ UNCHANGED <<batch, pending>>
    BY <1>3 DEF Restart
  <2>2. alive /\ state = "connected" /\ channel = "none" /\ conns = {}
    BY <1>0, <2>1 DEF ConnInv
  <2>3. timers = 0 /\ Count(Queue, "start") = 0 /\ Links # 0 /\ ~Has(Queue, "start")
    BY <1>0, <2>2, InvFacts DEF ChainInv, Links, One
  <2>4. Count(Queue, "reset") = 0 /\ connects # 0 /\ user # "connect"
    BY <1>0, <2>2, <2>3 DEF ChainInv, ChannelInv, One
  <2>5. Queue' = Queue
    BY <2>1 DEF Queue
  <2>6. ~RunStart /\ ~RetryTimer
    BY <2>1 DEF RunStart, RunFunctor, RetryTimer, Handling
  <2> QED BY <2>2, <2>3, <2>4, <2>5, <2>6, <1>3
<1> QED BY <1>1, <1>2, <1>3

(* startInLoop(), from connect(), a retry timer or restart().              *)
LEMMA SafeConnect ==
    ASSUME TypeOK, SafeInv, RetryTimer \/ RunStart \/ Restart
    PROVE  SafeInv'
<1>0. ChainInv /\ ChannelInv /\ ConnInv /\ GoneInv /\ broken = {}
  BY DEF SafeInv
<1>1. /\ channel = "none" /\ conns = {} /\ connects # 0 /\ user # "connect"
      /\ state # "connecting"
      /\ ~Restart => state = "disconnected" /\ ~restarting
      /\ Count(Queue', "start") = 0 /\ Count(Queue', "reset") = 0
      /\ ~Has(Queue', "start")
      /\ Has(Queue', "stop") <=> Has(Queue, "stop")
      /\ Restart => timers = 0 /\ alive
      /\ RunStart => timers = 0 /\ Has(Queue, "start")
      /\ RetryTimer => timers = 1
  BY StartReady
<1>2. /\ UNCHANGED <<connection, conns, alive, keepAlive, user, connects, pc, pending, fresh>>
      /\ ~restarting'
  BY <1>1 DEF RetryTimer, RunStart, Restart, StartInLoop, clientVars, userVars, loopVars
<1>3. /\ connect' => \/ state' = "connecting" /\ channel' = "registered" /\ timers' = 0
                     \/ state' = "disconnected" /\ channel' = "none" /\ timers' = 1
                     \/ state' = "disconnected" /\ channel' = "none" /\ timers' = 0 /\ gaveUp'
      /\ ~connect' => state' = "disconnected" /\ channel' = "none" /\ timers' = 0
      /\ broken' = {}
      /\ connect' => alive
  <2>1. CASE Restart
    <3>1. Connect("disconnected", InitRetryDelay, 0) /\ connect' = TRUE
      BY <1>1, <2>1 DEF Restart
    <3>2. /\ broken' = {}
          /\ \/ state' = "connecting" /\ channel' = "registered" /\ timers' = 0
             \/ state' = "disconnected" /\ channel' = "none" /\ timers' = 0 + 1
             \/ state' = "disconnected" /\ channel' = "none" /\ timers' = 0 /\ gaveUp'
      BY <1>0, <1>1, <3>1, ConnectSafe, Zenon
    <3> QED BY <1>1, <2>1, <3>1, <3>2
  <2>2. CASE RetryTimer \/ RunStart
    <3>1. state = "disconnected" /\ StartInLoop(0)
      <4>1. CASE RetryTimer
        <5>1. timers = 1 /\ StartInLoop(timers - 1) /\ ~Restart
          BY <1>1, <4>1 DEF RetryTimer, Restart, Handling
        <5> QED BY <1>1, <5>1
      <4>2. CASE RunStart
        <5>1. timers = 0 /\ StartInLoop(timers) /\ ~Restart
          BY <1>1, <4>2 DEF RunStart, RunFunctor, Restart
        <5> QED BY <1>1, <5>1
      <4> QED BY <2>2, <4>1, <4>2
    <3>2. connect' = connect
      BY <3>1 DEF StartInLoop
    <3>3. connect => alive
      BY <1>0, <3>1 DEF GoneInv
    <3>4. CASE connect
      <4>1. Connect("disconnected", retryDelay, 0)
        BY <3>1, <3>4 DEF StartInLoop
      <4>2. /\ broken' = {}
            /\ \/ state' = "connecting" /\ channel' = "registered" /\ timers' = 0
               \/ state' = "disconnected" /\ channel' = "none" /\ timers' = 0 + 1
               \/ state' = "disconnected" /\ channel' = "none" /\ timers' = 0 /\ gaveUp'
        BY <1>0, <1>1, <4>1, ConnectSafe, Zenon
      <4> QED BY <3>2, <3>3, <3>4, <4>2
    <3>5. CASE ~connect
      BY <1>0, <1>1, <3>1, <3>2, <3>5 DEF StartInLoop, Assert
    <3> QED BY <3>4, <3>5
  <2> QED BY <2>1, <2>2
<1>4. Links' <= 1 /\ (connect' /\ ~gaveUp' => Links' = 1)
  <2>1. timers' \in {0, 1} /\ (state' = "connecting" => timers' = 0)
        /\ state' \in {"connecting", "disconnected"}
    BY <1>3
  <2>2. Links' <= 1 /\ (timers' = 1 \/ state' = "connecting" => Links' = 1)
    BY <1>1, <2>1 DEF Links, One
  <2> QED BY <1>3, <2>2
<1>5. ChainInv'
  BY <1>1, <1>2, <1>4 DEF ChainInv
<1>6. ChannelInv'
  <2>1. Ordered(Queue', {})
    BY OrderedFacts
  <2> QED BY <1>1, <1>2, <1>3, <2>1 DEF ChannelInv, One
<1>7. ConnInv'
  BY <1>0, <1>1, <1>2, <1>3 DEF ConnInv
<1>8. GoneInv'
  BY <1>0, <1>1, <1>2, <1>3 DEF GoneInv
<1> QED BY <1>3, <1>5, <1>6, <1>7, <1>8 DEF SafeInv

(* The attempt is the one link of the chain.                               *)
LEMMA AttemptFacts ==
    ASSUME TypeOK, SafeInv, state = "connecting"
    PROVE  /\ timers = 0 /\ Count(Queue, "start") = 0 /\ Count(Queue, "reset") = 0
           /\ ~Has(Queue, "start")
           /\ conns = {} /\ connects # 0 /\ user # "connect" /\ ~restarting
           /\ ~alive => keepAlive /\ ~connect
<1>0. ChainInv /\ ChannelInv /\ ConnInv /\ GoneInv /\ broken = {}
  BY DEF SafeInv
<1>1. timers = 0 /\ Count(Queue, "start") = 0 /\ Links # 0 /\ ~Has(Queue, "start")
  BY <1>0, InvFacts DEF ChainInv, Links, One
<1>2. Count(Queue, "reset") = 0
  BY <1>0 DEF ChannelInv, One
<1>3. conns = {} /\ ~restarting /\ connects # 0 /\ user # "connect"
  BY <1>0, <1>1 DEF ChainInv, ConnInv
<1>4. ~alive => keepAlive /\ ~connect
  BY <1>0 DEF GoneInv
<1> QED BY <1>1, <1>2, <1>3, <1>4

(* An attempt that ends without a connection.                              *)
LEMMA SafeEnds ==
    ASSUME TypeOK, SafeInv, state = "connecting",
           UNCHANGED <<connect, gaveUp, connection, conns, alive, keepAlive, user, connects, restarting, broken>>,
           channel' = "removed",
           \/ state' = "disconnected" /\ timers' = timers + One(connect)
           \/ state' = "connected" /\ timers' = timers,
           Count(Queue', "start") = Count(Queue, "start"),
           Count(Queue', "reset") = Count(Queue, "reset") + 1,
           Has(Queue', "start") <=> Has(Queue, "start")
    PROVE  SafeInv'
<1>0. ChainInv /\ ChannelInv /\ ConnInv /\ GoneInv /\ broken = {}
  BY DEF SafeInv
<1>1. /\ timers = 0 /\ Count(Queue, "start") = 0 /\ Count(Queue, "reset") = 0
      /\ ~Has(Queue, "start")
      /\ conns = {} /\ connects # 0 /\ user # "connect" /\ ~restarting
      /\ ~alive => keepAlive /\ ~connect
  BY AttemptFacts
<1>2. Links' <= 1 /\ (connect => Links' = 1)
  BY <1>1 DEF Links, One
<1>3. ChainInv'
  BY <1>1, <1>2 DEF ChainInv
<1>4. ChannelInv'
  <2>1. Ordered(Queue', {})
    BY OrderedFacts
  <2> QED BY <1>1, <2>1 DEF ChannelInv, One
<1>5. ConnInv' /\ GoneInv' /\ broken' = {}
  BY <1>0, <1>1 DEF ConnInv, GoneInv
<1> QED BY <1>3, <1>4, <1>5 DEF SafeInv

(* handleError(), a stop() during an attempt, and a connection made after  *)
(* stop().                                                                 *)
LEMMA SafeFailure ==
    ASSUME TypeOK, SafeInv, HandleFailure \/ HandleUnwanted \/ RunStop
    PROVE  SafeInv'
<1>0. ChainInv /\ ChannelInv /\ ConnInv /\ GoneInv /\ broken = {}
  BY DEF SafeInv
<1>1. /\ UNCHANGED <<connect, gaveUp, connection, conns, alive, keepAlive, user, connects,
                     restarting, broken, pc, fresh>>
      /\ FlagsOK /\ ValuesOK /\ QueuesOK
  BY TypeParts DEF HandleFailure, HandleUnwanted, RunStop, StopInLoop, Failure, connectorVars,
                   clientVars, userVars
<1>2. PICK x \in Functors : x = Functor("reset") /\ x.f = "reset"
  BY <1>1, ResetQueued
<1>3. CASE HandleFailure \/ HandleUnwanted
  <2>1. /\ state = "connecting" /\ channel' = "removed" /\ batch' = batch
        /\ pending' = Append(pending, x)
        /\ \/ state' = "disconnected" /\ timers' = timers + One(connect)
           \/ state' = "connected" /\ timers' = timers
    BY <1>1, <1>2, <1>3, FailureTypes, ResetQueued DEF HandleFailure, HandleUnwanted, RemoveAndReset
  <2>2. /\ \A n : Count(Queue', n) = Count(Queue, n) + One(x.f = n)
        /\ \A n : Has(Queue', n) <=> Has(Queue, n) \/ x.f = n
    BY <2>1, Adds
  <2>3. /\ Count(Queue', "start") = Count(Queue, "start")
        /\ Count(Queue', "reset") = Count(Queue, "reset") + 1
        /\ Has(Queue', "start") <=> Has(Queue, "start")
    BY <1>2, <2>2, InvFacts DEF One
  <2> QED BY <1>1, <2>1, <2>3, SafeEnds
<1>4. CASE RunStop /\ state = "connecting"
  <2>1. /\ state = "connecting" /\ channel' = "removed" /\ state' = "disconnected"
        /\ batch # <<>> /\ batch' = Tail(batch) /\ Head(batch).f = "stop"
        /\ pending' = Append(pending, x) /\ timers' = timers + One(connect)
    BY <1>1, <1>2, <1>4, FailureTypes, ResetQueued DEF RunStop, StopInLoop, RunFunctor
  <2>2. /\ Queue' \in Seq(Functors)
        /\ \A n : Count(Queue', n) + One(Head(batch).f = n) = Count(Queue, n) + One(x.f = n)
        /\ \A n : Has(Queue', n) \/ Head(batch).f = n <=> Has(Queue, n) \/ x.f = n
                                                          \/ Head(batch).f = n
    BY <2>1, TakesAndAdds
  <2>3. \A n : Count(Queue', n) \in Nat
    BY <2>2, CountFacts
  <2>4. /\ Count(Queue', "start") = Count(Queue, "start")
        /\ Count(Queue', "reset") = Count(Queue, "reset") + 1
        /\ Has(Queue', "start") <=> Has(Queue, "start")
    BY <1>2, <2>1, <2>2, <2>3, InvFacts DEF One
  <2> QED BY <1>1, <2>1, <2>4, SafeEnds
<1>5. CASE RunStop /\ state # "connecting"
  <2>1. /\ UNCHANGED <<state, channel, timers, pending>>
        /\ batch # <<>> /\ batch' = Tail(batch) /\ Head(batch).f = "stop"
    BY <1>5 DEF RunStop, StopInLoop, RunFunctor, connectorVars
  <2>2. /\ Queue' \in Seq(Functors)
        /\ \A n : Count(Queue', n) + One(Head(batch).f = n) = Count(Queue, n)
        /\ \A n : Has(Queue, n) <=> Has(Queue', n) \/ Head(batch).f = n
        /\ \A C : Ordered(Queue, C) => Ordered(Queue', C)
    BY <2>1, Takes
  <2>3. \A n : Count(Queue', n) \in Nat
    BY <2>2, CountFacts
  <2>4. /\ Count(Queue', "start") = Count(Queue, "start")
        /\ Count(Queue', "reset") = Count(Queue, "reset")
        /\ Has(Queue', "start") <=> Has(Queue, "start")
        /\ Has(Queue', "stop") => Has(Queue, "stop")
        /\ Ordered(Queue', conns)
    BY <1>0, <2>1, <2>2, <2>3, InvFacts DEF One, ChannelInv
  <2>5. Links' = Links
    BY <2>1, <2>4 DEF Links
  <2>6. ChainInv'
    BY <1>0, <1>1, <2>1, <2>4, <2>5 DEF ChainInv
  <2>7. ChannelInv'
    BY <1>0, <1>1, <2>1, <2>4 DEF ChannelInv
  <2>8. ConnInv' /\ GoneInv' /\ broken' = {}
    BY <1>0, <1>1, <1>5, <2>1, <2>4 DEF ConnInv, GoneInv
  <2> QED BY <2>6, <2>7, <2>8 DEF SafeInv
<1> QED BY <1>3, <1>4, <1>5

(* newConnection().                                                        *)
LEMMA SafeConnected ==
    ASSUME TypeOK, SafeInv, HandleConnected
    PROVE  SafeInv'
<1>0. ChainInv /\ ChannelInv /\ ConnInv /\ GoneInv /\ broken = {}
  BY DEF SafeInv
<1>1. /\ UNCHANGED <<connect, timers, gaveUp, alive, keepAlive, user, connects, pc, restarting, broken>>
      /\ state = "connecting" /\ state' = "connected" /\ connect /\ pc = "events"
  BY DEF HandleConnected, Handling, userVars
<1>2. PICK c \in FreeConns :
          /\ connection' = {c} /\ conns' = conns \cup {c} /\ fresh' = {c}
          /\ channel' = "removed"
          /\ \A n : n # "forceClose" =>
                   /\ Count(Queue', n) = Count(Queue, n) + One(n = "reset")
                   /\ Has(Queue', n) <=> Has(Queue, n) \/ n = "reset"
          /\ Ordered(Queue', {c})
  BY ConnectedQueue
<1>3. /\ timers = 0 /\ Count(Queue, "start") = 0 /\ Count(Queue, "reset") = 0
      /\ ~Has(Queue, "start")
      /\ conns = {} /\ connects # 0 /\ user # "connect" /\ ~restarting
      /\ alive
  BY <1>1, AttemptFacts
<1>4. /\ Count(Queue', "start") = 0 /\ Count(Queue', "reset") = 1 /\ ~Has(Queue', "start")
      /\ conns' = {c}
  BY <1>2, <1>3 DEF One
<1>5. Links' = 1
  BY <1>1, <1>3, <1>4 DEF Links, One
<1>6. ChainInv'
  BY <1>1, <1>3, <1>4, <1>5 DEF ChainInv
<1>7. ChannelInv'
  BY <1>1, <1>2, <1>4 DEF ChannelInv, One
<1>8. ConnInv' /\ GoneInv' /\ broken' = {}
  BY <1>0, <1>1, <1>2, <1>3, <1>4 DEF ConnInv, GoneInv
<1> QED BY <1>6, <1>7, <1>8 DEF SafeInv

(* removeConnection(): the assertion holds, and restart() will find the    *)
(* channel deleted.                                                        *)
LEMMA SafeRemove ==
    ASSUME TypeOK, SafeInv, NEW c \in conns, RemoveConnection(c), ~restarting,
           channel # "removed",
           Count(Queue', "start") = Count(Queue, "start"),
           Count(Queue', "reset") = Count(Queue, "reset"),
           Has(Queue', "start") <=> Has(Queue, "start"),
           Has(Queue', "stop") <=> Has(Queue, "stop")
    PROVE  SafeInv'
<1>0. ChainInv /\ ChannelInv /\ ConnInv /\ GoneInv /\ broken = {}
  BY DEF SafeInv
<1>1. /\ UNCHANGED <<connect, state, channel, timers, gaveUp, alive, keepAlive, user, connects>>
      /\ conns' = conns \ {c}
  BY DEF RemoveConnection, connectorVars, userVars
<1>2. state = "connected" /\ channel = "none" /\ conns = {c} /\ conns' = {}
  BY <1>0, <1>1, InvFacts DEF ConnInv, ChannelInv
<1>3. /\ alive => connection = {c} /\ connection' = {}
      /\ ~alive => ~restarting'
      /\ broken' = {}
  BY <1>0, <1>2 DEF RemoveConnection, Assert, ConnInv
<1>4. Links' = Links
  BY <1>1 DEF Links
<1>5. ChainInv'
  BY <1>0, <1>1, <1>4 DEF ChainInv
<1>6. ChannelInv'
  <2>1. Ordered(Queue', {})
    BY OrderedFacts
  <2> QED BY <1>0, <1>1, <1>2, <2>1 DEF ChannelInv
<1>7. ConnInv' /\ GoneInv'
  BY <1>0, <1>1, <1>2, <1>3 DEF ConnInv, GoneInv
<1> QED BY <1>3, <1>5, <1>6, <1>7 DEF SafeInv

(* A functor that changes nothing but the queue.                           *)
LEMMA SafeTakes ==
    ASSUME TypeOK, SafeInv, batch # <<>>, batch' = Tail(batch),
           Head(batch).f \notin {"start", "stop", "reset"},
           UNCHANGED <<connect, state, channel, timers, gaveUp, connection, conns, alive, keepAlive,
                       restarting, pending, pc, fresh, broken, user, connects>>
    PROVE  SafeInv'
<1>0. ChainInv /\ ChannelInv /\ ConnInv /\ GoneInv /\ broken = {}
  BY DEF SafeInv
<1>1. /\ Queue' \in Seq(Functors)
      /\ \A n : Count(Queue', n) + One(Head(batch).f = n) = Count(Queue, n)
      /\ \A n : Has(Queue, n) <=> Has(Queue', n) \/ Head(batch).f = n
      /\ \A C : Ordered(Queue, C) => Ordered(Queue', C)
  BY Takes
<1>2. \A n : Count(Queue', n) \in Nat
  BY <1>1, CountFacts
<1>3. /\ Count(Queue', "start") = Count(Queue, "start")
      /\ Count(Queue', "reset") = Count(Queue, "reset")
      /\ Has(Queue', "start") <=> Has(Queue, "start")
      /\ Has(Queue', "stop") <=> Has(Queue, "stop")
      /\ Ordered(Queue', conns)
  BY <1>0, <1>1, <1>2, InvFacts DEF One, ChannelInv
<1>4. Links' = Links
  BY <1>3 DEF Links
<1>5. ChainInv'
  BY <1>0, <1>3, <1>4 DEF ChainInv
<1>6. ChannelInv'
  BY <1>0, <1>3 DEF ChannelInv
<1>7. ConnInv' /\ GoneInv' /\ broken' = {}
  BY <1>0, <1>3 DEF ConnInv, GoneInv
<1> QED BY <1>5, <1>6, <1>7 DEF SafeInv

(* A connection that the peer closes, or forceClose().                     *)
LEMMA SafeClose ==
    ASSUME TypeOK, SafeInv, (\E c \in Conns : PeerCloses(c)) \/ RunForceClose
    PROVE  SafeInv'
<1>0. ChainInv /\ ChannelInv /\ ConnInv /\ GoneInv /\ broken = {} /\ FlagsOK /\ ValuesOK
  BY TypeParts DEF SafeInv
<1>1. ASSUME NEW c \in Conns, PeerCloses(c) PROVE SafeInv'
  <2>1. c \in conns /\ RemoveConnection(c) /\ ~restarting /\ batch' = batch /\ channel # "removed"
    BY <1>0, <1>1 DEF PeerCloses, Handling, ChannelInv
  <2>2. PICK x \in Functors : x.f = "connectDestroyed" /\ pending' = Append(pending, x)
    BY <1>0, <2>1, RemovedTypes
  <2>3. /\ \A n : Count(Queue', n) = Count(Queue, n) + One(x.f = n)
        /\ \A n : Has(Queue', n) <=> Has(Queue, n) \/ x.f = n
    BY <2>1, <2>2, Adds
  <2>4. /\ Count(Queue', "start") = Count(Queue, "start")
        /\ Count(Queue', "reset") = Count(Queue, "reset")
        /\ Has(Queue', "start") <=> Has(Queue, "start")
        /\ Has(Queue', "stop") <=> Has(Queue, "stop")
    BY <2>2, <2>3, InvFacts DEF One
  <2> QED BY <2>1, <2>4, SafeRemove
<1>2. ASSUME RunForceClose, NEW c \in Head(batch).of \cap conns, RemoveConnection(c) PROVE SafeInv'
  <2>1. /\ c \in conns /\ ~restarting /\ Head(batch).of \cap conns # {}
        /\ batch # <<>> /\ batch' = Tail(batch) /\ Head(batch).f = "forceClose"
    BY <1>2 DEF RunForceClose, RunFunctor
  <2>2. PICK x \in Functors : x.f = "connectDestroyed" /\ pending' = Append(pending, x)
    BY <1>0, <1>2, <2>1, RemovedTypes
  <2>3. /\ Queue' \in Seq(Functors)
        /\ \A n : Count(Queue', n) + One(Head(batch).f = n) = Count(Queue, n) + One(x.f = n)
        /\ \A n : Has(Queue', n) \/ Head(batch).f = n <=> Has(Queue, n) \/ x.f = n
                                                          \/ Head(batch).f = n
        /\ \A C : Ordered(Queue, C) /\ Head(batch).f = "forceClose" /\ Head(batch).of \cap C # {} =>
              ~Has(Queue, "reset")
    BY <2>1, <2>2, TakesAndAdds
  <2>4. \A n : Count(Queue', n) \in Nat
    BY <2>3, CountFacts
  <2>5. /\ Count(Queue', "start") = Count(Queue, "start")
        /\ Count(Queue', "reset") = Count(Queue, "reset")
        /\ Has(Queue', "start") <=> Has(Queue, "start")
        /\ Has(Queue', "stop") <=> Has(Queue, "stop")
    BY <2>1, <2>2, <2>3, <2>4, InvFacts DEF One
  <2>6. channel # "removed"
    <3>1. ~Has(Queue, "reset")
      BY <1>0, <2>1, <2>3 DEF ChannelInv
    <3> QED BY <1>0, <3>1, InvFacts DEF ChannelInv, One
  <2> QED BY <1>2, <2>1, <2>5, <2>6, SafeRemove
<1>3. CASE /\ RunForceClose
           /\ UNCHANGED <<connectorVars, clientVars, userVars, pc, restarting, pending, fresh, broken>>
  BY <1>3, SafeTakes DEF RunForceClose, RunFunctor, connectorVars, clientVars, userVars
<1> QED BY <1>1, <1>2, <1>3 DEF RunForceClose

(* The loop's own steps, and the timer of ~TcpClient().                    *)
LEMMA SafeLoop ==
    ASSUME TypeInv, SafeInv,
           \/ KeepAliveTimer \/ BeginFunctors \/ EndFunctors \/ ResetChannel \/ ConnectDestroyed
           \/ UNCHANGED vars
    PROVE  SafeInv'
<1>0. /\ ChainInv /\ ChannelInv /\ ConnInv /\ GoneInv /\ broken = {}
      /\ TypeOK /\ PhaseInv /\ QueuesOK
  BY TypeParts DEF SafeInv, TypeInv
<1>1. UNCHANGED <<connect, state, timers, gaveUp, connection, conns, alive, user, connects,
                  restarting, broken>>
  BY DEF KeepAliveTimer, BeginFunctors, EndFunctors, ResetChannel, ConnectDestroyed,
         vars, connectorVars, clientVars, loopVars, userVars
<1>2. CASE UNCHANGED vars
  <2>1. UNCHANGED <<channel, keepAlive, pending, batch, pc, fresh>>
    BY <1>2 DEF vars, connectorVars, clientVars, loopVars
  <2>2. Queue' = Queue /\ Links' = Links
    BY <1>1, <2>1 DEF Queue, Links
  <2> QED BY <1>0, <1>1, <2>1, <2>2 DEF SafeInv, ChainInv, ChannelInv, ConnInv, GoneInv
<1>3. CASE KeepAliveTimer
  <2>1. UNCHANGED <<channel, pending, batch, pc, fresh>> /\ Queue = <<>>
    BY <1>3 DEF KeepAliveTimer, connectorVars, loopVars
  <2>2. Queue' = Queue /\ Links' = Links /\ \A n : ~Has(Queue, n)
    BY <1>1, <2>1 DEF Queue, Links, Has
  <2>3. ~alive => channel = "none"
    BY <1>0, <2>2, InvFacts DEF GoneInv, ChannelInv, One
  <2>4. GoneInv'
    BY <1>0, <1>1, <2>1, <2>2, <2>3 DEF GoneInv
  <2>5. ChainInv' /\ ChannelInv' /\ ConnInv' /\ broken' = {}
    BY <1>0, <1>1, <2>1, <2>2 DEF ChainInv, ChannelInv, ConnInv
  <2> QED BY <2>4, <2>5 DEF SafeInv
<1>4. CASE BeginFunctors
  <2>1. /\ UNCHANGED <<channel, keepAlive>> /\ pc' = "functors"
        /\ batch = <<>> /\ batch' = pending /\ pending' = <<>>
    BY <1>0, <1>4 DEF BeginFunctors, Handling, PhaseInv, connectorVars, clientVars
  <2>2. Queue' = Queue
    BY <1>0, <2>1, ConcatFacts DEF Queue, QueuesOK
  <2>3. Links' = Links /\ ~Has(pending', "reset")
    BY <1>1, <2>1, <2>2 DEF Links, Has
  <2>4. ChannelInv'
    BY <1>0, <1>1, <2>1, <2>2, <2>3 DEF ChannelInv
  <2>5. ChainInv' /\ ConnInv' /\ GoneInv' /\ broken' = {}
    BY <1>0, <1>1, <2>1, <2>2, <2>3 DEF ChainInv, ConnInv, GoneInv
  <2> QED BY <2>4, <2>5 DEF SafeInv
<1>5. CASE EndFunctors
  <2>1. /\ UNCHANGED <<channel, keepAlive, pending, batch, fresh>>
        /\ pc = "functors" /\ pc' = "events" /\ batch = <<>>
    BY <1>5 DEF EndFunctors, connectorVars, clientVars
  <2>2. Queue' = Queue /\ Links' = Links /\ Queue = pending
    BY <1>0, <1>1, <2>1, ConcatFacts DEF Queue, Links, QueuesOK
  <2>3. conns # {} => channel # "removed"
    BY <1>0, <2>1, <2>2, InvFacts DEF ChannelInv, One
  <2>4. ChannelInv'
    BY <1>0, <1>1, <2>1, <2>2, <2>3 DEF ChannelInv
  <2>5. ChainInv' /\ ConnInv' /\ GoneInv' /\ broken' = {}
    BY <1>0, <1>1, <2>1, <2>2 DEF ChainInv, ConnInv, GoneInv
  <2> QED BY <2>4, <2>5 DEF SafeInv
<1>6. CASE ConnectDestroyed
  BY <1>0, <1>6, SafeTakes DEF ConnectDestroyed, RunFunctor, clientVars, userVars
<1>7. CASE ResetChannel
  <2>1. /\ UNCHANGED <<keepAlive, pending, pc, fresh>> /\ channel' = "none"
        /\ batch # <<>> /\ batch' = Tail(batch) /\ Head(batch).f = "reset"
    BY <1>7 DEF ResetChannel, RunFunctor, clientVars
  <2>2. /\ Queue' \in Seq(Functors)
        /\ \A n : Count(Queue', n) + One(Head(batch).f = n) = Count(Queue, n)
        /\ \A n : Has(Queue, n) <=> Has(Queue', n) \/ Head(batch).f = n
        /\ \A C : Ordered(Queue, C) => Ordered(Queue', C)
    BY <1>0, <2>1, Takes
  <2>3. \A n : Count(Queue', n) \in Nat
    BY <2>2, CountFacts
  <2>4. /\ Count(Queue', "start") = Count(Queue, "start")
        /\ Count(Queue', "reset") + 1 = Count(Queue, "reset")
        /\ Has(Queue', "start") <=> Has(Queue, "start")
        /\ Has(Queue', "stop") <=> Has(Queue, "stop")
        /\ Ordered(Queue', conns)
    BY <1>0, <2>1, <2>2, <2>3, InvFacts DEF One, ChannelInv
  <2>5. channel = "removed" /\ Count(Queue', "reset") = 0
    BY <1>0, <2>3, <2>4 DEF ChannelInv, One
  <2>6. Links' = Links
    BY <1>1, <2>4 DEF Links
  <2>7. ChainInv'
    BY <1>0, <1>1, <2>1, <2>4, <2>6 DEF ChainInv
  <2>8. ChannelInv'
    BY <1>0, <1>1, <2>1, <2>4, <2>5 DEF ChannelInv, One
  <2>9. ConnInv' /\ GoneInv' /\ broken' = {}
    BY <1>0, <1>1, <2>1, <2>4, <2>5 DEF ConnInv, GoneInv
  <2> QED BY <2>7, <2>8, <2>9 DEF SafeInv
<1> QED BY <1>2, <1>3, <1>4, <1>5, <1>6, <1>7

(* Initially nothing is queued, set or open.                               *)
LEMMA InvInit == Init => Inv
<1> SUFFICES ASSUME Init PROVE Inv
  OBVIOUS
<1>1. TypeInv /\ TypeOK
  BY TypeInit DEF TypeInv
<1>2. Queue = <<>> /\ pending = <<>>
  BY DEF Init, Queue
<1>3. (\A n : ~Has(Queue, n)) /\ ~Has(pending, "reset")
  BY <1>2 DEF Has
<1>4. \A n : Count(Queue, n) = 0
  BY <1>1, <1>3, QueueFacts
<1>5. Links = 0
  BY <1>4 DEF Init, Links, One
<1>6. fds = Owned
  BY <1>4, FS_EmptySet DEF Init, Owned, One
<1>7. ChainInv
  BY <1>5 DEF Init, ChainInv
<1>8. ChannelInv
  <2>1. Ordered(Queue, {})
    BY OrderedFacts
  <2> QED BY <1>3, <1>4, <2>1 DEF Init, ChannelInv, One
<1>9. ConnInv /\ GoneInv /\ broken = {}
  BY DEF Init, ConnInv, GoneInv
<1> QED BY <1>1, <1>6, <1>7, <1>8, <1>9 DEF Inv, SafeInv

(* Every step of a client that connects once keeps the invariant.          *)
LEMMA InvStep ==
    ASSUME MaxConnects <= 1, Inv, [Next]_vars
    PROVE  Inv'
<1>1. TypeInv /\ TypeOK /\ fds = Owned /\ SafeInv
  BY DEF Inv, TypeInv
<1>2. TypeInv'
  BY <1>1, TypeStep
<1>3. RetryTimer \/ RunStart \/ Restart => state # "connecting"
  BY <1>1, StartReady
<1>4. fds' = Owned'
  BY <1>1, <1>3, OwnedStep
<1>5. SafeInv'
  BY <1>1, SafeUser, SafeStart, SafeStop, SafeDestroy, SafeConnect, SafeFailure, SafeConnected,
     SafeClose, SafeLoop, Zenon DEF Next
<1> QED BY <1>2, <1>4, <1>5 DEF Inv

(* The invariant of a client that connects once.                           *)
LEMMA InvAlways == ASSUME MaxConnects <= 1 PROVE Spec => []Inv
<1>1. Inv /\ [Next]_vars => Inv'
  BY InvStep
<1> QED BY <1>1, InvInit, PTL DEF Spec

(* The places of a functor in the queue, as TcpClient names them.          *)
LEMMA QueuedIs == \A n : Queued(n) = Places(Queue, n)
  BY DEF Queued, Places

(* A client that is told once to connect fails no assertion of             *)
(* Connector.cc or TcpClient.cc, however its attempts end, it reconnects   *)
(* or is stopped; the channel reports events only during an attempt; and   *)
(* the Connector is destructed with its channel deleted and no functor     *)
(* left.  Connecting again after stop() is excluded: it breaks assertions  *)
(* 51 and 133 (run tcpclient_reconnect).                                   *)
THEOREM OneConnectIsSafe == ASSUME MaxConnects <= 1 PROVE Spec => []AssertionsHold
<1>1. ASSUME Inv PROVE AssertionsHold
  <2>1. TypeOK /\ ChainInv /\ ChannelInv /\ GoneInv /\ broken = {}
    BY <1>1 DEF Inv, SafeInv, TypeInv
  <2>2. ASSUME ConnectorGone PROVE channel = "none" /\ ConnectorQueued = {}
    <3>1. channel = "none" /\ ~Has(Queue, "start") /\ ~Has(Queue, "stop")
      BY <2>1, <2>2 DEF ConnectorGone, GoneInv
    <3>2. ~Has(Queue, "reset")
      BY <2>1, <3>1, InvFacts DEF ChannelInv, One
    <3>3. \A n \in {"start", "stop", "reset"} : Queued(n) = {}
      BY <3>1, <3>2 DEF Queued, Has
    <3> QED BY <3>1, <3>3 DEF ConnectorQueued
  <2>3. channel = "registered" <=> state = "connecting"
    BY <2>1 DEF ChannelInv
  <2> QED BY <2>1, <2>2, <2>3 DEF AssertionsHold
<1> QED BY <1>1, InvAlways, PTL

(* Such a client leaks no socket and closes none twice: retry(), stop(),   *)
(* a connection that nobody wants any more and connectDestroyed() close    *)
(* exactly the sockets that connect() opened.                              *)
THEOREM NoSocketLost == ASSUME MaxConnects <= 1 PROVE Spec => []SocketsOwned
<1>1. ASSUME Inv PROVE SocketsOwned
  <2>1. fds = Owned
    BY <1>1 DEF Inv
  <2>2. Count(Queue, "connectDestroyed") = Cardinality(Queued("connectDestroyed"))
    BY QueuedIs DEF Count
  <2> QED BY <2>1, <2>2 DEF SocketsOwned, Owned, One
<1> QED BY <1>1, InvAlways, PTL

(* Its chain of retries is never broken and never forks: as long as the    *)
(* client wants a connection there is exactly one of a queued              *)
(* startInLoop(), a retry timer, an attempt and a connection.              *)
THEOREM OneRetryChain == ASSUME MaxConnects <= 1 PROVE Spec => []RetryChain
<1>1. ASSUME Inv PROVE RetryChain
  <2>1. TypeOK /\ Links <= 1 /\ (connect /\ ~gaveUp => Links = 1)
    BY <1>1 DEF Inv, SafeInv, TypeInv, ChainInv
  <2>2. Links = timers + Cardinality(Queued("start")) + (IF state = "disconnected" THEN 0 ELSE 1)
    BY QueuedIs DEF Links, Count, One
  <2> QED BY <2>1, <2>2 DEF RetryChain
<1> QED BY <1>1, InvAlways, PTL

=============================================================================
