----------------------------- MODULE TcpServer -----------------------------
(***************************************************************************)
(* muduo/net/TcpServer.cc with its Acceptor and EventLoopThreadPool: the   *)
(* base loop accepts connections and spreads them over io loops, each in a *)
(* thread of its own.  A connection is established, closed and taken apart *)
(* in its io loop, and entered in and erased from connections_ in the base *)
(* loop; between the two, functors that share ownership of it travel       *)
(* through the loops' queues.  A thread that sends queues a functor that   *)
(* does not own the connection.  What is sent, and shutdown() by another   *)
(* thread, are in TcpConnection.                                           *)
(*                                                                         *)
(* A loop handles events, runs the functors queued before that point, and  *)
(* goes on or, if quit() was called, ends.  An io loop is a local variable *)
(* of its thread: when it ends it is destructed, and with it the functors  *)
(* nobody will run.  The server is destructed by the thread of the base    *)
(* loop once that loop has ended, and then the base loop is, as in a       *)
(* main() that declares the loop, then the server, and calls loop().       *)
(***************************************************************************)
EXTENDS Naturals, Sequences, FiniteSets

CONSTANTS
    N,          \* numThreads_: the io loops are 1..N, the base loop is 0
    Conns,      \* identities of TcpConnection objects, used again when free
    MaxFds,     \* how many connections the descriptor limit allows
    MaxBacklog  \* bound: clients waiting in the listen queue

ASSUME ThreadsAssumption == N \in Nat \ {0}
ASSUME BoundsAssumption ==
    /\ IsFiniteSet(Conns)
    /\ MaxFds \in Nat /\ MaxFds <= Cardinality(Conns)
    /\ MaxBacklog \in Nat

VARIABLES
    started,        \* started_; listen() follows in the same call
    next,           \* next_ of the EventLoopThreadPool
    connections,    \* connections_
    state,          \* TcpConnection::state_
    channel,        \* the channel of a connection: none, reading, disabled, removed
    loopOf,         \* TcpConnection::loop_
    pc,             \* what each loop is doing: events, functors or ended
    queue,          \* each loop's functors; the first batch[l] are being run
    batch,
    quit,           \* quit_ of each loop
    backlog,        \* clients that wait to be accepted
    acceptActive,   \* poll() has reported the listening socket
    sender,         \* the connection another thread is in send() for, if any
    dtor,           \* where ~TcpServer() is: no, body, join or done; gone when
                    \* the base loop is destructed too
    broken,         \* history: the assertions and calls that failed, and for whom
    stranded        \* history: connections that lost a functor to the end of a loop

connVars == <<connections, state, channel, loopOf>>
acceptVars == <<started, next, backlog, acceptActive>>
history == <<broken, stranded>>
vars == <<connVars, acceptVars, pc, queue, batch, quit, sender, dtor, history>>

Base == 0
IoLoops == 1..N
Loops == 0..N
Functors == [f : {"connectEstablished", "connectDestroyed", "removeConnectionInLoop",
                  "sendInLoop", "sendTooLate"}, c : Conns]

TypeOK ==
    /\ started \in BOOLEAN /\ next \in 0..(N - 1)
    /\ connections \in SUBSET Conns
    /\ state \in [Conns -> {"kConnecting", "kConnected", "kDisconnecting", "kDisconnected"}]
    /\ channel \in [Conns -> {"none", "reading", "disabled", "removed"}]
    /\ loopOf \in [Conns -> IoLoops]
    /\ pc \in [Loops -> {"events", "functors", "ended"}]
    /\ queue \in [Loops -> Seq(Functors)]
    /\ batch \in [Loops -> Nat] /\ \A l \in Loops : batch[l] <= Len(queue[l])
    /\ quit \in [Loops -> BOOLEAN]
    /\ backlog \in 0..MaxBacklog /\ acceptActive \in BOOLEAN
    /\ sender \in SUBSET Conns
    /\ dtor \in {"no", "body", "join", "done", "gone"}
    /\ broken \in SUBSET [line : {61, 106, 110, 117, 330}, c : Conns]
    /\ stranded \in SUBSET Conns

Init ==
    /\ started = FALSE /\ next = 0 /\ backlog = 0 /\ acceptActive = FALSE
    /\ connections = {}
    /\ state = [c \in Conns |-> "kDisconnected"]
    /\ channel = [c \in Conns |-> "none"]
    /\ loopOf = [c \in Conns |-> 1]
    /\ pc = [l \in Loops |-> "events"]
    /\ queue = [l \in Loops |-> <<>>] /\ batch = [l \in Loops |-> 0]
    /\ quit = [l \in Loops |-> FALSE]
    /\ sender = {} /\ dtor = "no" /\ broken = {} /\ stranded = {}

RawFunctors == {"sendInLoop", "sendTooLate"}
Mentioned(c, q) == \E i \in DOMAIN q : q[i].c = c /\ q[i].f \notin RawFunctors

\* Somebody owns the TcpConnection: connections_, a functor, or the thread
\* inside send().
Held(c) == c \in connections \cup sender \/ \E l \in Loops : Mentioned(c, queue[l])

\* The identity is free: no object, and no functor with its raw this.
Free(c) == ~Held(c) /\ \A l \in Loops : \A i \in DOMAIN queue[l] : queue[l][i].c # c

Queued(q, l, name, c) == [q EXCEPT ![l] = Append(@, [f |-> name, c |-> c])]

\* assert(condition) at a line of the source, for a connection.
Check(line, c, condition) ==
    /\ broken' = broken \cup (IF condition THEN {} ELSE {[line |-> line, c |-> c]})
    /\ UNCHANGED stranded

-----------------------------------------------------------------------------
(* The base loop: start(), Acceptor::handleRead(), newConnection().        *)

\* The first start(); a second one finds started_ set and does nothing.
Start ==
    /\ ~started /\ pc[Base] = "events"
    /\ started' = TRUE
    /\ UNCHANGED <<connVars, next, backlog, acceptActive, pc, queue, batch, quit,
                   sender, dtor, history>>

ClientArrives ==
    /\ started /\ backlog < MaxBacklog /\ dtor = "no"
    /\ backlog' = backlog + 1
    /\ UNCHANGED <<connVars, started, next, acceptActive, pc, queue, batch, quit,
                   sender, dtor, history>>

\* A fault: next_ runs past the last loop.
NextIndexLate == IF next + 1 > N THEN 0 ELSE next + 1

\* ++next_ of getNextLoop()
NextIndex == IF next + 1 >= N THEN 0 ELSE next + 1

Accepting == pc[Base] = "events" /\ acceptActive /\ backlog > 0

\* Descriptors are left: accept() succeeds and newConnection() is called.
Accept(c) ==
    /\ Accepting
    /\ Cardinality({d \in Conns : Held(d)}) < MaxFds
    /\ Free(c)
    /\ backlog' = backlog - 1 /\ acceptActive' = FALSE
    /\ next' = NextIndex
    /\ connections' = connections \cup {c}
    /\ state' = [state EXCEPT ![c] = "kConnecting"]
    /\ channel' = [channel EXCEPT ![c] = "none"]
    /\ loopOf' = [loopOf EXCEPT ![c] = next + 1]
    /\ queue' = Queued(queue, next + 1, "connectEstablished", c)
    /\ UNCHANGED <<started, pc, batch, quit, sender, dtor, history>>

\* A fault: accept() fails and the client stays where it is.
KeepWaiting == backlog

\* idleFd_ is closed to accept the client and close it at once.
TurnedAway == backlog - 1

\* EMFILE.
AcceptFails ==
    /\ Accepting
    /\ Cardinality({d \in Conns : Held(d)}) >= MaxFds
    /\ backlog' = TurnedAway /\ acceptActive' = FALSE
    /\ UNCHANGED <<connVars, started, next, pc, queue, batch, quit, sender, dtor, history>>

-----------------------------------------------------------------------------
(* Every loop: EventLoop::loop(), see EventLoop.                           *)

\* The events of this iteration are handled; doPendingFunctors() swaps.
Swap(l) ==
    /\ pc[l] = "events"
    /\ l = Base => ~acceptActive
    /\ pc' = [pc EXCEPT ![l] = "functors"]
    /\ batch' = [batch EXCEPT ![l] = Len(queue[l])]
    /\ UNCHANGED <<connVars, acceptVars, queue, quit, sender, dtor, history>>

\* The end of the loop body; poll() then reports a waiting client.
Iterate(l) ==
    /\ pc[l] = "functors" /\ batch[l] = 0 /\ ~quit[l]
    /\ pc' = [pc EXCEPT ![l] = "events"]
    /\ acceptActive' = IF l = Base THEN backlog > 0 ELSE acceptActive
    /\ UNCHANGED <<connVars, started, next, backlog, queue, batch, quit, sender, dtor, history>>

LoopEnds(l) ==
    /\ pc[l] = "functors" /\ batch[l] = 0 /\ quit[l]
    /\ pc' = [pc EXCEPT ![l] = "ended"]
    /\ UNCHANGED <<connVars, acceptVars, batch, quit, sender, dtor, broken>>

\* The base loop's object outlives the server; its functors stay in it.
BaseLoopEnds == LoopEnds(Base) /\ UNCHANGED <<queue, stranded>>

\* threadFunc() returns: ~EventLoop() drops the functors that were queued after
\* the last swap, and what they own.
IoLoopEnds(l) ==
    /\ LoopEnds(l)
    /\ queue' = [queue EXCEPT ![l] = <<>>]
    /\ stranded' = stranded \cup {c \in Conns : Mentioned(c, queue[l])}

\* The next functor of the batch is name, bound to c.
Run(l, name, c) ==
    /\ pc[l] = "functors" /\ batch[l] > 0
    /\ Head(queue[l]) = [f |-> name, c |-> c]
    /\ batch' = [batch EXCEPT ![l] = @ - 1]

Popped(l) == [queue EXCEPT ![l] = Tail(@)]

-----------------------------------------------------------------------------
(* An io loop: the functors and the close event of a connection.           *)

ConnectEstablished(l, c) ==
    /\ Run(l, "connectEstablished", c)
    /\ queue' = Popped(l)
    /\ Check(330, c, state[c] = "kConnecting")
    /\ state' = [state EXCEPT ![c] = "kConnected"]
    /\ channel' = [channel EXCEPT ![c] = "reading"]
    /\ UNCHANGED <<connections, loopOf, acceptVars, pc, quit, sender, dtor>>

\* shutdown() by a callback in the io loop's thread: the write side is closed,
\* the channel goes on reading until the peer closes.
Shutdown(c) ==
    /\ pc[loopOf[c]] # "ended" /\ state[c] = "kConnected"
    /\ state' = [state EXCEPT ![c] = "kDisconnecting"]
    /\ UNCHANGED <<connections, channel, loopOf, acceptVars, pc, queue, batch, quit, sender,
                   dtor, history>>

\* handleClose(), when the peer closes, and removeConnection(), which goes
\* through a raw pointer to the server to find the base loop.
HandleClose(c) ==
    /\ pc[loopOf[c]] = "events"
    /\ channel[c] = "reading" /\ state[c] \in {"kConnected", "kDisconnecting"}
    /\ state' = [state EXCEPT ![c] = "kDisconnected"]
    /\ channel' = [channel EXCEPT ![c] = "disabled"]
    /\ queue' = Queued(queue, Base, "removeConnectionInLoop", c)
    /\ Check(106, c, dtor \notin {"done", "gone"})
    /\ UNCHANGED <<connections, loopOf, acceptVars, pc, batch, quit, sender, dtor>>

\* disableAll() if the server gives up a connection in kConnected, and
\* Channel::remove(), which asserts that it wants no events: a connection in
\* kDisconnecting keeps its state and is still reading.
ConnectDestroyed(l, c) ==
    /\ Run(l, "connectDestroyed", c)
    /\ queue' = Popped(l)
    /\ Check(61, c, state[c] = "kConnected" \/ channel[c] = "disabled")
    /\ state' = [state EXCEPT ![c] = IF @ = "kConnected" THEN "kDisconnected" ELSE @]
    /\ channel' = [channel EXCEPT ![c] = "removed"]
    /\ UNCHANGED <<connections, loopOf, acceptVars, pc, quit, sender, dtor>>

\* send() by a thread that owns a TcpConnectionPtr for the call only.
CallSend(c) ==
    /\ sender = {} /\ Held(c) /\ state[c] = "kConnected"
    /\ \A i \in DOMAIN queue[loopOf[c]] : queue[loopOf[c]][i].f \notin RawFunctors
    /\ sender' = {c}
    /\ UNCHANGED <<connVars, acceptVars, pc, queue, batch, quit, dtor, history>>

\* connectDestroyed() has run or is queued.
TakenApart(c) ==
    \/ channel[c] = "removed"
    \/ \E i \in DOMAIN queue[loopOf[c]] : queue[loopOf[c]][i] = [f |-> "connectDestroyed", c |-> c]

\* The functor holds the raw this; the caller lets go of the connection.  A call
\* on a loop that is destructed is undefined and left out.
QueueSend(c) ==
    /\ c \in sender /\ pc[loopOf[c]] # "ended"
    /\ queue' = Queued(queue, loopOf[c], IF TakenApart(c) THEN "sendTooLate" ELSE "sendInLoop", c)
    /\ sender' = {}
    /\ UNCHANGED <<connVars, acceptVars, pc, batch, quit, dtor, history>>

SendInLoop(l, c) ==
    /\ Run(l, "sendInLoop", c)
    /\ queue' = Popped(l)
    /\ Check(110, c, Held(c))
    /\ UNCHANGED <<connVars, acceptVars, pc, quit, sender, dtor>>

\* The connection may be gone: what this functor does is undefined.
SendTooLate(l, c) ==
    /\ Run(l, "sendTooLate", c)
    /\ queue' = Popped(l)
    /\ UNCHANGED <<connVars, acceptVars, pc, quit, sender, dtor, history>>

\* A fault: connections_ keeps its entry.
RemoveInLoopKeepsEntry(c) ==
    /\ Run(Base, "removeConnectionInLoop", c)
    /\ queue' = Queued(Popped(Base), loopOf[c], "connectDestroyed", c)
    /\ UNCHANGED <<connVars, acceptVars, pc, quit, sender, dtor, history>>

\* Back in the base loop.
RemoveConnectionInLoop(c) ==
    /\ Run(Base, "removeConnectionInLoop", c)
    /\ queue' = Queued(Popped(Base), loopOf[c], "connectDestroyed", c)
    /\ Check(117, c, c \in connections)
    /\ connections' = connections \ {c}
    /\ UNCHANGED <<state, channel, loopOf, acceptVars, pc, quit, sender, dtor>>

-----------------------------------------------------------------------------
(* The end: quit() of the base loop, ~TcpServer(), ~EventLoopThreadPool(). *)

BaseQuit ==
    /\ ~quit[Base] /\ pc[Base] # "ended"
    /\ quit' = [quit EXCEPT ![Base] = TRUE]
    /\ UNCHANGED <<connVars, acceptVars, pc, queue, batch, sender, dtor, history>>

DtorBegins ==
    /\ pc[Base] = "ended" /\ dtor = "no"
    /\ dtor' = "body"
    /\ UNCHANGED <<connVars, acceptVars, pc, queue, batch, quit, sender, history>>

\* One turn of the loop over connections_, whose entry is reset.
DtorConnection(c) ==
    /\ dtor = "body" /\ c \in connections
    /\ connections' = connections \ {c}
    /\ queue' = Queued(queue, loopOf[c], "connectDestroyed", c)
    /\ UNCHANGED <<state, channel, loopOf, acceptVars, pc, batch, quit, sender, dtor, history>>

DtorBodyEnds ==
    /\ dtor = "body" /\ connections = {}
    /\ dtor' = "join"
    /\ UNCHANGED <<connVars, acceptVars, pc, queue, batch, quit, sender, history>>

\* ~EventLoopThread(), one after the other: quit() and join().
QuitIoLoop(l) ==
    /\ dtor = "join" /\ ~quit[l]
    /\ \A k \in 1..(l - 1) : pc[k] = "ended"
    /\ quit' = [quit EXCEPT ![l] = TRUE]
    /\ UNCHANGED <<connVars, acceptVars, pc, queue, batch, sender, dtor, history>>

\* A fault: the threads are not joined.
JoinedAtOnce == \A l \in IoLoops : quit[l]

Joined == \A l \in IoLoops : pc[l] = "ended"

DtorEnds ==
    /\ dtor = "join" /\ Joined
    /\ dtor' = "done"
    /\ UNCHANGED <<connVars, acceptVars, pc, queue, batch, quit, sender, history>>

\* ~EventLoop() of the base loop drops the closes that came after its end.
BaseLoopDestructed ==
    /\ dtor = "done"
    /\ dtor' = "gone"
    /\ queue' = [queue EXCEPT ![Base] = <<>>] /\ batch' = [batch EXCEPT ![Base] = 0]
    /\ UNCHANGED <<connVars, acceptVars, pc, quit, sender, history>>

-----------------------------------------------------------------------------

LoopStep(l) ==
    \/ Swap(l) \/ Iterate(l)
    \/ \E c \in Conns : ConnectEstablished(l, c) \/ ConnectDestroyed(l, c)
                       \/ SendInLoop(l, c) \/ SendTooLate(l, c)

BaseStep ==
    \/ LoopStep(Base) \/ BaseLoopEnds \/ AcceptFails
    \/ \E c \in Conns : Accept(c) \/ RemoveConnectionInLoop(c)

DtorStep ==
    \/ DtorBegins \/ DtorBodyEnds \/ DtorEnds \/ BaseLoopDestructed
    \/ (\E c \in Conns : DtorConnection(c)) \/ (\E l \in IoLoops : QuitIoLoop(l))

Next ==
    \/ Start \/ ClientArrives \/ BaseQuit \/ BaseStep \/ DtorStep
    \/ \E l \in IoLoops : LoopStep(l) \/ IoLoopEnds(l)
    \/ \E c \in Conns : Shutdown(c) \/ HandleClose(c) \/ CallSend(c) \/ QueueSend(c)

Spec == Init /\ [][Next]_vars

\* The scheduler runs every loop's thread and one inside send(); poll()
\* returns at the latest when kPollTimeMs have passed.  The thread of the base
\* loop goes on with the destructor.  Clients need not come, nor peers close.
FairSpec ==
    /\ Spec
    /\ WF_vars(BaseStep \/ DtorStep)
    /\ \A l \in IoLoops : WF_vars(LoopStep(l) \/ IoLoopEnds(l))
    /\ WF_vars(\E c \in Conns : QueueSend(c))

-----------------------------------------------------------------------------
\* connectDestroyed() has run for a connection in kDisconnecting: its channel
\* wanted to read, against Channel.cc:61, and its state stays.
HalfClosed(c) == state[c] = "kDisconnecting" /\ channel[c] = "removed"

(* A connection is established once, erased once and taken apart once,     *)
(* each in its own loop (the assertions of TcpConnection.cc:330,           *)
(* TcpServer.cc:117 and Channel.cc:61), its close reaches a server that    *)
(* still exists (TcpServer.cc:106), and when its last owner lets go it is  *)
(* disconnected and out of its poller (TcpConnection.cc:73, Channel.cc:40) *)
(* although the peer may close before, while or after the server gives the *)
(* connection up.  Exactly two kinds of connections are excepted, both     *)
(* when the server ends: those given up in kDisconnecting, and those whose *)
(* connectDestroyed() is dropped with an io loop that had made its last    *)
(* swap (DestructedDisconnected shows both).                               *)
(* The raw this of send() (TcpConnection.cc:110) is safe if it is queued   *)
(* before connectDestroyed() is, whatever happens between send()'s test of *)
(* the state and the loop's turn; if later, nothing keeps the object.      *)
LifecycleSafe ==
    /\ \A b \in broken : b.line = 61 /\ HalfClosed(b.c)
    /\ \A c \in Conns \ stranded :
          \/ Held(c) \/ HalfClosed(c)
          \/ state[c] = "kDisconnected" /\ channel[c] \in {"none", "removed"}

(* "assert(state_ == kDisconnected)" in ~TcpConnection()                   *)
(* (TcpConnection.cc:73).  It fails in two ways when the server ends.      *)
(* ~TcpServer() queues connectDestroyed() for an io loop that has made its *)
(* last swap; the loop ends and drops the functor, which was the           *)
(* connection's last owner.  Or the functor runs and meets kDisconnecting  *)
(* (line 341).                                                             *)
DestructedDisconnected == \A c \in Conns : Held(c) \/ state[c] = "kDisconnected"

(* A connection that is closed is released, and its descriptor with it:    *)
(* the way from the io loop through the base loop and back does not lose   *)
(* or keep it.                                                             *)
ClosedIsReleased ==
    \A c \in Conns :
        state[c] = "kDisconnected" /\ Held(c) ~> ~Held(c) \/ pc[Base] = "ended"

(* A client that waits is accepted or, when the descriptors are used up,   *)
(* turned away (Acceptor.cc:82-88): it never stays in the listen queue,    *)
(* where it would make the level-triggered poll() return for ever.         *)
BacklogDrains ==
    backlog = MaxBacklog ~> backlog < MaxBacklog \/ pc[Base] = "ended"
=============================================================================
