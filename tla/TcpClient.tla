----------------------------- MODULE TcpClient -----------------------------
(***************************************************************************)
(* muduo/net/Connector.cc and TcpClient.cc: a client that connects without *)
(* blocking, retries with a growing delay, and reconnects when the server  *)
(* closes (enableRetry()).  Everything but the two connect_ flags belongs  *)
(* to the loop thread; connect(), disconnect() and stop() come from any    *)
(* thread, between any two steps of the loop.                              *)
(*                                                                         *)
(* An iteration of the loop handles events, then the functors queued       *)
(* before that point, in order.  The loop is never as late as a timer's    *)
(* delay, at least half a second: a timer does not overtake functors.      *)
(* An assertion of the code that fails is recorded by its line, and the    *)
(* process ends there.                                                     *)
(***************************************************************************)
EXTENDS Naturals, Sequences, FiniteSets, FiniteSetsExt

CONSTANTS
    Conns,              \* identities of TcpConnections, used again when free
    InitRetryDelay,     \* kInitRetryDelayMs
    MaxRetryDelay,      \* kMaxRetryDelayMs
    MaxConnects,        \* bound: how often connect() is called
    MaxStops            \* bound: how often stop() is called

ASSUME DelayAssumption ==
    /\ InitRetryDelay \in Nat \ {0} /\ MaxRetryDelay \in Nat
    /\ InitRetryDelay <= MaxRetryDelay
ASSUME BoundsAssumption == IsFiniteSet(Conns) /\ MaxConnects \in Nat /\ MaxStops \in Nat

VARIABLES
    connect,        \* Connector::connect_
    state,          \* Connector::state_
    channel,        \* Connector::channel_: none, registered or removed
    retryDelay,     \* retryDelayMs_
    timers,         \* how many retry timers are set
    fds,            \* how many sockets are open
    gaveUp,         \* history: connect(2) failed in a way that is not retried
    clientConnect,  \* TcpClient::connect_
    connection,     \* TcpClient::connection_: a set of at most one
    conns,          \* the TcpConnections that are not closed
    alive,          \* the TcpClient exists
    keepAlive,      \* ~TcpClient's timer, which owns the Connector, is set
    pc,             \* what the loop is doing: events or functors
    restarting,     \* it is in removeConnection(), about to call restart()
    pending,        \* the functors queued in the loop
    batch,          \* those of this iteration that have not run
    fresh,          \* connections made since poll(), which has not seen them
    user,           \* where another thread is inside connect() or stop()
    connects, stops,    \* how often connect() and stop() were called
    stopped,        \* history: whether a stop() is in force
    broken          \* history: the assertions that failed

connectorVars == <<connect, state, channel, retryDelay, timers, fds, gaveUp>>
clientVars == <<clientConnect, connection, conns, alive, keepAlive>>
userVars == <<user, connects, stops, stopped>>
loopVars == <<pc, restarting, pending, batch, fresh>>
vars == <<connectorVars, clientVars, userVars, loopVars, broken>>

\* A functor and, if it is one of a TcpConnection, the connection.
Functor(name) == [f |-> name, of |-> {}]
ConnFunctor(name, c) == [f |-> name, of |-> {c}]
Functors == [f : {"start", "stop", "reset", "forceClose", "connectDestroyed"},
             of : {{}} \cup {{c} : c \in Conns}]

Queue == batch \o pending
Queued(name) == {i \in DOMAIN Queue : Queue[i].f = name}

TypeOK ==
    /\ {connect, clientConnect, alive, keepAlive, restarting, gaveUp} \subseteq BOOLEAN
    /\ state \in {"disconnected", "connecting", "connected"}
    /\ channel \in {"none", "registered", "removed"}
    /\ retryDelay \in InitRetryDelay..MaxRetryDelay
    /\ timers \in Nat /\ fds \in Nat
    /\ connection \in {{}} \cup {{c} : c \in Conns}
    /\ conns \in SUBSET Conns /\ fresh \in SUBSET Conns
    /\ pc \in {"events", "functors"}
    /\ pending \in Seq(Functors) /\ batch \in Seq(Functors)
    /\ user \in {"idle", "connect", "stop", "stopping"}
    /\ connects \in 0..MaxConnects /\ stops \in 0..MaxStops
    /\ stopped \in {"no", "yes", "raced"}
    /\ broken \in SUBSET {51, 133, 171}

Init ==
    /\ connect = FALSE /\ state = "disconnected" /\ channel = "none"
    /\ retryDelay = InitRetryDelay /\ timers = 0 /\ fds = 0 /\ gaveUp = FALSE
    /\ clientConnect = TRUE /\ connection = {} /\ conns = {}
    /\ alive = TRUE /\ keepAlive = FALSE
    /\ user = "idle" /\ connects = 0 /\ stops = 0 /\ stopped = "no"
    /\ pc = "events" /\ restarting = FALSE /\ pending = <<>> /\ batch = <<>> /\ fresh = {}
    /\ broken = {}

\* assert(condition) at a line of the source.
Assert(line, condition) == broken' = broken \cup (IF condition THEN {} ELSE {line})

-----------------------------------------------------------------------------
(* TcpClient::connect(), disconnect() and stop(), with Connector::start()  *)
(* and stop().                                                             *)

\* Nobody connects again without stop() in between.
CallConnect ==
    /\ alive /\ user = "idle" /\ connects < MaxConnects
    /\ connects > 0 => stopped # "no"
    /\ clientConnect' = TRUE
    /\ connects' = connects + 1 /\ stopped' = "no"
    /\ user' = "connect"
    /\ UNCHANGED <<connectorVars, connection, conns, alive, keepAlive, stops,
                   loopVars, broken>>

\* Connector::start(), by another thread.  The flag and the queueing are one
\* step: with one connect() nothing in the loop reads connect_ in between.
ConnectorStart ==
    /\ user = "connect"
    /\ connect' = TRUE
    /\ pending' = Append(pending, Functor("start"))
    /\ user' = "idle"
    /\ UNCHANGED <<state, channel, retryDelay, timers, fds, gaveUp, clientVars,
                   connects, stops, stopped, pc, restarting, batch, fresh, broken>>

\* The shutdown() of the connection changes nothing in the client.
Disconnect ==
    /\ alive /\ user = "idle" /\ clientConnect
    /\ clientConnect' = FALSE
    /\ UNCHANGED <<connectorVars, connection, conns, alive, keepAlive, userVars,
                   loopVars, broken>>

CallStop ==
    /\ alive /\ user = "idle" /\ stops < MaxStops
    /\ clientConnect' = FALSE
    /\ stops' = stops + 1
    /\ stopped' = IF restarting \/ stopped = "raced" THEN "raced" ELSE "yes"
    /\ user' = "stop"
    /\ UNCHANGED <<connectorVars, connection, conns, alive, keepAlive, connects,
                   loopVars, broken>>

ConnectorStop ==
    /\ user = "stop"
    /\ connect' = FALSE
    /\ user' = "stopping"
    /\ UNCHANGED <<state, channel, retryDelay, timers, fds, gaveUp, clientVars,
                   connects, stops, stopped, loopVars, broken>>

StopQueued ==
    /\ user = "stopping"
    /\ pending' = Append(pending, Functor("stop"))
    /\ user' = "idle"
    /\ UNCHANGED <<connectorVars, clientVars, connects, stops, stopped, pc,
                   restarting, batch, fresh, broken>>

-----------------------------------------------------------------------------
(* Connector, in the loop.                                                 *)

\* A fault: the delay grows for ever.
DoubledUnlimited(delay) == delay * 2

Doubled(delay) == Min({delay * 2, MaxRetryDelay})

\* A fault: no timer when the delay is at its limit.
RetryUntilLimit(con, delay, set) ==
    /\ state' = "disconnected"
    /\ timers' = IF con /\ delay < MaxRetryDelay THEN set + 1 ELSE set
    /\ retryDelay' = IF con THEN Doubled(delay) ELSE delay

\* retry(), but for its close(); set is the number of timers already set.
Retry(con, delay, set) ==
    /\ state' = "disconnected"
    /\ timers' = IF con THEN set + 1 ELSE set
    /\ retryDelay' = IF con THEN Doubled(delay) ELSE delay

\* startInLoop() in state from, if connect_ is set: connect() creates a
\* socket.  connecting() keeps it; retry() and the errors that are not
\* retried close it again.
Connect(from, delay, set) ==
    \/ /\ state' = "connecting" /\ channel' = "registered" /\ fds' = fds + 1
       /\ IF from = "disconnected" THEN Assert(133, channel = "none") ELSE Assert(51, FALSE)
       /\ timers' = set /\ retryDelay' = delay
       /\ UNCHANGED gaveUp
    \/ /\ Retry(TRUE, delay, set)
       /\ Assert(51, from = "disconnected")
       /\ UNCHANGED <<channel, fds, gaveUp>>
    \/ /\ gaveUp' = TRUE
       /\ Assert(51, from = "disconnected")
       /\ state' = from /\ timers' = set /\ retryDelay' = delay
       /\ UNCHANGED <<channel, fds>>

StartInLoop(set) ==
    /\ \/ connect /\ Connect(state, retryDelay, set)
       \/ /\ ~connect
          /\ Assert(51, state = "disconnected")
          /\ timers' = set
          /\ UNCHANGED <<state, channel, retryDelay, fds, gaveUp>>
    /\ UNCHANGED <<connect, clientVars, userVars>>

\* A fault: the functor that deletes the channel is queued last.
RemoveAndResetLast(later) ==
    /\ channel' = "removed"
    /\ pending' = pending \o later \o <<Functor("reset")>>

\* removeAndResetChannel(): the channel may be inside handleEvent(), so a
\* functor will delete it.  later: what the caller queues afterwards.
RemoveAndReset(later) ==
    /\ channel' = "removed"
    /\ pending' = pending \o <<Functor("reset")>> \o later

\* A fault: the old socket stays open.
FailureLeaks ==
    /\ RemoveAndReset(<<>>)
    /\ Retry(connect, retryDelay, timers)
    /\ UNCHANGED <<connect, fds, gaveUp, clientVars, userVars, pc, restarting, fresh, broken>>

\* The connection attempt ends and its socket is closed by retry().
Failure ==
    /\ RemoveAndReset(<<>>)
    /\ Retry(connect, retryDelay, timers)
    /\ fds' = fds - 1
    /\ UNCHANGED <<connect, gaveUp, clientVars, userVars, pc, restarting, fresh, broken>>

StopInLoop ==
    \/ state = "connecting" /\ Failure
    \/ /\ state # "connecting"
       /\ UNCHANGED <<connectorVars, clientVars, userVars, pc, restarting, pending,
                      fresh, broken>>

\* A step of the loop's event phase.
Handling == pc = "events" /\ ~restarting /\ broken = {}

\* A timer of retry(); it owns a reference to the Connector.
RetryTimer ==
    /\ Handling
    /\ timers > 0 /\ Queue = <<>>
    /\ StartInLoop(timers - 1)
    /\ UNCHANGED loopVars

\* handleError(), or handleWrite() with a socket error or a self-connection.
\* After handleError() the same event may call handleWrite(), which then
\* finds kDisconnected and does nothing.
HandleFailure ==
    /\ Handling
    /\ channel = "registered" /\ state = "connecting"
    /\ Failure
    /\ UNCHANGED batch

FreeConns == Conns \ (conns \cup UNION {Queue[i].of : i \in DOMAIN Queue})

\* handleWrite() and newConnection(); the connection callback may call
\* forceClose(), which is queued.
HandleConnected ==
    /\ Handling
    /\ channel = "registered" /\ state = "connecting" /\ connect
    /\ state' = "connected"
    /\ \E c \in FreeConns :
          /\ connection' = {c}
          /\ conns' = conns \cup {c} /\ fresh' = {c}
          /\ \E later \in {<<>>, <<ConnFunctor("forceClose", c)>>} : RemoveAndReset(later)
    /\ UNCHANGED <<connect, retryDelay, timers, fds, gaveUp, clientConnect, alive,
                   keepAlive, userVars, pc, restarting, batch, broken>>

\* handleWrite(), connected after stop(): the state stays kConnected.
HandleUnwanted ==
    /\ Handling
    /\ channel = "registered" /\ state = "connecting" /\ ~connect
    /\ state' = "connected"
    /\ fds' = fds - 1
    /\ RemoveAndReset(<<>>)
    /\ UNCHANGED <<connect, retryDelay, timers, gaveUp, clientVars, userVars, pc,
                   restarting, batch, fresh, broken>>

-----------------------------------------------------------------------------
(* TcpClient, in the loop.                                                 *)

\* A fault: a client that was stopped reconnects.
ReconnectsAlways == TRUE

\* retry_ && connect_
Reconnects == clientConnect

\* The close callback of c: TcpClient::removeConnection() up to restart(),
\* or detail::removeConnection() when the client is gone.
RemoveConnection(c) ==
    /\ conns' = conns \ {c}
    /\ pending' = Append(pending, ConnFunctor("connectDestroyed", c))
    /\ IF alive
       THEN /\ Assert(171, connection = {c})
            /\ connection' = {}
            /\ restarting' = Reconnects
       ELSE UNCHANGED <<broken, connection, restarting>>
    /\ UNCHANGED <<connectorVars, clientConnect, alive, keepAlive, userVars, pc, fresh>>

\* The server closes the connection.
PeerCloses(c) ==
    /\ Handling
    /\ c \in conns \ fresh
    /\ RemoveConnection(c)
    /\ UNCHANGED batch

\* restart() sets kDisconnected, and connect_ again, whatever stop() did since
\* it was decided.
Restart ==
    /\ restarting /\ broken = {}
    /\ restarting' = FALSE
    /\ connect' = TRUE
    /\ Connect("disconnected", InitRetryDelay, timers)
    /\ UNCHANGED <<clientVars, userVars, pc, pending, batch, fresh>>

\* Functors that the Connector bound with its raw this ("FIXME: unsafe").
ConnectorQueued == UNION {Queued(n) : n \in {"start", "stop", "reset"}}

\* ~TcpClient() in the loop thread, by an owner that does not destroy a
\* connected client while functors of its Connector are queued: nothing
\* would keep the Connector alive for them.  The close callback is replaced;
\* forceClose() is called if nobody else holds the connection.
Destroy ==
    /\ alive /\ user = "idle" /\ ~restarting /\ broken = {}
    /\ alive' = FALSE
    /\ \/ /\ connection = {}
          /\ connect' = FALSE
          /\ keepAlive' = TRUE
          /\ pending' = Append(pending, Functor("stop"))
       \/ /\ connection # {} /\ ConnectorQueued = {}
          /\ \E c \in connection, unique \in BOOLEAN :
                pending' = IF unique THEN Append(pending, ConnFunctor("forceClose", c))
                                     ELSE pending
          /\ UNCHANGED <<connect, keepAlive>>
    /\ UNCHANGED <<state, channel, retryDelay, timers, fds, gaveUp, clientConnect,
                   connection, conns, userVars, pc, restarting, batch, fresh, broken>>

\* The timer of ~TcpClient() drops its reference to the Connector.
KeepAliveTimer ==
    /\ Handling
    /\ keepAlive /\ Queue = <<>>
    /\ keepAlive' = FALSE
    /\ UNCHANGED <<connectorVars, clientConnect, connection, conns, alive, userVars,
                   loopVars, broken>>

-----------------------------------------------------------------------------
(* The loop: the events of an iteration, then its functors.                *)

BeginFunctors ==
    /\ Handling /\ pending # <<>>
    /\ pc' = "functors"
    /\ batch' = pending /\ pending' = <<>> /\ fresh' = {}
    /\ UNCHANGED <<connectorVars, clientVars, userVars, restarting, broken>>

EndFunctors ==
    /\ pc = "functors" /\ batch = <<>> /\ ~restarting
    /\ pc' = "events"
    /\ UNCHANGED <<connectorVars, clientVars, userVars, restarting, pending, batch,
                   fresh, broken>>

RunFunctor(name) ==
    /\ pc = "functors" /\ ~restarting /\ broken = {}
    /\ batch # <<>> /\ Head(batch).f = name
    /\ batch' = Tail(batch)

RunStart ==
    /\ RunFunctor("start")
    /\ StartInLoop(timers)
    /\ UNCHANGED <<pc, restarting, pending, fresh>>

RunStop == RunFunctor("stop") /\ StopInLoop

ResetChannel ==
    /\ RunFunctor("reset")
    /\ channel' = "none"
    /\ UNCHANGED <<connect, state, retryDelay, timers, fds, gaveUp, clientVars,
                   userVars, pc, restarting, pending, fresh, broken>>

\* forceCloseInLoop(): nothing is left to do if the peer closed first.
RunForceClose ==
    /\ RunFunctor("forceClose")
    /\ \/ \E c \in Head(batch).of \cap conns : RemoveConnection(c)
       \/ /\ Head(batch).of \cap conns = {}
          /\ UNCHANGED <<connectorVars, clientVars, userVars, pc, restarting,
                         pending, fresh, broken>>

\* connectDestroyed(); the last reference is gone and the socket closed.
ConnectDestroyed ==
    /\ RunFunctor("connectDestroyed")
    /\ fds' = fds - 1
    /\ UNCHANGED <<connect, state, channel, retryDelay, timers, gaveUp, clientVars,
                   userVars, pc, restarting, pending, fresh, broken>>

-----------------------------------------------------------------------------

Next ==
    \/ CallConnect \/ ConnectorStart \/ Disconnect
    \/ CallStop \/ ConnectorStop \/ StopQueued \/ Destroy
    \/ RetryTimer \/ HandleFailure \/ HandleConnected \/ HandleUnwanted
    \/ (\E c \in Conns : PeerCloses(c)) \/ Restart \/ KeepAliveTimer
    \/ BeginFunctors \/ EndFunctors \/ RunStart \/ RunStop \/ ResetChannel
    \/ RunForceClose \/ ConnectDestroyed

Spec == Init /\ [][Next]_vars

-----------------------------------------------------------------------------
\* Nothing refers to the Connector any more: it is destructed.
ConnectorGone == ~alive /\ ~keepAlive /\ timers = 0

(* The assertions of Connector.cc and TcpClient.cc: the state when         *)
(* startInLoop() begins (51), no channel left when connecting() makes one  *)
(* (133), the connection that closes is the client's (171).  A channel     *)
(* that can still report events belongs to an attempt under way (195), and *)
(* when the Connector is destructed its channel is deleted (39) and no     *)
(* functor with its raw this is left in the loop.                          *)
AssertionsHold ==
    /\ broken = {}
    /\ channel = "registered" <=> state = "connecting"
    /\ ConnectorGone => channel = "none" /\ ConnectorQueued = {}

(* No socket is leaked or closed twice on any path: each open one belongs  *)
(* to the attempt under way, to a connection that is not closed, or to one *)
(* whose connectDestroyed() is queued.                                     *)
SocketsOwned ==
    fds = (IF state = "connecting" THEN 1 ELSE 0)
          + Cardinality(conns) + Cardinality(Queued("connectDestroyed"))

(* The chain of retries neither breaks nor forks: at any time at most one  *)
(* of a queued startInLoop(), a retry timer and an attempt or connection   *)
(* exists, and while connect_ is set and no error was final, exactly one.  *)
RetryChain ==
    LET links == timers + Cardinality(Queued("start"))
                 + (IF state = "disconnected" THEN 0 ELSE 1)
    IN  links <= 1 /\ (connect /\ ~gaveUp => links = 1)

(* Once stop() has returned, the client gets no new connection until the   *)
(* next connect(): not from an attempt that succeeds meanwhile, a retry    *)
(* timer that was not cancelled (Connector.cc:66), or a connection that    *)
(* closes later.  A stop() that begins between TcpClient.cc:176 and        *)
(* Connector.cc:126 is the exception: restart() undoes it.                 *)
StopSticks == [][stopped = "yes" /\ user = "idle" => conns' \subseteq conns]_vars
=============================================================================
