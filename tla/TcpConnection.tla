--------------------------- MODULE TcpConnection ---------------------------
(***************************************************************************)
(* muduo/net/TcpConnection.cc with the parts of Channel.cc it drives: one  *)
(* connection of a TcpServer that shares its loop, from connectEstablished *)
(* to connectDestroyed.  The loop thread dispatches the channel's events   *)
(* and runs queued functors; its user code and that of foreign threads     *)
(* calls send(), shutdown(), forceClose() and the rest at any moment.      *)
(*                                                                         *)
(* Data is abstracted to units: a message is a run of equal units, its     *)
(* number.  What arrives from the peer only reaches user code, so input is *)
(* modelled by user code acting at any moment.  An assert of the code that *)
(* would fail is recorded in failed, and execution goes on as with NDEBUG. *)
(***************************************************************************)
EXTENDS Naturals, Sequences, FiniteSets

CONSTANTS
    Users,          \* foreign threads that send
    Closers,        \* threads that close, a subset of Users and {"loop"}
    ServerStops,    \* when ~TcpServer() may run: "never", "orderly" or "any"
    HighWaterMark,  \* highWaterMark_, in units
    Sizes,          \* sizes of messages, in units
    MaxSends,       \* bound: messages sent
    MaxPending      \* bound: queue length at which user code stops queueing

ASSUME ClosersAssumption == Closers \subseteq Users \cup {"loop"} /\ "loop" \notin Users
ASSUME ServerStopsAssumption == ServerStops \in {"never", "orderly", "any"}
ASSUME SizesAssumption == Sizes \cup {HighWaterMark, MaxSends, MaxPending} \subseteq Nat \ {0}

VARIABLES
    state,          \* state_
    events,         \* channel_->events_; reading_ repeats whether it has "read"
    outputBuffer,   \* outputBuffer_
    peer,           \* open, fin (sent FIN), rst (reset, error unread), gone (error read)
    wire,           \* history: the units written to the socket
    writeShut,      \* shutdownWrite() was called
    phase,          \* where the loop thread is in its iteration
    revents,        \* channel_->revents_: callbacks this dispatch has still to make
    pendingFunctors,\* the functors of this connection in the loop's queue
    batch,          \* how many of them doPendingFunctors() has still to run
    userPc,         \* what each foreign thread has checked and has still to do
    delayed,        \* a forceCloseWithDelay() timer is set
    owner,          \* TcpServer::connections_ holds the connection
    sends,          \* history: the messages sent, each with its thread and size
    accepted,       \* history: the units sendInLoop() took responsibility for
    owed,           \* history: messages the loop thread had sent when it called shutdown()
    resurrected,    \* history: a foreign thread's setState() hit kDisconnected
    removals,       \* history: executions of connectDestroyed()
    failed          \* asserts that would have failed

socketVars == <<outputBuffer, wire, writeShut>>
loopVars == <<phase, revents, pendingFunctors, batch>>
historyVars == <<sends, accepted, owed, resurrected, removals, failed>>
vars == <<state, events, socketVars, peer, loopVars, userPc, delayed, owner, historyVars>>

StateE == {"kDisconnected", "kConnecting", "kConnected", "kDisconnecting"}
Threads == Users \cup {"loop"}
Messages == 1 .. MaxSends

Call(op, msg) == [op |-> op, msg |-> msg]
Idle == Call("idle", 0)
Functor == [op : {"send"}, msg : Messages]
    \cup [op : {"shutdown", "forceClose", "writeComplete", "highWater", "destroy"},
          msg : {0}]

TypeOK ==
    /\ state \in StateE
    /\ events \subseteq {"read", "write"}
    /\ outputBuffer \in Seq(Messages) /\ wire \in Seq(Messages) /\ accepted \in Seq(Messages)
    /\ writeShut \in BOOLEAN
    /\ peer \in {"open", "fin", "rst", "gone"}
    /\ phase \in {"poll", "events", "functors"}
    /\ revents \subseteq {"hup", "in", "out"}
    /\ pendingFunctors \in Seq(Functor) /\ batch \in 0 .. Len(pendingFunctors)
    /\ userPc \in [Users -> {Idle} \cup [op : {"send"}, msg : Messages]
                            \cup [op : {"shutdown", "forceClose", "queueShutdown",
                                         "queueForceClose"}, msg : {0}]]
    /\ delayed \in BOOLEAN /\ owner \in BOOLEAN
    /\ sends \in Seq([thread : Threads, size : Sizes])
    /\ owed \subseteq Messages
    /\ resurrected \in BOOLEAN
    /\ removals \in Nat
    /\ failed \subseteq {"handleClose", "erased", "isNoneEvent"}

\* TcpServer::newConnection(), in the accept callback of the loop, has put the
\* connection in its map.
Init ==
    /\ state = "kConnecting"
    /\ events = {}
    /\ outputBuffer = <<>> /\ wire = <<>> /\ accepted = <<>>
    /\ writeShut = FALSE
    /\ peer = "open"
    /\ phase = "events" /\ revents = {}
    /\ pendingFunctors = <<>> /\ batch = 0
    /\ userPc = [u \in Users |-> Idle]
    /\ delayed = FALSE /\ owner = TRUE
    /\ sends = <<>> /\ owed = {}
    /\ resurrected = FALSE /\ removals = 0 /\ failed = {}

isWriting == "write" \in events
WriteFails == writeShut \/ peer \in {"rst", "gone"}
Open == state \in {"kConnected", "kDisconnecting"}

-----------------------------------------------------------------------------
(* The functions that run in the loop thread.  Each leaves queue as the    *)
(* loop's queue plus the functors it adds.                                 *)

\* A fault: a message overtakes what is still in the output buffer.
triesDirectWriteAlways == TRUE

\* "if no thing in output queue, try writing directly"
triesDirectWrite == ~isWriting /\ outputBuffer = <<>>

crossesHighWater(oldLen, remaining) ==
    oldLen + remaining >= HighWaterMark /\ oldLen < HighWaterMark

\* A fault: writing is not enabled for what could not be written.
notEnabled(es) == es

enableWriting(es) == es \cup {"write"}

Units(k, n) == [i \in 1 .. n |-> k]

\* nwrote units go out directly, the rest is buffered.
BufferOutput(k, n, nwrote, queue) ==
    LET remaining == n - nwrote
        oldLen    == Len(outputBuffer)
        crossed   == crossesHighWater(oldLen, remaining)
    IN
    /\ accepted' = accepted \o Units(k, n)
    /\ wire' = wire \o Units(k, nwrote)
    /\ IF remaining = 0
       THEN /\ pendingFunctors' = Append(queue, Call("writeComplete", 0))
            /\ UNCHANGED <<outputBuffer, events>>
       ELSE /\ pendingFunctors' = IF crossed THEN Append(queue, Call("highWater", 0)) ELSE queue
            /\ outputBuffer' = outputBuffer \o Units(k, remaining)
            /\ events' = enableWriting(events)

\* sendInLoop().  A write on a broken socket fails for good and the message is
\* given up; any other failed or partial write leaves units to the buffer.
sendInLoop(k, n, queue) ==
    \/ /\ state = "kDisconnected" \/ (triesDirectWrite /\ WriteFails)
       /\ pendingFunctors' = queue
       /\ UNCHANGED <<events, outputBuffer, wire, accepted>>
    \/ /\ state # "kDisconnected"
       /\ ~triesDirectWrite
       /\ BufferOutput(k, n, 0, queue)
    \/ /\ state # "kDisconnected"
       /\ triesDirectWrite /\ ~WriteFails
       /\ \E nwrote \in 0 .. n : BufferOutput(k, n, nwrote, queue)

\* A fault: the write side is shut down over a buffer that is not empty.
shutdownInLoopAtOnce == TRUE

\* shutdownInLoop(): whether it shuts down the write side.
shutdownInLoop == ~isWriting

\* ~TcpServer() or removeConnectionInLoop() has taken the connection out of
\* the map; connectDestroyed() then removes the channel.
connectDestroyed ==
    LET left == IF state = "kConnected" THEN {} ELSE events IN
    /\ state' = IF state = "kConnected" THEN "kDisconnected" ELSE state
    /\ events' = left
    /\ removals' = removals + 1
    /\ failed' = IF left = {} THEN failed ELSE failed \cup {"isNoneEvent"}

\* A fault: closing does not take the connection out of the map.
closeCallbackKeeps(queue) == pendingFunctors' = queue /\ UNCHANGED owner

\* closeCallback_: TcpServer::removeConnectionInLoop().
closeCallback(queue) ==
    /\ pendingFunctors' = Append(queue, Call("destroy", 0))
    /\ owner' = FALSE

\* A fault: the channel stays registered.
eventsAfterCloseKept == events

eventsAfterClose == {}

handleClose(queue) ==
    /\ failed' = failed \cup (IF Open THEN {} ELSE {"handleClose"})
                        \cup (IF owner THEN {} ELSE {"erased"})
    /\ state' = "kDisconnected"
    /\ events' = eventsAfterClose
    /\ closeCallback(queue)

-----------------------------------------------------------------------------
(* Events: Channel::handleEventWithGuard() and its callbacks.              *)

\* newConnection() ends with connectEstablished(), in the same callback.
ConnectEstablished ==
    /\ state = "kConnecting"
    /\ state' = "kConnected"
    /\ events' = events \cup {"read"}
    /\ UNCHANGED <<socketVars, peer, loopVars, userPc, delayed, owner, historyVars>>

\* The channel is in the poller while it wants any event; a hang-up counts
\* only where reading is off, since it comes with POLLIN otherwise.
Ready ==
    (IF "read" \in events /\ peer # "open" THEN {"in"} ELSE {})
    \cup (IF events # {} /\ "read" \notin events
             /\ (peer \in {"rst", "gone"} \/ (peer = "fin" /\ writeShut))
          THEN {"hup"} ELSE {})

Poll(writable) ==
    /\ phase = "poll"
    /\ writable => isWriting
    /\ phase' = "events"
    /\ revents' = Ready \cup (IF writable THEN {"out"} ELSE {})
    /\ UNCHANGED <<state, events, socketVars, peer, pendingFunctors, batch, userPc,
                   delayed, owner, historyVars>>

HandleHup ==
    /\ phase = "events"
    /\ "hup" \in revents
    /\ revents' = revents \ {"hup"}
    /\ handleClose(pendingFunctors)
    /\ UNCHANGED <<socketVars, peer, phase, batch, userPc, delayed,
                   sends, accepted, owed, resurrected, removals>>

\* read() reports the reset once; handleError() only logs it.
HandleReadError ==
    /\ phase = "events"
    /\ "in" \in revents
    /\ peer = "rst"
    /\ peer' = "gone"
    /\ revents' = revents \ {"in"}
    /\ UNCHANGED <<state, events, socketVars, phase, pendingFunctors, batch, userPc,
                   delayed, owner, historyVars>>

\* read() returns 0.
HandleReadClosed ==
    /\ phase = "events"
    /\ "in" \in revents
    /\ peer \in {"fin", "gone"}
    /\ revents' = revents \ {"in"}
    /\ handleClose(pendingFunctors)
    /\ UNCHANGED <<socketVars, peer, phase, batch, userPc, delayed,
                   sends, accepted, owed, resurrected, removals>>

\* A fault: handleWrite() leaves the shutdown to shutdownInLoop().
neverShutsAfterDrain == FALSE

\* "if (state_ == kDisconnecting) shutdownInLoop()"
shutsAfterDrain == state = "kDisconnecting"

Written(n) ==
    LET rest == SubSeq(outputBuffer, n + 1, Len(outputBuffer)) IN
    /\ wire' = wire \o SubSeq(outputBuffer, 1, n)
    /\ outputBuffer' = rest
    /\ IF rest = <<>>
       THEN /\ events' = events \ {"write"}
            /\ pendingFunctors' = Append(pendingFunctors, Call("writeComplete", 0))
            /\ writeShut' = (writeShut \/ shutsAfterDrain)
       ELSE UNCHANGED <<events, pendingFunctors, writeShut>>

HandleWrite ==
    /\ phase = "events"
    /\ revents = {"out"}
    /\ revents' = {}
    /\ IF isWriting /\ ~WriteFails
       THEN \E n \in 1 .. Len(outputBuffer) : Written(n)
       ELSE UNCHANGED <<events, outputBuffer, wire, writeShut, pendingFunctors>>
    /\ UNCHANGED <<state, peer, phase, batch, userPc, delayed, owner,
                   sends, accepted, owed, resurrected, removals, failed>>

\* A fault: one functor too many is taken.
oneTooMany == Len(pendingFunctors) + 1

\* doPendingFunctors() swaps the whole vector out.
swappedOut == Len(pendingFunctors)

EventsDone ==
    /\ phase = "events"
    /\ state # "kConnecting"
    /\ revents = {}
    /\ phase' = "functors"
    /\ batch' = swappedOut
    /\ UNCHANGED <<state, events, socketVars, peer, revents, pendingFunctors, userPc,
                   delayed, owner, historyVars>>

-----------------------------------------------------------------------------
(* Functors.                                                               *)

RunSend(rest) ==
    /\ LET k == Head(pendingFunctors).msg IN sendInLoop(k, sends[k].size, rest)
    /\ UNCHANGED <<state, writeShut, owner, removals, failed>>

RunShutdown(rest) ==
    /\ writeShut' = (writeShut \/ shutdownInLoop)
    /\ pendingFunctors' = rest
    /\ UNCHANGED <<state, events, outputBuffer, wire, accepted, owner, removals, failed>>

\* forceCloseInLoop()
RunForceClose(rest) ==
    /\ IF Open THEN handleClose(rest)
               ELSE pendingFunctors' = rest /\ UNCHANGED <<state, events, owner, failed>>
    /\ UNCHANGED <<outputBuffer, wire, writeShut, accepted, removals>>

RunDestroy(rest) ==
    /\ connectDestroyed
    /\ pendingFunctors' = rest
    /\ UNCHANGED <<outputBuffer, wire, writeShut, accepted, owner>>

\* writeCompleteCallback_ and highWaterMarkCallback_ are user code.
RunCallback(rest) ==
    /\ pendingFunctors' = rest
    /\ UNCHANGED <<state, events, outputBuffer, wire, writeShut, accepted, owner,
                   removals, failed>>

RunFunctor ==
    /\ phase = "functors"
    /\ batch > 0
    /\ batch' = batch - 1
    /\ LET op == Head(pendingFunctors).op
           rest == Tail(pendingFunctors)
       IN \/ op = "send" /\ RunSend(rest)
          \/ op = "shutdown" /\ RunShutdown(rest)
          \/ op = "forceClose" /\ RunForceClose(rest)
          \/ op = "destroy" /\ RunDestroy(rest)
          \/ op \in {"writeComplete", "highWater"} /\ RunCallback(rest)
    /\ UNCHANGED <<peer, phase, revents, userPc, delayed, sends, owed, resurrected>>

FunctorsDone ==
    /\ phase = "functors"
    /\ batch = 0
    /\ phase' = "poll"
    /\ UNCHANGED <<state, events, socketVars, peer, revents, pendingFunctors, batch, userPc,
                   delayed, owner, historyVars>>

-----------------------------------------------------------------------------
(* User code of the loop thread: callbacks of this connection, of others,  *)
(* of timers.  A call that the state check turns into nothing is no step.  *)

InUserCode == phase \in {"events", "functors"}
SentByLoop == {k \in 1 .. Len(sends) : sends[k].thread = "loop"}

Send(n) ==
    /\ InUserCode
    /\ state = "kConnected"
    /\ Len(sends) < MaxSends
    /\ sends' = Append(sends, [thread |-> "loop", size |-> n])
    /\ sendInLoop(Len(sends) + 1, n, pendingFunctors)
    /\ UNCHANGED <<state, peer, writeShut, phase, revents, batch, userPc, delayed,
                   owner, owed, resurrected, removals, failed>>

Shutdown ==
    /\ InUserCode
    /\ "loop" \in Closers
    /\ state = "kConnected"
    /\ state' = "kDisconnecting"
    /\ writeShut' = (writeShut \/ shutdownInLoop)
    /\ owed' = owed \cup SentByLoop
    /\ UNCHANGED <<events, outputBuffer, wire, peer, loopVars, userPc, delayed, owner,
                   sends, accepted, resurrected, removals, failed>>

\* forceClose(), called by user code or by the timer of forceCloseWithDelay().
forceClose ==
    /\ Open
    /\ Len(pendingFunctors) < MaxPending
    /\ state' = "kDisconnecting"
    /\ pendingFunctors' = Append(pendingFunctors, Call("forceClose", 0))

ForceClose ==
    /\ InUserCode
    /\ "loop" \in Closers
    /\ forceClose
    /\ UNCHANGED <<events, socketVars, peer, phase, revents, batch, userPc, delayed, owner,
                   historyVars>>

ForceCloseWithDelay ==
    /\ InUserCode
    /\ "loop" \in Closers
    /\ Open
    /\ state' = "kDisconnecting"
    /\ delayed' = TRUE
    /\ UNCHANGED <<events, socketVars, peer, loopVars, userPc, owner, historyVars>>

\* The timer fires, in the events phase of an iteration; forceClose() checks
\* the state again.
DelayedForceClose ==
    /\ phase = "events"
    /\ delayed
    /\ delayed' = FALSE
    /\ forceClose \/ (~Open /\ UNCHANGED <<state, pendingFunctors>>)
    /\ UNCHANGED <<events, socketVars, peer, phase, revents, batch, userPc, owner, historyVars>>

\* startReadInLoop() and stopReadInLoop(); user code checks connected() first,
\* and while connected reading_ says the same as channel_->isReading().
StartRead ==
    /\ InUserCode
    /\ state = "kConnected"
    /\ "read" \notin events
    /\ events' = events \cup {"read"}
    /\ UNCHANGED <<state, socketVars, peer, loopVars, userPc, delayed, owner, historyVars>>

StopRead ==
    /\ InUserCode
    /\ state = "kConnected"
    /\ "read" \in events
    /\ events' = events \ {"read"}
    /\ UNCHANGED <<state, socketVars, peer, loopVars, userPc, delayed, owner, historyVars>>

\* ~TcpServer() in the loop thread: connectDestroyed() runs within the call.
\* The channel is not waiting to be dispatched (EventLoop::removeChannel()).
\* An orderly stop meets no connection that is being closed.
StopServer ==
    /\ InUserCode
    /\ owner
    /\ state # "kConnecting"
    /\ revents = {}
    /\ ServerStops = "any" \/ (ServerStops = "orderly" /\ state = "kConnected")
    /\ owner' = FALSE
    /\ connectDestroyed
    /\ UNCHANGED <<socketVars, peer, loopVars, userPc, delayed,
                   sends, accepted, owed, resurrected>>

-----------------------------------------------------------------------------
(* A foreign thread: the state check, the state change and the queueing    *)
(* are separate steps.                                                     *)

UserSend(u, n) ==
    /\ userPc[u] = Idle
    /\ state = "kConnected"
    /\ Len(sends) < MaxSends
    /\ sends' = Append(sends, [thread |-> u, size |-> n])
    /\ userPc' = [userPc EXCEPT ![u] = Call("send", Len(sends) + 1)]
    /\ UNCHANGED <<state, events, socketVars, peer, loopVars, delayed, owner,
                   accepted, owed, resurrected, removals, failed>>

UserQueuesSend(u) ==
    /\ userPc[u].op = "send"
    /\ pendingFunctors' = Append(pendingFunctors, userPc[u])
    /\ userPc' = [userPc EXCEPT ![u] = Idle]
    /\ UNCHANGED <<state, events, socketVars, peer, phase, revents, batch, delayed, owner,
                   historyVars>>

UserShutdown(u) ==
    /\ u \in Closers
    /\ userPc[u] = Idle
    /\ state = "kConnected"
    /\ userPc' = [userPc EXCEPT ![u] = Call("shutdown", 0)]
    /\ UNCHANGED <<state, events, socketVars, peer, loopVars, delayed, owner, historyVars>>

UserForceClose(u) ==
    /\ u \in Closers
    /\ userPc[u] = Idle
    /\ Open
    /\ Len(pendingFunctors) < MaxPending
    /\ userPc' = [userPc EXCEPT ![u] = Call("forceClose", 0)]
    /\ UNCHANGED <<state, events, socketVars, peer, loopVars, delayed, owner, historyVars>>

UserSetsState(u) ==
    /\ userPc[u].op \in {"shutdown", "forceClose"}
    /\ state' = "kDisconnecting"
    /\ resurrected' = (resurrected \/ state = "kDisconnected")
    /\ userPc' = [userPc EXCEPT ![u] = Call(IF userPc[u].op = "shutdown" THEN "queueShutdown"
                                            ELSE "queueForceClose", 0)]
    /\ UNCHANGED <<events, socketVars, peer, loopVars, delayed, owner,
                   sends, accepted, owed, removals, failed>>

UserQueuesClose(u) ==
    /\ userPc[u].op \in {"queueShutdown", "queueForceClose"}
    /\ pendingFunctors' = Append(pendingFunctors,
                                 Call(IF userPc[u].op = "queueShutdown" THEN "shutdown"
                                      ELSE "forceClose", 0))
    /\ userPc' = [userPc EXCEPT ![u] = Idle]
    /\ UNCHANGED <<state, events, socketVars, peer, phase, revents, batch, delayed, owner,
                   historyVars>>

-----------------------------------------------------------------------------
(* The peer.                                                               *)

PeerCloses ==
    /\ peer = "open"
    /\ peer' = "fin"
    /\ UNCHANGED <<state, events, socketVars, loopVars, userPc, delayed, owner, historyVars>>

PeerResets ==
    /\ peer \in {"open", "fin"}
    /\ peer' = "rst"
    /\ UNCHANGED <<state, events, socketVars, loopVars, userPc, delayed, owner, historyVars>>

-----------------------------------------------------------------------------
LoopStep ==
    \/ ConnectEstablished \/ HandleHup \/ HandleReadError \/ HandleReadClosed \/ HandleWrite \/ EventsDone
    \/ RunFunctor \/ FunctorsDone

UserCode ==
    \/ Shutdown \/ ForceClose \/ ForceCloseWithDelay \/ StartRead \/ StopRead \/ StopServer
    \/ \E n \in Sizes : Send(n)

UserStep(u) ==
    \/ UserQueuesSend(u) \/ UserSetsState(u) \/ UserQueuesClose(u)

ForeignCall(u) == UserShutdown(u) \/ UserForceClose(u) \/ \E n \in Sizes : UserSend(u, n)

Next ==
    \/ LoopStep \/ UserCode \/ DelayedForceClose
    \/ \E writable \in BOOLEAN : Poll(writable)
    \/ \E u \in Users : UserStep(u) \/ ForeignCall(u)
    \/ PeerCloses \/ PeerResets

\* The loop thread runs, a timer that is set fires, a foreign thread finishes
\* its call, and a peer that stays connected keeps reading, so that a socket
\* waiting to be writable is found writable again and again.
Fairness ==
    /\ WF_vars(LoopStep)
    /\ WF_vars(\E writable \in BOOLEAN : Poll(writable))
    /\ SF_vars(Poll(TRUE))
    /\ SF_vars(DelayedForceClose)
    /\ \A u \in Users : WF_vars(UserStep(u))

Spec == Init /\ [][Next]_vars /\ Fairness

-----------------------------------------------------------------------------
(* Properties.                                                             *)

\* No unit is lost, duplicated or reordered between sendInLoop() and the wire,
\* whether it was written directly or through the buffer, and each thread's
\* messages go out in the order it sent them.
OutputInOrder ==
    /\ wire \o outputBuffer = accepted
    /\ \A i, j \in DOMAIN accepted :
        i < j /\ sends[accepted[i]].thread = sends[accepted[j]].thread
            => accepted[i] <= accepted[j]

\* The connection is open, and not because a foreign close that raced with the
\* disconnection has set the state back to kDisconnecting.
StillOpen == Open /\ ~resurrected

\* While the connection is open, the channel waits for writability exactly when
\* there is something to write: output neither stalls nor spins.
WritesIffBuffered == StillOpen => (isWriting <=> outputBuffer # <<>>)

\* What was sent before shutdown() is on the wire.
Drained == \A k \in owed : Cardinality({i \in DOMAIN wire : wire[i] = k}) = sends[k].size

\* When the write side of an open connection is shut down, everything the loop
\* thread had sent before its shutdown() is on the wire, unless the peer reset,
\* however foreign sends and closes interleave (a foreign thread has no such
\* promise: its setState() overtakes the send() it queued before).
GracefulShutdown == writeShut /\ StillOpen /\ peer \in {"open", "fin"} => Drained

\* The asserts of handleClose(), removeConnectionInLoop() and Channel::remove()
\* hold, and connectDestroyed() is executed at most once, unless a foreign close
\* raced with the disconnection (the "FIXME: use compare and swap" of shutdown()
\* and forceClose()).
ClosesOnce == ~resurrected => failed = {} /\ removals <= 1

\* A connection that is being closed, by shutdown(), forceClose() or
\* forceCloseWithDelay(), gets its write side shut down or is disconnected.
ShutdownCompletes == state = "kDisconnecting" ~> writeShut \/ state = "kDisconnected"

\* A connection that is closed, or that forceClose() was called on, is taken
\* apart: connectDestroyed() is executed.
CloseCompletes ==
    state = "kDisconnected" \/ (\E i \in DOMAIN pendingFunctors : pendingFunctors[i].op = "forceClose")
        ~> removals > 0
=============================================================================
