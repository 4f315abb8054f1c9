---------------------------- MODULE FunctorQueue ----------------------------
(***************************************************************************)
(* What an EventLoop promises to the callers of runInLoop() and            *)
(* queueInLoop() (muduo/net/EventLoop.h): every functor handed to the loop *)
(* is executed at most once, by the loop thread, and the queued ones in    *)
(* the order in which they were queued, whichever thread queued them.  A   *)
(* runInLoop() made by the loop thread itself overtakes the queue.         *)
(***************************************************************************)
EXTENDS Sequences

CONSTANT Functors   \* the distinct functors that may ever be submitted

VARIABLES
    queue,          \* accepted and not yet executed
    ran             \* executed, in order

vars == <<queue, ran>>

Accepted == {queue[i] : i \in DOMAIN queue} \cup {ran[i] : i \in DOMAIN ran}

Init == queue = <<>> /\ ran = <<>>

Submit(f) ==
    /\ f \notin Accepted
    /\ queue' = Append(queue, f)
    /\ UNCHANGED ran

RunNext ==
    /\ queue # <<>>
    /\ ran' = Append(ran, Head(queue))
    /\ queue' = Tail(queue)

RunDirect(f) ==
    /\ f \notin Accepted
    /\ ran' = Append(ran, f)
    /\ UNCHANGED queue

Next == RunNext \/ \E f \in Functors : Submit(f) \/ RunDirect(f)

Spec == Init /\ [][Next]_vars
=============================================================================
