---------------------------- MODULE AsyncLogging ----------------------------
(***************************************************************************)
(* muduo/base/AsyncLogging.cc: any thread appends log lines to a buffer    *)
(* under the mutex; one logging thread swaps the filled buffers out and    *)
(* writes them to the file.  Four buffers circulate so that append()       *)
(* hardly ever allocates: currentBuffer_ and nextBuffer_ with the front    *)
(* end, newBuffer1 and newBuffer2 with the logging thread.                 *)
(*                                                                         *)
(* A line is the number of the append() that wrote it, a buffer the        *)
(* sequence of its lines, a buffer pointer a sequence that is empty when   *)
(* the pointer is null.  append() keeps no state between calls, so it      *)
(* needs no thread of its own.                                             *)
(***************************************************************************)
EXTENDS Naturals, Sequences, SequencesExt

CONSTANTS
    BufferLines,    \* how many lines fit in a buffer (kLargeBuffer)
    MaxBuffers,     \* more buffers than this to write are dropped (25)
    MaxLines        \* bound: how many times append() is called

ASSUME BoundsAssumption ==
    /\ BufferLines \in Nat \ {0}
    /\ MaxBuffers \in Nat /\ MaxBuffers >= 2
    /\ MaxLines \in Nat

VARIABLES
    running,        \* running_
    owner,          \* where the thread that calls start() and stop() is
    latch,          \* the count of latch_
    currentBuffer,  \* *currentBuffer_, which is never null outside the mutex
    nextBuffer,     \* nextBuffer_
    buffers,        \* buffers_
    pc,             \* where the logging thread is
    newBuffer1, newBuffer2, buffersToWrite,   \* locals of threadFunc()
    file,           \* the lines handed to the LogFile
    flushed,        \* how many of them were flushed
    reported,       \* how many buffers the "Dropped log messages" lines name
    appended        \* how many times append() was called

frontVars == <<currentBuffer, nextBuffer, buffers, appended>>
threadVars == <<newBuffer1, newBuffer2, buffersToWrite>>
fileVars == <<file, flushed, reported>>
ownerVars == <<running, owner, latch>>
vars == <<frontVars, threadVars, fileVars, ownerVars, pc>>

Null == <<>>
Buffers == Seq(1..MaxLines)
Pointers == {p \in Seq(Buffers) : Len(p) <= 1}

\* logging thread: begin  before latch_.countDown()   check  at while (running_)
\*                 lock   wants the mutex             asleep in waitForSeconds()
\*                 awake  woken, or timed out         write  swapped, mutex free
\*                 refill everything is written
TypeOK ==
    /\ running \in BOOLEAN
    /\ owner \in {"new", "starting", "started", "stopping", "joining", "joined"}
    /\ latch \in 0..1
    /\ currentBuffer \in Buffers
    /\ buffers \in Seq(Buffers) /\ buffersToWrite \in Seq(Buffers)
    /\ nextBuffer \in Pointers /\ newBuffer1 \in Pointers /\ newBuffer2 \in Pointers
    /\ pc \in {"absent", "begin", "check", "lock", "asleep", "awake", "write",
               "refill", "exited"}
    /\ file \in Buffers
    /\ flushed \in Nat /\ reported \in Nat /\ appended \in 0..MaxLines

Init ==
    /\ running = FALSE /\ owner = "new" /\ latch = 1 /\ pc = "absent"
    /\ currentBuffer = <<>> /\ nextBuffer = << <<>> >> /\ buffers = <<>>
    /\ newBuffer1 = Null /\ newBuffer2 = Null /\ buffersToWrite = <<>>
    /\ file = <<>> /\ flushed = 0 /\ reported = 0 /\ appended = 0

-----------------------------------------------------------------------------
(* start(), stop() and the destructor.                                     *)

Start ==
    /\ owner = "new"
    /\ running' = TRUE
    /\ pc' = "begin"
    /\ owner' = "starting"
    /\ UNCHANGED <<latch, frontVars, threadVars, fileVars>>

StartReturns ==
    /\ owner = "starting" /\ latch = 0
    /\ owner' = "started"
    /\ UNCHANGED <<running, latch, frontVars, threadVars, fileVars, pc>>

StopClearsRunning ==
    /\ owner = "started"
    /\ running' = FALSE
    /\ owner' = "stopping"
    /\ UNCHANGED <<latch, frontVars, threadVars, fileVars, pc>>

\* cond_.notify(): wakes the logging thread if it waits at this moment.
Notified == IF pc = "asleep" THEN "awake" ELSE pc

\* stop() does not hold the mutex: the logging thread may have read running_
\* and not be waiting yet.
StopNotifies ==
    /\ owner = "stopping"
    /\ pc' = Notified
    /\ owner' = "joining"
    /\ UNCHANGED <<running, latch, frontVars, threadVars, fileVars>>

StopJoins ==
    /\ owner = "joining" /\ pc = "exited"
    /\ owner' = "joined"
    /\ UNCHANGED <<running, latch, frontVars, threadVars, fileVars, pc>>

-----------------------------------------------------------------------------
(* append(), by any thread at any time in the life of the object.          *)

AppendFits ==
    /\ appended < MaxLines
    /\ Len(currentBuffer) < BufferLines
    /\ currentBuffer' = Append(currentBuffer, appended + 1)
    /\ appended' = appended + 1
    /\ UNCHANGED <<nextBuffer, buffers, threadVars, fileVars, ownerVars, pc>>

\* The buffer append() goes on with: nextBuffer_, or a new one.
SpareBuffer == IF nextBuffer # Null THEN nextBuffer[1] ELSE <<>>

AppendOverflows ==
    /\ appended < MaxLines
    /\ Len(currentBuffer) >= BufferLines
    /\ buffers' = Append(buffers, currentBuffer)
    /\ currentBuffer' = Append(SpareBuffer, appended + 1)
    /\ nextBuffer' = Null
    /\ appended' = appended + 1
    /\ pc' = Notified
    /\ UNCHANGED <<threadVars, fileVars, ownerVars>>

-----------------------------------------------------------------------------
(* threadFunc().                                                           *)

\* A fault: the latch is counted down twice.
countDownTwice(count) == count - 2

countDown(count) == count - 1

Begin ==
    /\ pc = "begin"
    /\ latch' = countDown(latch)
    /\ newBuffer1' = << <<>> >> /\ newBuffer2' = << <<>> >>
    /\ pc' = "check"
    /\ UNCHANGED <<running, owner, buffersToWrite, frontVars, fileVars>>

CheckRunning ==
    /\ pc = "check"
    /\ IF running THEN pc' = "lock" /\ UNCHANGED flushed
                  ELSE pc' = "exited" /\ flushed' = Len(file)
    /\ UNCHANGED <<frontVars, threadVars, file, reported, ownerVars>>

\* Nothing is full yet: "unusual usage", an if and not a while.
WaitForSeconds ==
    /\ pc = "lock" /\ buffers = <<>>
    /\ pc' = "asleep"
    /\ UNCHANGED <<frontVars, threadVars, fileVars, ownerVars>>

\* A fault: the wait has no time limit.
NoTimeout == FALSE /\ UNCHANGED vars

\* flushInterval_ seconds have passed; a spurious wakeup looks the same.
Timeout ==
    /\ pc = "asleep"
    /\ pc' = "awake"
    /\ UNCHANGED <<frontVars, threadVars, fileVars, ownerVars>>

\* A fault: newBuffer2 always replaces nextBuffer_.
NextBufferReplaced ==
    nextBuffer' = newBuffer2 /\ newBuffer2' = Null

\* newBuffer2 moves to nextBuffer_, if append() used that up.
NextBufferRefilled ==
    IF nextBuffer = Null THEN nextBuffer' = newBuffer2 /\ newBuffer2' = Null
                         ELSE UNCHANGED <<nextBuffer, newBuffer2>>

\* The rest of the critical section.
Swap ==
    /\ pc = "awake" \/ (pc = "lock" /\ buffers # <<>>)
    /\ buffersToWrite' = Append(buffers, currentBuffer)
    /\ buffers' = <<>>
    /\ currentBuffer' = newBuffer1[1]
    /\ newBuffer1' = Null
    /\ NextBufferRefilled
    /\ pc' = "write"
    /\ UNCHANGED <<appended, fileVars, ownerVars>>

\* A fault: one buffer fewer is kept than the report says.
Kept1(all) == IF Len(all) > MaxBuffers THEN SubSeq(all, 1, 1) ELSE all

\* The buffers that are written: all, or the first two of too many.
Kept(all) == IF Len(all) > MaxBuffers THEN SubSeq(all, 1, 2) ELSE all

\* Reports what is dropped and writes the rest; two buffers stay for reuse.
Write ==
    /\ pc = "write"
    /\ LET all == buffersToWrite
       IN  /\ reported' = IF Len(all) > MaxBuffers THEN reported + (Len(all) - 2)
                                                   ELSE reported
           /\ file' = file \o FlattenSeq(Kept(all))
           /\ buffersToWrite' = IF Len(Kept(all)) > 2 THEN SubSeq(all, 1, 2)
                                                      ELSE Kept(all)
    /\ pc' = "refill"
    /\ UNCHANGED <<newBuffer1, newBuffer2, flushed, frontVars, ownerVars>>

\* FixedBuffer::reset(): the length is 0 again.
Reset(b) == <<>>

\* The pointers that were given away are refilled from what was written.
Refill ==
    /\ pc = "refill"
    /\ LET spare == buffersToWrite
           last == Len(spare)
           next == IF newBuffer1 = Null THEN last - 1 ELSE last
       IN  /\ newBuffer1' = IF newBuffer1 = Null THEN <<Reset(spare[last])>>
                                                 ELSE newBuffer1
           /\ newBuffer2' = IF newBuffer2 = Null THEN <<Reset(spare[next])>>
                                                 ELSE newBuffer2
    /\ buffersToWrite' = <<>>
    /\ flushed' = Len(file)
    /\ pc' = "check"
    /\ UNCHANGED <<frontVars, file, reported, ownerVars>>

-----------------------------------------------------------------------------

LoggingThread ==
    Begin \/ CheckRunning \/ WaitForSeconds \/ Timeout \/ Swap \/ Write \/ Refill

OwnerStep == StartReturns \/ StopNotifies \/ StopJoins

Next == LoggingThread \/ OwnerStep \/ Start \/ StopClearsRunning
        \/ AppendFits \/ AppendOverflows

Spec == Init /\ [][Next]_vars

\* The scheduler runs both threads, and the timed wait ends after its time.
\* Nobody has to start or stop the logger, or to log anything.
FairSpec == Spec /\ WF_vars(LoggingThread) /\ WF_vars(OwnerStep)

-----------------------------------------------------------------------------
\* Every line that was not dropped, in the order it will have in the file.
AllLines == file \o (IF pc = "refill" THEN <<>> ELSE FlattenSeq(buffersToWrite))
                 \o FlattenSeq(buffers) \o currentBuffer

(* No line is lost, repeated or moved before an earlier one while its      *)
(* buffer travels through the front end, the swap and the back end, except *)
(* for the buffers that a "Dropped log messages" line reports              *)
(* (AsyncLogging.cc:87-96): those account for every missing line.          *)
LinesAccounted ==
    /\ \A i, j \in DOMAIN AllLines : i < j => AllLines[i] < AllLines[j]
    /\ appended - Len(AllLines) <= reported * BufferLines

(* The assertions of threadFunc(): it begins after running_ was set (line  *)
(* 55), both spare buffers are there and empty when the loop begins (lines *)
(* 66-68), something is to be written after the swap (85), and after       *)
(* writing there are enough buffers to refill the pointers that were given *)
(* away (112, 119), although nextBuffer_ is used up by append() and        *)
(* replaced by the logging thread.                                         *)
BuffersReady ==
    /\ pc = "begin" => running
    /\ pc = "check" /\ running =>
          newBuffer1 = << <<>> >> /\ newBuffer2 = << <<>> >> /\ buffersToWrite = <<>>
    /\ pc = "write" => buffersToWrite # <<>>
    /\ pc = "refill" =>
          Len(buffersToWrite) >= (1 - Len(newBuffer1)) + (1 - Len(newBuffer2))

(* stop() returns, with everything that was written flushed, although its  *)
(* notify() may come between the logging thread's check of running_ and    *)
(* its wait: the time limit of the wait makes up for the notification that *)
(* is lost.  Lines appended after the last swap are not written.           *)
StopReturns == owner = "stopping" ~> owner = "joined" /\ flushed = Len(file)
=============================================================================
