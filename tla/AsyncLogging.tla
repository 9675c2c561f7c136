---------------------------- MODULE AsyncLogging ----------------------------
(***************************************************************************)
(* stnl::AsyncLogging (src/stnl/logger.cpp): threads append messages to a  *)
(* front buffer under a mutex, a back thread swaps the full buffers out    *)
(* and writes them to the file.  Buffers go round: the back thread gives   *)
(* the front two fresh ones and takes two of those it has written.         *)
(* A buffer holds the sequence of its messages; a message fits into an     *)
(* empty buffer.                                                           *)
(***************************************************************************)
EXTENDS Naturals, Sequences, FiniteSets, SequencesExt

CONSTANTS
    MaxMessages,    \* bound: messages appended
    Capacity,       \* messages a buffer of AsyncBufferSize bytes holds
    DropLimit       \* 25: with more buffers to write some are dropped

ASSUME AsyncLoggingAssumption ==
    /\ MaxMessages \in Nat
    /\ Capacity \in Nat \ {0}
    /\ DropLimit \in Nat \ {0, 1}

VARIABLES
    current,        \* currentBuffer_
    next,           \* nextBuffer_ is not null
    buffers,        \* buffers_
    new1, new2,     \* newBuffer1 and newBuffer2 of run() are not null
    toWrite,        \* buffersToWrite of run()
    running,        \* running_
    back,           \* where the back thread is, see BackPc
    owner,          \* where the thread is that calls start() and stop()
    count,          \* count_ of latch_
    file,           \* messages written to the file
    appended,       \* history: how many messages were appended
    dropped,        \* history: messages of dropped buffers
    aborted         \* history: an assert of run() failed

backVars == <<new1, new2, toWrite, back, file, dropped, aborted>>
vars == <<current, next, buffers, new1, new2, toWrite, running, back, owner,
          count, file, appended, dropped, aborted>>

\* A message is its number in the order of the calls of append().
Messages == 1..MaxMessages

(***************************************************************************)
(* "none": not started; "begin": before run()'s first assert;             *)
(* "check": at while (running_); "lock": before it locks the mutex;        *)
(* "waiting": in cv_.wait_for; "writing": it has swapped; "ended".         *)
(***************************************************************************)
BackPc == {"none", "begin", "check", "lock", "waiting", "writing", "ended"}

\* The constructor, and the buffers run() makes first.
Init ==
    /\ current = <<>> /\ next = TRUE
    /\ buffers = <<>>
    /\ new1 = TRUE /\ new2 = TRUE
    /\ toWrite = <<>>
    /\ running = FALSE
    /\ back = "none" /\ owner = "new" /\ count = 1
    /\ file = <<>> /\ appended = 0
    /\ dropped = {} /\ aborted = FALSE

---------------------------------------------------------------------------
(* The front.                                                              *)

\* append, under mutex_; a thread waiting in wait_for is free to wake up.
AppendMessage ==
    LET m == appended + 1 IN
    /\ appended < MaxMessages /\ ~aborted
    /\ appended' = m
    /\ IF Len(current) < Capacity
       THEN /\ current' = Append(current, m)
            /\ UNCHANGED <<buffers, next>>
       ELSE /\ buffers' = Append(buffers, current)
            /\ current' = <<m>>
            /\ next' = FALSE
    /\ UNCHANGED <<running, owner, count, backVars>>

\* start() up to latch_.wait().
Start ==
    /\ owner = "new"
    /\ owner' = "latch"
    /\ running' = TRUE
    /\ back' = "begin"
    /\ UNCHANGED <<current, next, buffers, new1, new2, toWrite, count, file,
                   appended, dropped, aborted>>

\* CountDownLatch::wait, at the end of start().
LatchWait ==
    /\ owner = "latch" /\ count = 0
    /\ owner' = "started"
    /\ UNCHANGED <<current, next, buffers, running, count, appended, backVars>>

\* stop() up to its join; the notification finds the back thread waiting or not.
Stop ==
    /\ owner = "started"
    /\ running' = FALSE
    /\ owner' = "joining"
    /\ UNCHANGED <<current, next, buffers, count, appended, backVars>>

\* thread_.join() returns.
Joins ==
    /\ owner = "joining" /\ back = "ended"
    /\ owner' = "done"
    /\ UNCHANGED <<current, next, buffers, running, count, appended, backVars>>

---------------------------------------------------------------------------
(* The back thread, run().                                                 *)

\* Mutant: the latch is not counted down.
BeginRunNoCountDown ==
    /\ back = "begin"
    /\ back' = "check"
    /\ UNCHANGED <<current, next, buffers, new1, new2, toWrite, running, owner,
                   count, file, appended, dropped, aborted>>

\* The first assert of run() and latch_.countDown().
BeginRun ==
    /\ back = "begin" /\ ~aborted
    /\ back' = "check"
    /\ count' = count - 1
    /\ aborted' = ~running
    /\ UNCHANGED <<current, next, buffers, new1, new2, toWrite, running, owner,
                   file, appended, dropped>>

\* while (running_) and the asserts behind it.
CheckRunning ==
    /\ back = "check" /\ ~aborted
    /\ back' = IF running THEN "lock" ELSE "ended"
    /\ aborted' = (running /\ ~(new1 /\ new2 /\ toWrite = <<>>))
    /\ UNCHANGED <<current, next, buffers, new1, new2, toWrite, running,
                   owner, count, file, appended, dropped>>

\* Mutant: the front buffer is swapped out before the full ones.
SwapBuffersReversed ==
    /\ toWrite' = <<current>> \o buffers
    /\ buffers' = <<>>
    /\ current' = <<>> /\ new1' = FALSE
    /\ next' = (next \/ new2)
    /\ new2' = (new2 /\ next)
    /\ back' = "writing"

\* The critical section of run() behind the wait.
SwapBuffers ==
    /\ toWrite' = Append(buffers, current)
    /\ buffers' = <<>>
    /\ current' = <<>> /\ new1' = FALSE
    /\ next' = (next \/ new2)
    /\ new2' = (new2 /\ next)
    /\ back' = "writing"

\* The mutex is locked: wait if there is no full buffer, or swap at once.
Lock ==
    /\ back = "lock" /\ ~aborted
    /\ \/ /\ buffers = <<>>
          /\ back' = "waiting"
          /\ UNCHANGED <<current, next, buffers, new1, new2, toWrite>>
       \/ /\ buffers # <<>>
          /\ SwapBuffers
    /\ UNCHANGED <<running, owner, count, file, appended, dropped, aborted>>

\* Mutant: the wait ends only when there is a full buffer.
WakeUpWhenFull ==
    /\ back = "waiting" /\ buffers # <<>>
    /\ SwapBuffers
    /\ UNCHANGED <<running, owner, count, file, appended, dropped, aborted>>

\* wait_for returns: notified, after flushInterval_, or for no reason.
WakeUp ==
    /\ back = "waiting"
    /\ SwapBuffers
    /\ UNCHANGED <<running, owner, count, file, appended, dropped, aborted>>

\* Mutant: the limit applies to one buffer less.
KeptFewer(bs) == IF Len(bs) >= DropLimit THEN SubSeq(bs, 1, 2) ELSE bs

\* Mutant: one buffer is kept of those that are too many.
KeptOne(bs) == IF Len(bs) > DropLimit THEN SubSeq(bs, 1, 1) ELSE bs

\* The buffers that are written: the first two of more than DropLimit.
Kept(bs) == IF Len(bs) > DropLimit THEN SubSeq(bs, 1, 2) ELSE bs

\* The rest of the iteration: write, take back two buffers, drop the others.
WriteBuffers ==
    /\ back = "writing" /\ ~aborted
    /\ file' = file \o FlattenSeq(Kept(toWrite))
    /\ dropped' = dropped \cup (ToSet(FlattenSeq(toWrite))
                                \ ToSet(FlattenSeq(Kept(toWrite))))
    /\ aborted' = (Cardinality({i \in {1, 2} : ~<<new1, new2>>[i]})
                   > Len(Kept(toWrite)))
    /\ new1' = TRUE /\ new2' = TRUE
    /\ toWrite' = <<>>
    /\ back' = "check"
    /\ UNCHANGED <<current, next, buffers, running, owner, count, appended>>

---------------------------------------------------------------------------
BackStep == BeginRun \/ CheckRunning \/ Lock \/ WakeUp \/ WriteBuffers

Next ==
    \/ AppendMessage
    \/ Start \/ LatchWait \/ Stop \/ Joins
    \/ BackStep

Spec == Init /\ [][Next]_vars

\* The back thread runs, its wait_for times out, and the waits of the owner
\* return when they can.
Fairness == WF_vars(BackStep) /\ WF_vars(LatchWait) /\ WF_vars(Joins)

FairSpec == Spec /\ Fairness

---------------------------------------------------------------------------
(* Properties.                                                             *)

\* The type of every variable; no buffer holds more than its capacity.
TypeOK ==
    /\ \A b \in {current} \cup ToSet(buffers) \cup ToSet(toWrite) :
          Len(b) <= Capacity
    /\ current \in Seq(Messages) /\ file \in Seq(Messages)
    /\ appended \in 0..MaxMessages /\ dropped \subseteq Messages
    /\ buffers \in Seq(Seq(Messages)) /\ toWrite \in Seq(Seq(Messages))
    /\ {next, new1, new2, running, aborted} \subseteq BOOLEAN
    /\ back \in BackPc /\ count \in {0, 1}
    /\ owner \in {"new", "latch", "started", "joining", "done"}

\* The asserts of run() hold: the latch keeps stop() back until the thread has
\* seen running_, at the head of the loop both fresh buffers are there, and
\* after a drop there are still as many buffers as were given away.
BuffersGoRound == TypeOK /\ ~aborted

\* The messages in the order of their way to the file: written, in the buffers
\* being written, in the full ones and in the front one.
Stream == file \o FlattenSeq(toWrite) \o FlattenSeq(buffers) \o current

\* Every appended message is in exactly one place and in its turn: the stream
\* holds the messages that were not dropped, once each, in the order of append().
NothingLost ==
    /\ ToSet(Stream) = (1..appended) \ dropped
    /\ \A i, j \in 1..Len(Stream) : i < j => Stream[i] < Stream[j]

\* A message is dropped only when the front is ahead by DropLimit full buffers.
DropsOnlyUnderLoad ==
    [][dropped' # dropped =>
         Len(FlattenSeq(toWrite)) >= DropLimit * Capacity]_vars

\* Unless stop() is called every message is written, or dropped under load: a
\* buffer that is not full is swapped out after flushInterval_.
WrittenUnlessStopped ==
    \A m \in Messages :
        (m <= appended /\ owner = "started")
            ~> (m \in ToSet(file) \cup dropped \/ owner # "started")

\* start() returns from latch_.wait(), whether the new thread counts down before
\* or after it, and stop() returns, although its notification may come before
\* the back thread waits.  (Thread::start() is module EventLoopThread.)
StartAndStopReturn ==
    /\ owner = "latch" ~> owner = "started"
    /\ owner = "joining" ~> owner = "done"

=============================================================================
