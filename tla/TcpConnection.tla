--------------------------- MODULE TcpConnection ---------------------------
(***************************************************************************)
(* stnl::TcpConnection (src/stnl/TcpConnection.cpp) with its Channel, its  *)
(* registration in Epoll, the I/O loop that runs it and the TcpServer that *)
(* owns it.  Threads other than the loop's call send(), shutdown() and     *)
(* forceClose(); they test socketState_, which nothing protects, before    *)
(* the loop gets to see their call.  ~TcpServer ends the loop, whatever is *)
(* left in its queue.                                                      *)
(* A message is written whole, as one unit.  SIGPIPE is ignored.           *)
(***************************************************************************)
EXTENDS Naturals, Sequences, FiniteSets, FiniteSetsExt

CONSTANTS
    Threads,        \* threads other than the loop's that hold the connection
    LoopUser,       \* user code in the loop thread that holds it
    MaxSends,       \* bound: messages they send together
    MaxDowns,       \* bound: calls of connectionCallback_ on closing
    RacyClose,      \* BOOLEAN: Threads call shutdown() and forceClose()
    OwnerDies       \* BOOLEAN: ~TcpServer may run

ASSUME TcpConnectionAssumption ==
    /\ LoopUser \notin Threads
    /\ MaxSends \in Nat /\ MaxDowns \in Nat
    /\ RacyClose \in BOOLEAN /\ OwnerDies \in BOOLEAN

VARIABLES
    state,          \* socketState_
    reads, writes,  \* requestedEvents_ of channel_
    channel,        \* EventState of channel_ in Epoll
    output,         \* outputBuffer_
    finSent,        \* shutdown(SHUT_WR) was called
    peer,           \* "open", "closed" (FIN received) or "reset"
    revents,        \* returnedEvents_ still to be dispatched
    queue,          \* functions about this object that the loop has yet to run
    batch,          \* how many of them doPendingFunctions has swapped out
    phase,          \* where the loop is in its iteration
    quit,           \* running_ of the loop is false
    pc,             \* what a thread is about to do after its test
    sends,          \* how many messages each holder has sent
    holders,        \* who holds a TcpConnectionPtr besides the server
    inMap,          \* connections_ of TcpServer holds it
    removing,       \* removeConnectionInLoop calls queued in the main loop
    ownerGone,      \* ~TcpServer has begun
    ups, downs,     \* history: calls of connectionCallback_
    sent,           \* history: messages written to the socket
    overtaken,      \* history: a close was overtaken, see Overtakes
    aborted         \* history: an assert failed

channelVars == <<reads, writes, channel>>
loopVars == <<batch, phase, quit>>
ownerVars == <<inMap, removing, ownerGone>>
historyVars == <<ups, downs, sent, overtaken, aborted>>
vars == <<state, reads, writes, channel, output, finSent, peer, revents,
          queue, batch, phase, quit, pc, sends, holders, inMap, removing,
          ownerGone, ups, downs, sent, overtaken, aborted>>

Users == Threads \cup {LoopUser}
\* The k-th message of a user.
Messages == Users \X (Nat \ {0})
States == {"CONNECTING", "CONNECTED", "DISCONNECTING", "DISCONNECTED"}
Idle == [op |-> "idle"]
\* The loop dispatches events, or runs functions and then waits, or is gone.
Phases == {"events", "functions", "ended"}

\* Functions bound to a TcpConnectionPtr; send and shutdown have a bare this.
OwningOps == {"establish", "forceClose", "destroy"}
Closures == [op : OwningOps \cup {"shutdown"}] \cup
            [op : {"send"}, msg : Messages]

\* How many messages all of them have sent.
TotalSends == MapThenSumSet(LAMBDA u : sends[u], Users)

QueuedOps == {queue[i].op : i \in 1..Len(queue)}

\* The reference count of the connection is not zero.
Alive == inMap \/ removing > 0 \/ holders # {} \/ QueuedOps \cap OwningOps # {}

(***************************************************************************)
(* A thread's shutdown() or forceClose() stores DISCONNECTING after the    *)
(* loop stored DISCONNECTED, or ~TcpServer destroys the connection while   *)
(* it is DISCONNECTING, before its close.                                  *)
(***************************************************************************)
Overtakes(op) ==
    \/ op \in {"shutdown", "forceClose"} /\ state = "DISCONNECTED"
    \/ op = "destroy" /\ state = "DISCONNECTING"

\* TcpServer::newConnectionCallback has made it and queued connectionEstablish.
Init ==
    /\ state = "CONNECTING"
    /\ reads = FALSE /\ writes = FALSE
    /\ channel = "NEW"
    /\ output = <<>>
    /\ finSent = FALSE
    /\ peer = "open"
    /\ revents = {}
    /\ queue = <<[op |-> "establish"]>>
    /\ batch = 0 /\ phase = "functions" /\ quit = FALSE
    /\ pc = [t \in Threads |-> Idle]
    /\ sends = [u \in Users |-> 0]
    /\ holders = {}
    /\ inMap = TRUE /\ removing = 0 /\ ownerGone = FALSE
    /\ ups = 0 /\ downs = 0
    /\ sent = <<>> /\ overtaken = FALSE /\ aborted = FALSE

---------------------------------------------------------------------------
(* Channel and Epoll.                                                      *)

\* Channel::enable.../disable... and Epoll::updateChannel.
Update(r, w) ==
    /\ reads' = r
    /\ writes' = w
    /\ channel' = IF channel = "ADDED" /\ ~r /\ ~w THEN "DELETED" ELSE "ADDED"

\* What epoll_wait reports; EPOLLHUP needs no interest.
HangUp == peer = "reset" \/ (peer = "closed" /\ finSent)

Ready(writable) ==
    {e \in {"OUT", "IN", "HUP"} :
        \/ e = "OUT" /\ writes /\ writable
        \/ e = "IN" /\ reads /\ peer # "open"
        \/ e = "HUP" /\ HangUp}

\* The test of running_ and Epoll::select, which returns with or without
\* something for this channel.
Select(writable) ==
    /\ phase = "functions" /\ batch = 0 /\ ~quit
    /\ phase' = "events"
    /\ revents' = IF Alive /\ channel = "ADDED" THEN Ready(writable) ELSE {}
    /\ UNCHANGED <<state, channelVars, output, finSent, peer, queue, batch, quit,
                   pc, sends, holders, ownerVars, historyVars>>

---------------------------------------------------------------------------
(* The functions that run in the loop thread.                              *)

\* Mutant: the test of the write interest is the wrong way round.
ShutdownInLoopInverted(w) == finSent' = (finSent \/ w)

\* shutdownInLoop, with the write interest at that point.
ShutdownInLoop(w) == finSent' = (finSent \/ ~w)

\* Mutant: the write interest is not requested for what is left.
SendInLoopNoEnable(m, n) ==
    /\ state # "DISCONNECTED"
    /\ output' = Append(output, m)
    /\ UNCHANGED <<channelVars, sent>>

\* Mutant: what the socket does not take at once goes in front.
SendInLoopFront(m, n) ==
    /\ state # "DISCONNECTED"
    /\ output' = <<m>> \o output
    /\ Update(reads, TRUE)
    /\ UNCHANGED sent

(***************************************************************************)
(* sendInLoop: a direct write takes n = 0 or 1 messages; the rest is       *)
(* appended to outputBuffer_ with the write interest requested.            *)
(***************************************************************************)
SendInLoop(m, n) ==
    IF state = "DISCONNECTED"
    THEN UNCHANGED <<channelVars, output, sent>>
    ELSE IF writes /\ output = <<>> /\ n = 1
    THEN /\ sent' = Append(sent, m)
         /\ UNCHANGED <<channelVars, output>>
    ELSE /\ output' = Append(output, m)
         /\ IF writes THEN UNCHANGED channelVars ELSE Update(reads, TRUE)
         /\ UNCHANGED sent

\* handleClose: connectionCallback_, then TcpServer::removeConnection, which
\* queues in the server's own loop.
HandleClose ==
    /\ downs < MaxDowns
    /\ aborted' = (aborted \/ state \notin {"CONNECTED", "DISCONNECTING"})
    /\ state' = "DISCONNECTED"
    /\ Update(FALSE, FALSE)
    /\ downs' = downs + 1
    /\ removing' = removing + 1

\* handleWrite of n messages; write() fails after SHUT_WR or a reset.
HandleWrite(n) ==
    /\ Alive
    /\ "OUT" \in revents
    /\ revents' = revents \ {"OUT"}
    /\ n <= Len(output)
    /\ n = 0 <=> finSent \/ peer = "reset" \/ output = <<>>
    /\ sent' = sent \o SubSeq(output, 1, n)
    /\ output' = SubSeq(output, n + 1, Len(output))
    /\ IF n > 0 /\ n = Len(output) THEN Update(reads, FALSE)
                                   ELSE UNCHANGED channelVars
    /\ IF n > 0 /\ state = "DISCONNECTING"
       THEN ShutdownInLoop(writes') ELSE UNCHANGED finSent
    /\ UNCHANGED <<state, peer, queue, loopVars, pc, sends, holders, ownerVars,
                   ups, downs, overtaken, aborted>>

\* handleRead reads 0 bytes; bytes read only lead to user code.
HandleRead ==
    /\ Alive
    /\ "OUT" \notin revents /\ "IN" \in revents
    /\ revents' = {}
    /\ HandleClose
    /\ UNCHANGED <<output, finSent, peer, queue, loopVars, pc, sends, holders,
                   inMap, ownerGone, ups, sent, overtaken>>

\* POLLHUP without POLLIN: closeEventCallback_.
HandleHangUp ==
    /\ Alive
    /\ revents = {"HUP"}
    /\ revents' = {}
    /\ HandleClose
    /\ UNCHANGED <<output, finSent, peer, queue, loopVars, pc, sends, holders,
                   inMap, ownerGone, ups, sent, overtaken>>

---------------------------------------------------------------------------
(* doPendingFunctions and the end of the loop.                             *)

Swap ==
    /\ phase = "events" /\ revents = {}
    /\ phase' = "functions"
    /\ batch' = Len(queue)
    /\ UNCHANGED <<state, channelVars, output, finSent, peer, revents, queue,
                   quit, pc, sends, holders, ownerVars, historyVars>>

Runs(op) ==
    /\ Alive
    /\ phase = "functions" /\ batch > 0
    /\ queue # <<>> /\ Head(queue).op = op
    /\ queue' = Tail(queue)
    /\ batch' = batch - 1
    /\ UNCHANGED <<phase, quit>>

(***************************************************************************)
(* running_ is false: the loop ends and the EventLoop is destroyed with    *)
(* what is left in pendingFunctions_.  The join returns, and ~TcpServer    *)
(* destroys its own loop in the same way.                                  *)
(***************************************************************************)
EndLoop ==
    /\ phase = "functions" /\ batch = 0 /\ quit
    /\ phase' = "ended"
    /\ queue' = <<>>
    /\ removing' = 0
    /\ UNCHANGED <<state, channelVars, output, finSent, peer, revents, batch,
                   quit, pc, sends, holders, inMap, ownerGone, historyVars>>

\* connectionEstablish; its callback hands the connection to the users.
RunEstablish ==
    /\ Runs("establish")
    /\ aborted' = (aborted \/ state # "CONNECTING")
    /\ state' = "CONNECTED"
    /\ Update(TRUE, writes)
    /\ ups' = ups + 1
    /\ holders' = Users
    /\ UNCHANGED <<output, finSent, peer, revents, pc, sends, ownerVars,
                   downs, sent, overtaken>>

RunSend(n) ==
    /\ Runs("send")
    /\ SendInLoop(Head(queue).msg, n)
    /\ UNCHANGED <<state, finSent, peer, revents, pc, sends, holders,
                   ownerVars, ups, downs, overtaken, aborted>>

RunShutdown ==
    /\ Runs("shutdown")
    /\ ShutdownInLoop(writes)
    /\ UNCHANGED <<state, channelVars, output, peer, revents, pc, sends,
                   holders, ownerVars, historyVars>>

\* Mutant: forceCloseInLoop does not test socketState_ again.
RunForceCloseAlways ==
    /\ Runs("forceClose")
    /\ HandleClose
    /\ UNCHANGED <<output, finSent, peer, revents, pc, sends, holders, inMap,
                   ownerGone, ups, sent, overtaken>>

\* forceCloseInLoop
RunForceClose ==
    /\ Runs("forceClose")
    /\ IF state \in {"CONNECTED", "DISCONNECTING"}
       THEN HandleClose
       ELSE UNCHANGED <<state, channelVars, removing, downs, aborted>>
    /\ UNCHANGED <<output, finSent, peer, revents, pc, sends, holders, inMap,
                   ownerGone, ups, sent, overtaken>>

\* Mutant: connectionDestory leaves the channel in Epoll's map.
RunDestroyNoRemove ==
    /\ Runs("destroy")
    /\ overtaken' = (overtaken \/ Overtakes("destroy"))
    /\ state' = IF state = "CONNECTED" THEN "DISCONNECTED" ELSE state
    /\ downs' = IF state = "CONNECTED" THEN downs + 1 ELSE downs
    /\ UNCHANGED <<channelVars, output, finSent, peer, revents, pc, sends,
                   holders, ownerVars, ups, sent, aborted>>

\* connectionDestory: disableAll and the callback if CONNECTED, then remove.
RunDestroy ==
    /\ Runs("destroy")
    /\ overtaken' = (overtaken \/ Overtakes("destroy"))
    /\ IF state = "CONNECTED"
       THEN state' = "DISCONNECTED" /\ downs' = downs + 1
            /\ reads' = FALSE /\ writes' = FALSE
       ELSE UNCHANGED <<state, downs, reads, writes>>
    /\ channel' = "NEW"
    /\ UNCHANGED <<output, finSent, peer, revents, pc, sends, holders,
                   ownerVars, ups, sent, aborted>>

---------------------------------------------------------------------------
(* User code in the loop thread: runInLoop there runs the call at once.    *)

InLoop == LoopUser \in holders /\ phase # "ended"

SendHere(n) ==
    /\ InLoop
    /\ TotalSends < MaxSends
    /\ state = "CONNECTED"
    /\ sends' = [sends EXCEPT ![LoopUser] = @ + 1]
    /\ SendInLoop(<<LoopUser, sends[LoopUser] + 1>>, n)
    /\ UNCHANGED <<state, finSent, peer, revents, queue, loopVars, pc, holders,
                   ownerVars, ups, downs, overtaken, aborted>>

ShutdownHere ==
    /\ InLoop
    /\ state = "CONNECTED"
    /\ state' = "DISCONNECTING"
    /\ ShutdownInLoop(writes)
    /\ UNCHANGED <<channelVars, output, peer, revents, queue, loopVars, pc,
                   sends, holders, ownerVars, historyVars>>

\* Bound: one forceClose is queued at a time, none after a close was overtaken.
ForceCloseHere ==
    /\ InLoop
    /\ state \in {"CONNECTED", "DISCONNECTING"}
    /\ "forceClose" \notin QueuedOps /\ ~overtaken
    /\ state' = "DISCONNECTING"
    /\ queue' = Append(queue, [op |-> "forceClose"])
    /\ UNCHANGED <<channelVars, output, finSent, peer, revents, loopVars, pc,
                   sends, holders, ownerVars, historyVars>>

---------------------------------------------------------------------------
(* Calls of the other threads: the test of socketState_, then the rest.    *)

CheckSend(t) ==
    /\ t \in holders /\ pc[t] = Idle
    /\ TotalSends < MaxSends
    /\ state = "CONNECTED"
    /\ sends' = [sends EXCEPT ![t] = @ + 1]
    /\ pc' = [pc EXCEPT ![t] = [op |-> "send", msg |-> <<t, sends[t] + 1>>]]
    /\ UNCHANGED <<state, channelVars, output, finSent, peer, revents, queue,
                   loopVars, holders, ownerVars, historyVars>>

CheckShutdown(t) ==
    /\ RacyClose
    /\ t \in holders /\ pc[t] = Idle
    /\ state = "CONNECTED"
    /\ pc' = [pc EXCEPT ![t] = [op |-> "shutdown"]]
    /\ UNCHANGED <<state, channelVars, output, finSent, peer, revents, queue,
                   loopVars, sends, holders, ownerVars, historyVars>>

\* Bound: as for ForceCloseHere.
CheckForceClose(t) ==
    /\ RacyClose
    /\ t \in holders /\ pc[t] = Idle
    /\ state \in {"CONNECTED", "DISCONNECTING"}
    /\ "forceClose" \notin QueuedOps /\ ~overtaken
    /\ pc' = [pc EXCEPT ![t] = [op |-> "forceClose"]]
    /\ UNCHANGED <<state, channelVars, output, finSent, peer, revents, queue,
                   loopVars, sends, holders, ownerVars, historyVars>>

\* The store of socketState_, if any, and the emplace_back.  A loop that has
\* ended is destroyed: what is handed to it is at best lost.
Enqueue(t) ==
    /\ pc[t] # Idle
    /\ queue' = IF phase = "ended" THEN queue ELSE Append(queue, pc[t])
    /\ state' = IF pc[t].op = "send" THEN state ELSE "DISCONNECTING"
    /\ pc' = [pc EXCEPT ![t] = Idle]
    /\ overtaken' = (overtaken \/ Overtakes(pc[t].op))
    /\ UNCHANGED <<channelVars, output, finSent, peer, revents, loopVars, sends,
                   holders, ownerVars, ups, downs, sent, aborted>>

\* A user lets go of its TcpConnectionPtr.
Drop(u) ==
    /\ u \in holders
    /\ u \in Threads => pc[u] = Idle
    /\ holders' = holders \ {u}
    /\ UNCHANGED <<state, channelVars, output, finSent, peer, revents, queue,
                   loopVars, pc, sends, ownerVars, historyVars>>

---------------------------------------------------------------------------
(* The peer, and the server that owns the connection.                      *)

PeerCloses(how) ==
    /\ peer = "open"
    /\ peer' = how
    /\ UNCHANGED <<state, channelVars, output, finSent, revents, queue,
                   loopVars, pc, sends, holders, ownerVars, historyVars>>

\* TcpServer::removeConnectionInLoop, in the main loop.
RemoveConnectionInLoop ==
    /\ removing > 0 /\ ~ownerGone
    /\ removing' = removing - 1
    /\ inMap' = FALSE
    /\ queue' = Append(queue, [op |-> "destroy"])
    /\ UNCHANGED <<state, channelVars, output, finSent, peer, revents, loopVars,
                   pc, sends, holders, ownerGone, historyVars>>

\* ~TcpServer: the connection in its map is handed to the I/O loop.
DestroyServer ==
    /\ OwnerDies /\ ~ownerGone
    /\ ownerGone' = TRUE
    /\ inMap' = FALSE
    /\ queue' = IF inMap THEN Append(queue, [op |-> "destroy"]) ELSE queue
    /\ UNCHANGED <<state, channelVars, output, finSent, peer, revents, loopVars,
                   pc, sends, holders, removing, historyVars>>

\* Its thread pool goes next: ~EventLoopThread quits the loop and joins it.
QuitLoop ==
    /\ ownerGone /\ ~quit
    /\ quit' = TRUE
    /\ UNCHANGED <<state, channelVars, output, finSent, peer, revents, queue,
                   batch, phase, pc, sends, holders, ownerVars, historyVars>>

---------------------------------------------------------------------------
EventStep ==
    \/ \E n \in 0..Len(output) : HandleWrite(n)
    \/ HandleRead
    \/ HandleHangUp

QueueStep ==
    \/ RunEstablish
    \/ \E n \in {0, 1} : RunSend(n)
    \/ RunShutdown
    \/ RunForceClose
    \/ RunDestroy

\* The loop thread inside EventLoop::loop.
LoopStep ==
    \/ \E writable \in BOOLEAN : Select(writable)
    \/ EventStep
    \/ Swap
    \/ QueueStep
    \/ EndLoop

UserStep ==
    \/ \E n \in {0, 1} : SendHere(n)
    \/ ShutdownHere
    \/ ForceCloseHere
    \/ \E t \in Threads : \/ CheckSend(t)
                          \/ CheckShutdown(t)
                          \/ CheckForceClose(t)
                          \/ Enqueue(t)
    \/ \E u \in Users : Drop(u)

Next ==
    \/ LoopStep
    \/ UserStep
    \/ \E how \in {"closed", "reset"} : PeerCloses(how)
    \/ RemoveConnectionInLoop
    \/ DestroyServer
    \/ QuitLoop

Spec == Init /\ [][Next]_vars

(***************************************************************************)
(* Fairness: the I/O loop's thread runs as long as the loop does (a wait   *)
(* in epoll_wait ends by the wakeup, an event or the timeout), threads     *)
(* finish the call they are in and the main loop runs.  Nobody is obliged  *)
(* to call anything, to let go of the connection or to read from it.       *)
(***************************************************************************)
Fairness ==
    /\ WF_vars(LoopStep)
    /\ \A t \in Threads : WF_vars(Enqueue(t))
    /\ WF_vars(RemoveConnectionInLoop)

FairSpec == Spec /\ Fairness

---------------------------------------------------------------------------
(* Properties.                                                             *)

(***************************************************************************)
(* Types of the variables.                                                 *)
(***************************************************************************)
TypeOK ==
    /\ state \in States
    /\ reads \in BOOLEAN /\ writes \in BOOLEAN
    /\ channel \in {"NEW", "ADDED", "DELETED"}
    /\ output \in Seq(Messages)
    /\ finSent \in BOOLEAN
    /\ peer \in {"open", "closed", "reset"}
    /\ revents \subseteq {"OUT", "IN", "HUP"}
    /\ queue \in Seq(Closures)
    /\ batch \in Nat /\ phase \in Phases /\ quit \in BOOLEAN
    /\ pc \in [Threads -> Closures \cup {Idle}]
    /\ sends \in [Users -> Nat]
    /\ holders \subseteq Users
    /\ inMap \in BOOLEAN /\ ownerGone \in BOOLEAN
    /\ removing \in Nat /\ ups \in Nat /\ downs \in Nat
    /\ sent \in Seq(Messages)
    /\ overtaken \in BOOLEAN /\ aborted \in BOOLEAN

(***************************************************************************)
(* The user's connectionCallback_ is called once when the connection comes *)
(* up and at most once when it goes down, whether it ends by the peer, by  *)
(* forceClose() or by ~TcpServer, and no assert on socketState_ fails,     *)
(* unless a close was overtaken: socketState_ is tested and stored in two  *)
(* steps, and connectionDestory reports nothing if it is DISCONNECTING.    *)
(***************************************************************************)
DownAtMostOnce == overtaken \/ (downs <= ups /\ ups <= 1 /\ ~aborted)

(***************************************************************************)
(* While the connection is up, POLLOUT is requested exactly when           *)
(* outputBuffer_ has something to write: it neither spins on an idle       *)
(* socket nor leaves bytes behind.                                         *)
(***************************************************************************)
WriteInterestExact ==
    /\ TypeOK
    /\ state \in {"CONNECTED", "DISCONNECTING"} /\ ~overtaken
          => (writes <=> output # <<>>)

(***************************************************************************)
(* Epoll holds a bare Channel pointer: as long as its loop runs, a         *)
(* connection is destroyed only once its channel is out of the epoll set   *)
(* and out of channelMap_, unless a close was overtaken.  A loop that      *)
(* ~TcpServer ends may drop connectionDestory; its Epoll goes with it.     *)
(***************************************************************************)
ChannelRemovedBeforeFree ==
    ~Alive /\ ~overtaken /\ phase # "ended" => channel = "NEW"

(***************************************************************************)
(* shutdown() does not cut off output: as long as the connection has not   *)
(* gone down, SHUT_WR is done only when outputBuffer_ is empty.            *)
(***************************************************************************)
FinAfterDrain ==
    [][~finSent /\ finSent' /\ downs' = 0 => output' = <<>>]_vars

(***************************************************************************)
(* The messages of each thread are written in the order of its calls of    *)
(* send(), whatever other threads and the loop thread send in between.     *)
(***************************************************************************)
SentInOrder ==
    \A i, j \in 1..Len(sent) :
        i < j /\ sent[i][1] = sent[j][1] => sent[i][2] < sent[j][2]

\* The peer reads: however often epoll_wait is called, the socket is
\* writable again and again.
PeerReads == SF_vars(Select(TRUE))

(***************************************************************************)
(* If the peer reads, a shutdown() is carried out: SHUT_WR follows, or the *)
(* connection goes down first, or ~TcpServer ends the loop.                *)
(***************************************************************************)
ShutdownCompletes ==
    PeerReads => (state = "DISCONNECTING"
                    ~> \/ finSent \/ state = "DISCONNECTED"
                       \/ overtaken \/ phase = "ended")

(***************************************************************************)
(* A connection that the peer closes or resets goes down, and its channel  *)
(* leaves epoll and channelMap_ for good, also while the peer takes no     *)
(* output and the loop is busy, unless ~TcpServer ends the loop before.    *)
(***************************************************************************)
PeerCloseCleansUp ==
    peer # "open"
        ~> \/ overtaken \/ phase = "ended"
           \/ [](state = "DISCONNECTED" /\ channel = "NEW")

=============================================================================
