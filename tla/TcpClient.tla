----------------------------- MODULE TcpClient -----------------------------
(***************************************************************************)
(* stnl::TcpClient and stnl::Connector: the attempts to connect, their     *)
(* retries by timer with a delay that doubles, and the calls connect(),    *)
(* disconnect() and stop(), made by the loop thread or by another one.     *)
(* The connection itself is module TcpConnection; here it is there or not. *)
(* The loop thread destroys the client when no other thread is in a call.  *)
(***************************************************************************)
EXTENDS Naturals, Sequences, FiniteSets, SequencesExt

CONSTANTS
    RetryDelayMs, MaxRetryDelayMs,
    EnableRetry,    \* BOOLEAN: enableRetry() was called
    Reconnects,     \* BOOLEAN: connect() is called again when the connection
                    \* is closed and nothing is pending
    Prompt,         \* BOOLEAN: an iteration of the loop is shorter than a retry
                    \* delay, so functions queued when a retry timer is set
                    \* have run when it fires
    MaxCalls        \* bound: calls of connect(), disconnect() and stop()

ASSUME TcpClientAssumption ==
    /\ RetryDelayMs \in Nat \ {0} /\ MaxRetryDelayMs \in Nat
    /\ RetryDelayMs <= MaxRetryDelayMs
    /\ {EnableRetry, Reconnects, Prompt} \subseteq BOOLEAN
    /\ MaxCalls \in Nat

VARIABLES
    clientConnect,  \* TcpClient::connect_
    connect,        \* Connector::connect_
    state,          \* Connector::state_
    channel,        \* channel_: "none", "watching", or "removed" from Epoll
    queue,          \* the functions of Connector and TcpClient in the loop's
                    \* pendingFunctions_
    timers,         \* retry timers pending in the loop
    retryDelayMs,   \* retryDelayMs_
    connection,     \* connection_ is not null
    restarting,     \* removeConnection is past its test of connect_
    other,          \* the call another thread is in: "none", "stop" between the
                    \* two stores of stop(), "start" between those of connect(),
                    \* or "queue" after them
    sockets,        \* how many socket descriptors are open
    calls,          \* how many calls were made
    started,        \* connect() was called
    wanted,         \* history: connect() was the last call, and has queued
    stopped,        \* history: the loop thread called stop(), and no connect()
                    \* has started the Connector since
    client,         \* "alive"; "gone" after ~TcpClient; "wild" once something
                    \* bound to a Connector that was freed has been used
    orphan,         \* the connection after ~TcpClient: "none", "closing" by
                    \* forceClose(), or "held" by the user
    clean,          \* history: ~TcpClient found connection_ and no function
                    \* of Connector in the queue
    gaveUp,         \* history: an attempt ended with an error not retried
    aborted         \* history: an assert failed

userVars == <<calls, started, wanted, stopped, other>>
attemptVars == <<state, channel, sockets, timers, retryDelayMs, gaveUp,
                 aborted>>
lifeVars == <<client, orphan, clean>>
vars == <<clientConnect, connect, queue, connection, restarting, userVars,
          attemptVars, lifeVars>>

\* Queued functions bound to a bare Connector, and to a TcpConnectionPtr.
ConnectorFunctions == {"startInLoop", "stopInLoop", "resetChannel"}
Functions == ConnectorFunctions \cup {"forceCloseInLoop", "connectionDestory"}

\* The type of every variable.
TypeOK ==
    /\ {clientConnect, connect, connection, restarting, started, wanted,
        stopped, clean, gaveUp, aborted} \subseteq BOOLEAN
    /\ state \in {"DISCONNECTED", "CONNECTING", "CONNECTED"}
    /\ channel \in {"none", "watching", "removed"}
    /\ queue \in Seq(Functions)
    /\ client \in {"alive", "gone", "wild"}
    /\ orphan \in {"none", "closing", "held"}
    /\ other \in {"none", "stop", "start", "queue"}
    /\ timers \in Nat /\ sockets \in Nat /\ calls \in 0..MaxCalls
    /\ retryDelayMs \in RetryDelayMs..MaxRetryDelayMs

\* The constructors of TcpClient and of Connector.
Init ==
    /\ clientConnect = TRUE /\ connect = FALSE
    /\ state = "DISCONNECTED" /\ channel = "none"
    /\ queue = <<>>
    /\ timers = 0 /\ retryDelayMs = RetryDelayMs
    /\ connection = FALSE /\ restarting = FALSE /\ other = "none"
    /\ sockets = 0 /\ calls = 0
    /\ started = FALSE /\ wanted = FALSE /\ stopped = FALSE
    /\ client = "alive" /\ orphan = "none" /\ clean = FALSE
    /\ gaveUp = FALSE /\ aborted = FALSE

\* A retry timer owns the Connector, too.
ConnectorAlive == client = "alive" \/ timers > 0

\* The loop thread may start another callback or queued function.
LoopFree == ~restarting /\ ~aborted /\ client # "wild"

---------------------------------------------------------------------------
(* Connector, as functions of the loop thread.                             *)

\* retry: the delay of the retry after one of d milliseconds.
Backoff(d) == IF d * 2 <= MaxRetryDelayMs THEN d * 2 ELSE MaxRetryDelayMs

\* Mutant: retry sets no timer once the delay has reached its limit.
RetryLimited(c, t, d) ==
    /\ state' = "DISCONNECTED"
    /\ timers' = IF c /\ d < MaxRetryDelayMs THEN t + 1 ELSE t
    /\ retryDelayMs' = IF c THEN Backoff(d) ELSE d

\* retry, with connect_ = c, t retry timers pending and a delay of d.  Its
\* callers account for the descriptor it closes.
Retry(c, t, d) ==
    /\ state' = "DISCONNECTED"
    /\ timers' = IF c THEN t + 1 ELSE t
    /\ retryDelayMs' = IF c THEN Backoff(d) ELSE d

\* connecting: the channel of a socket whose connect is in progress.
Connecting(t, d) ==
    /\ state' = "CONNECTING"
    /\ channel' = "watching"
    /\ sockets' = sockets + 1
    /\ timers' = t /\ retryDelayMs' = d
    /\ UNCHANGED gaveUp

\* What the system call connect answers: success or EINPROGRESS and the like,
\* an error that is retried, or an error that is only logged.
Outcomes == {"progress", "retried", "logged"}

\* startInLoop and connect, entered in state s, with connect_ = c, t retry
\* timers pending and a delay of d.
StartInLoop(s, c, t, d, outcome) ==
    /\ aborted' = \/ s # "DISCONNECTED"
                  \/ c /\ outcome = "progress" /\ channel # "none"
    /\ \/ /\ ~c
          /\ state' = s /\ timers' = t /\ retryDelayMs' = d
          /\ UNCHANGED <<channel, sockets, gaveUp>>
       \/ /\ c /\ outcome = "progress"
          /\ Connecting(t, d)
       \/ /\ c /\ outcome = "retried"
          /\ Retry(c, t, d)
          /\ UNCHANGED <<channel, sockets, gaveUp>>
       \/ /\ c /\ outcome = "logged"
          /\ gaveUp' = TRUE
          /\ state' = s /\ timers' = t /\ retryDelayMs' = d
          /\ UNCHANGED <<channel, sockets>>

\* removeAndResetChannel, with the functions q pending.
RemoveAndResetChannel(q) ==
    /\ channel' = "removed"
    /\ queue' = Append(q, "resetChannel")

\* A retry timer expires: startInLoop.
TimerFires(outcome) ==
    /\ LoopFree
    /\ timers > 0
    /\ Prompt => channel # "removed"
    /\ StartInLoop(state, connect, timers - 1, retryDelayMs, outcome)
    /\ UNCHANGED <<lifeVars, clientConnect, connect, queue, connection, restarting,
                   userVars>>

\* The connect in progress failed, or connected the socket to itself:
\* handleWrite or handleError, and a second callback that finds another state.
ConnectFails ==
    /\ LoopFree
    /\ ConnectorAlive
    /\ channel = "watching" /\ state = "CONNECTING"
    /\ RemoveAndResetChannel(queue)
    /\ sockets' = sockets - 1
    /\ Retry(connect, timers, retryDelayMs)
    /\ UNCHANGED <<lifeVars, clientConnect, connect, connection, restarting, userVars,
                   gaveUp, aborted>>

\* TcpClient::newConnection: the connection takes over the socket.
NewConnection ==
    /\ connection' = TRUE
    /\ UNCHANGED sockets

\* Mutant: handleWrite does not close the socket after a stop.
CloseUnwantedLeak ==
    UNCHANGED <<connection, sockets>>

\* handleWrite closes a socket that connected after a stop.
CloseUnwanted ==
    /\ sockets' = sockets - 1
    /\ UNCHANGED connection

\* handleWrite when the socket is connected.
HandleWrite ==
    /\ LoopFree
    /\ ConnectorAlive
    /\ channel = "watching" /\ state = "CONNECTING"
    /\ RemoveAndResetChannel(queue)
    /\ state' = "CONNECTED"
    /\ IF connect THEN NewConnection ELSE CloseUnwanted
    /\ UNCHANGED <<lifeVars, clientConnect, connect, restarting, userVars, timers,
                   retryDelayMs, gaveUp, aborted>>

---------------------------------------------------------------------------
(* The queued functions.                                                   *)

\* The loop takes the first function of the queue.
Runs(f) ==
    /\ LoopFree /\ queue # <<>> /\ Head(queue) = f
    /\ f \in ConnectorFunctions => ConnectorAlive

\* start(), of another thread.
RunStart(outcome) ==
    /\ Runs("startInLoop")
    /\ queue' = Tail(queue)
    /\ StartInLoop(state, connect, timers, retryDelayMs, outcome)
    /\ UNCHANGED <<lifeVars, clientConnect, connect, connection, restarting, userVars>>

\* stopInLoop.
RunStop ==
    /\ Runs("stopInLoop")
    /\ IF state = "CONNECTING"
       THEN /\ RemoveAndResetChannel(Tail(queue))
            /\ sockets' = sockets - 1
            /\ Retry(connect, timers, retryDelayMs)
       ELSE /\ queue' = Tail(queue)
            /\ UNCHANGED <<channel, sockets, state, timers, retryDelayMs>>
    /\ UNCHANGED <<lifeVars, clientConnect, connect, connection, restarting, userVars,
                   gaveUp, aborted>>

\* resetChannel.
RunReset ==
    /\ Runs("resetChannel")
    /\ queue' = Tail(queue)
    /\ channel' = "none"
    /\ UNCHANGED <<lifeVars, clientConnect, connect, connection, restarting, userVars,
                   state, sockets, timers, retryDelayMs, gaveUp, aborted>>

\* connectionDestory, the last owner of the connection, closes its socket.
RunDestroy ==
    /\ Runs("connectionDestory")
    /\ queue' = Tail(queue)
    /\ sockets' = sockets - 1
    /\ UNCHANGED <<lifeVars, clientConnect, connect, connection, restarting, userVars,
                   state, channel, timers, retryDelayMs, gaveUp, aborted>>

---------------------------------------------------------------------------
(* TcpClient::removeConnection.                                            *)

\* Mutant: restarts without testing connect_.
ConnectionClosesRestarts ==
    /\ LoopFree
    /\ connection
    /\ ~Contains(queue, "resetChannel")
    /\ connection' = FALSE
    /\ queue' = Append(queue, "connectionDestory")
    /\ restarting' = EnableRetry
    /\ UNCHANGED <<lifeVars, clientConnect, connect, userVars, attemptVars>>

\* The connection is closed, by the peer or after disconnect(): up to the test
\* of retry_ and connect_.  It is closed by an event or a function later than
\* the resetChannel queued before it was made.
ConnectionCloses ==
    /\ LoopFree
    /\ connection
    /\ ~Contains(queue, "resetChannel")
    /\ connection' = FALSE
    /\ queue' = Append(queue, "connectionDestory")
    /\ restarting' = (EnableRetry /\ clientConnect)
    /\ UNCHANGED <<lifeVars, clientConnect, connect, userVars, attemptVars>>

\* Connector::restart.
Restart(outcome) ==
    /\ restarting
    /\ restarting' = FALSE
    /\ connect' = TRUE
    /\ StartInLoop("DISCONNECTED", TRUE, timers, RetryDelayMs, outcome)
    /\ UNCHANGED <<lifeVars, clientConnect, queue, connection, userVars>>

---------------------------------------------------------------------------
(* The user's calls, in the loop thread and in one other thread.           *)

MayCall == calls < MaxCalls /\ ~aborted /\ client = "alive"

\* The other thread is not inside connect() or stop().
OtherFree == other = "none"

\* Nothing of the client is pending in the loop or in the kernel.
Idle ==
    /\ queue = <<>> /\ timers = 0
    /\ state # "CONNECTING"
    /\ ~connection /\ ~restarting
    /\ other \notin {"start", "queue"}

MayConnect == MayCall /\ (started => Reconnects /\ Idle)

\* connect() by the loop thread.
ConnectHere(outcome) ==
    /\ LoopFree /\ MayConnect
    /\ calls' = calls + 1
    /\ started' = TRUE /\ wanted' = TRUE /\ stopped' = FALSE
    /\ clientConnect' = TRUE /\ connect' = TRUE
    /\ StartInLoop(state, TRUE, timers, retryDelayMs, outcome)
    /\ UNCHANGED <<lifeVars, queue, connection, restarting, other>>

\* connect() by another thread, up to Connector::start.
ConnectThere ==
    /\ OtherFree /\ MayConnect
    /\ calls' = calls + 1
    /\ started' = TRUE
    /\ clientConnect' = TRUE
    /\ other' = "start"
    /\ UNCHANGED <<lifeVars, connect, queue, connection, restarting, wanted,
                   stopped, attemptVars>>

\* Connector::start in another thread: it stores connect_ ...
ConnectorStart ==
    /\ other = "start"
    /\ connect' = TRUE
    /\ other' = "queue"
    /\ UNCHANGED <<lifeVars, clientConnect, queue, connection, restarting, calls,
                   started, wanted, stopped, attemptVars>>

\* ... and queues startInLoop.  A disconnect() or stop() of the loop thread may
\* have come in between.
QueueStart ==
    /\ other = "queue"
    /\ queue' = Append(queue, "startInLoop")
    /\ wanted' = clientConnect /\ stopped' = (stopped /\ ~connect)
    /\ other' = "none"
    /\ UNCHANGED <<lifeVars, clientConnect, connect, connection, restarting, calls,
                   started, attemptVars>>

\* disconnect(); the connection, if there is one, is shut down and will close.
Disconnect ==
    /\ MayCall /\ (OtherFree \/ LoopFree)
    /\ calls' = calls + 1
    /\ wanted' = FALSE
    /\ clientConnect' = FALSE
    /\ UNCHANGED <<lifeVars, connect, queue, connection, restarting, started, stopped,
                   other, attemptVars>>

\* stop() by the loop thread.
StopHere ==
    /\ LoopFree /\ MayCall
    /\ calls' = calls + 1
    /\ wanted' = FALSE /\ stopped' = TRUE
    /\ clientConnect' = FALSE /\ connect' = FALSE
    /\ queue' = Append(queue, "stopInLoop")
    /\ UNCHANGED <<lifeVars, connection, restarting, started, other, attemptVars>>

\* stop() by another thread, up to Connector::stop.
StopThere ==
    /\ OtherFree /\ MayCall
    /\ calls' = calls + 1
    /\ wanted' = FALSE
    /\ clientConnect' = FALSE
    /\ other' = "stop"
    /\ UNCHANGED <<lifeVars, connect, queue, connection, restarting, started,
                   stopped, attemptVars>>

\* Connector::stop, in another thread.
ConnectorStop ==
    /\ other = "stop"
    /\ other' = "none"
    /\ wanted' = FALSE
    /\ connect' = FALSE
    /\ queue' = Append(queue, "stopInLoop")
    /\ UNCHANGED <<lifeVars, clientConnect, connection, restarting, calls, started,
                   stopped, attemptVars>>

---------------------------------------------------------------------------
(* The end of the client.                                                  *)

\* Mutant: the Connector is stopped whether or not there is a connection.
DestroyAlwaysStops(unique) ==
    /\ LoopFree /\ OtherFree /\ client = "alive"
    /\ client' = "gone"
    /\ clean' = (connection
                 /\ \A f \in ConnectorFunctions : ~Contains(queue, f))
    /\ connection' = FALSE
    /\ orphan' = IF connection THEN "closing" ELSE "none"
    /\ connect' = FALSE
    /\ queue' = queue \o <<"stopInLoop", "forceCloseInLoop">>
    /\ wanted' = FALSE
    /\ UNCHANGED <<clientConnect, restarting, calls, started, stopped,
                   other, attemptVars>>

\* ~TcpClient: with a connection it sets stnl::removeConnection as the close
\* callback and closes the connection if nobody else has it; without one it
\* stops the Connector.  The members are destroyed.
Destroy(unique) ==
    /\ LoopFree /\ OtherFree /\ client = "alive"
    /\ client' = "gone"
    /\ clean' = (connection
                 /\ \A f \in ConnectorFunctions : ~Contains(queue, f))
    /\ connection' = FALSE
    /\ IF connection
       THEN /\ orphan' = IF unique THEN "closing" ELSE "held"
            /\ queue' = IF unique THEN Append(queue, "forceCloseInLoop")
                        ELSE queue
            /\ UNCHANGED connect
       ELSE /\ connect' = FALSE
            /\ queue' = Append(queue, "stopInLoop")
            /\ UNCHANGED orphan
    /\ wanted' = FALSE
    /\ UNCHANGED <<clientConnect, restarting, calls, started, stopped,
                   other, attemptVars>>

\* The connection that outlived the client closes: stnl::removeConnection.
OrphanCloses ==
    /\ LoopFree /\ orphan # "none"
    /\ orphan' = "none"
    /\ queue' = Append(queue, "connectionDestory")
    /\ UNCHANGED <<clientConnect, connect, connection, restarting, client, clean,
                   userVars, attemptVars>>

\* forceCloseInLoop, on a connection that the peer may have closed before.
RunForceClose ==
    /\ Runs("forceCloseInLoop")
    /\ orphan' = "none"
    /\ queue' = IF orphan = "none" THEN Tail(queue)
                ELSE Append(Tail(queue), "connectionDestory")
    /\ UNCHANGED <<clientConnect, connect, connection, restarting, client, clean,
                   userVars, attemptVars>>

\* A queued function, or an event of the channel, reaches a freed Connector.
UseAfterFree ==
    /\ LoopFree /\ ~ConnectorAlive
    /\ \/ queue # <<>> /\ Head(queue) \in ConnectorFunctions
       \/ channel = "watching"
    /\ client' = "wild"
    /\ UNCHANGED <<clientConnect, connect, queue, connection, restarting, orphan,
                   clean, userVars, attemptVars>>

---------------------------------------------------------------------------
(* The specification.                                                      *)

LoopStep ==
    \/ \E o \in Outcomes : TimerFires(o) \/ RunStart(o) \/ Restart(o)
    \/ RunStop \/ RunReset \/ RunDestroy \/ RunForceClose \/ UseAfterFree

UserStep ==
    \/ \E o \in Outcomes : ConnectHere(o)
    \/ ConnectThere \/ ConnectorStart \/ QueueStart
    \/ Disconnect \/ StopHere \/ StopThere \/ ConnectorStop
    \/ \E unique \in BOOLEAN : Destroy(unique)

Next ==
    \/ LoopStep \/ UserStep
    \/ ConnectFails \/ HandleWrite \/ ConnectionCloses
    \/ OrphanCloses

Spec == Init /\ [][Next]_vars

\* The loop keeps running what is queued or due, the kernel answers every
\* connect in progress, and a thread inside connect() or stop() goes on.
Fairness ==
    /\ WF_vars(LoopStep)
    /\ WF_vars(ConnectorStart \/ QueueStart \/ ConnectorStop)
    /\ WF_vars(ConnectFails \/ HandleWrite)

LiveSpec == Spec /\ Fairness

\* The server can be reached again and again.
Reachable ==
    /\ SF_vars(TimerFires("progress"))
    /\ SF_vars(HandleWrite)

---------------------------------------------------------------------------
(* Properties.                                                             *)

\* How often the function f is in the sequence s.
CountOf(s, f) == Cardinality({i \in DOMAIN s : s[i] = f})

\* Every attempt that is pending, in progress or successful.
Attempts ==
    timers + CountOf(queue, "startInLoop")
    + (IF channel = "watching" THEN 1 ELSE 0)
    + (IF connection \/ restarting THEN 1 ELSE 0)

\* Timers, queued starts, callbacks and restart never make two attempts at
\* once, and while the user wants a connection and no error ended the attempts
\* there is one: none is forgotten between retry, restart and the queue.  No
\* assert of startInLoop or connecting fails: an attempt starts only in state
\* DISCONNECTED, with no channel left from the attempt before.
OneAttempt ==
    /\ TypeOK /\ ~aborted
    /\ Attempts <= 1
    /\ wanted /\ EnableRetry /\ ~gaveUp => Attempts = 1

\* Every open descriptor belongs to an attempt in progress, to the connection
\* or to a connection waiting for connectionDestory: none is leaked and none is
\* closed twice, whichever of stop(), an error or a success comes first, and
\* also when a client with a connection is destroyed.
NoSocketLeak ==
    client = "alive" \/ clean =>
    sockets = (IF channel = "watching" THEN 1 ELSE 0)
              + (IF connection \/ orphan # "none" THEN 1 ELSE 0)
              + CountOf(queue, "connectionDestory")

\* After a stop() of the loop thread that no later connect() undoes, the
\* attempts come to an end, whatever the other thread calls.
StopHolds ==
    <>[](stopped /\ client # "wild" => timers = 0 /\ channel # "watching")

\* A wanted connection is made, if the server can be reached again and again:
\* a failed attempt is retried and does not stop the retries.
KeepsTrying ==
    Reachable => ((wanted /\ ~connection)
                     ~> (connection \/ ~wanted \/ gaveUp))

\* A client destroyed while it has a connection, in the loop thread and after
\* Connector's queued functions have run, leaves nothing that uses the freed
\* Connector or TcpClient, and its connection is closed unless the user has it.
CleanDestroy ==
    clean ~> [](client = "gone" /\ (sockets = 0 \/ orphan = "held"))

=============================================================================
