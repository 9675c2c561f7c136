----------------------------- MODULE TcpServer -----------------------------
(***************************************************************************)
(* stnl::TcpServer with its Acceptor, the EventLoopThreadPool and, for     *)
(* each loop, the channelMap_ of its Epoll.  The main loop accepts, names  *)
(* and owns the connections; each lives in one of the loops, which finds   *)
(* out that the peer has closed it and hands it back to the main loop to   *)
(* be removed.  What a connection does while it is up is module            *)
(* TcpConnection.  Descriptors are a bounded resource the kernel gives out *)
(* again, lowest first.                                                    *)
(***************************************************************************)
EXTENDS Naturals, Sequences, FiniteSets, FiniteSetsExt, SequencesExt

CONSTANTS
    Hosts, Ports,   \* IPv4 addresses and ports of the peers
    MaxThreads,     \* bound on threadNums_
    MaxConns,       \* bound: TcpConnection objects made
    NumFds,         \* descriptors left for idleFd_, connections and others
    RacyOpen        \* BOOLEAN: other code may open a descriptor while the
                    \* Acceptor has given up idleFd_

ASSUME TcpServerAssumption ==
    /\ {MaxThreads, MaxConns, NumFds} \subseteq Nat /\ NumFds >= 1
    /\ RacyOpen \in BOOLEAN

VARIABLES
    threadNums,     \* threadNums_ of the pool
    nextLoop,       \* nextLoopIndex_
    server,         \* "new", "running", "destroying" or "gone"
    backlog,        \* peers waiting to be accepted
    emfile,         \* where handleRead is when descriptors have run out
    idleFd,         \* idleFd_, or None
    others,         \* descriptors held by other code of the process
    connections,    \* connections_: the connection under each key, or None
    conns,          \* the TcpConnections made so far
    channelMap,     \* channelMap_ of each loop: the channel under a descriptor
    phase,          \* where each loop is in EventLoop::loop
    active,         \* activeChannels of each loop still to be handled
    queue,          \* pendingFunctions_ of each loop, behind its batch
    batch,          \* how many functions at the head of queue were swapped out
    quit,           \* running_ of the loop was set to false
    ups, downs,     \* history: calls of connectionCallback_
    aborted,        \* history: an assert failed
    collided        \* history: a connection took the place of another one of
                    \* the same name in connections_

acceptorVars == <<backlog, emfile, idleFd>>
connVars == <<connections, conns, channelMap, ups, downs, aborted, collided>>
loopVars == <<phase, active, queue, batch>>
vars == <<threadNums, nextLoop, server, acceptorVars, others, connVars,
          loopVars, quit>>

None == 0
Main == 0
Loops == 0..MaxThreads
Ids == 1..MaxConns
Fds == 1..NumFds
Peers == Hosts \X Ports

\* The loop's listenChannel_ among the active channels; a connection's channel
\* is the connection.
ListenChannel == 0

\* accept() hands a sockaddr_in6 to the kernel, which stores an IPv4 address
\* where sin6_flowinfo is and leaves sin6_addr at zero.
AcceptAddr(p) == [sin6_port |-> p[2], sin6_flowinfo |-> p[1], sin6_addr |-> "::"]

\* ip_str() and port() of such an address.
IpStr(a) == a.sin6_addr
Port(a) == a.sin6_port

\* The name newConnectionCallback makes up.
ConnectionName(p) == <<IpStr(AcceptAddr(p)), Port(AcceptAddr(p))>>
Keys == {ConnectionName(p) : p \in Peers}

---------------------------------------------------------------------------
(* Ownership of connections and descriptors.                               *)

Made == {c \in Ids : conns[c].loop \in Loops}

QueuedIn(l) == {queue[l][i].conn : i \in 1..Len(queue[l])}

\* The reference count is not zero: the map or a queued function has it.
Alive(c) == c \in Range(connections) \/ \E l \in Loops : c \in QueuedIn(l)

\* The descriptors of the process that are not open.
FreeFds ==
    Fds \ ({idleFd} \cup others \cup {conns[c].fd : c \in {d \in Made : Alive(d)}})

\* The process goes on: no assert has failed, and no connection that another one
\* has replaced is freed with its channel in channelMap_, which is undefined.
Goes ==
    /\ ~aborted
    /\ ~(collided /\ \E c \in Made :
            ~Alive(c) /\ channelMap[conns[c].loop][conns[c].fd] = c)

NoConn == [peer |-> None, fd |-> None, loop |-> MaxThreads + 1,
           state |-> "none", chan |-> "NEW", closed |-> FALSE]

\* The constructors of TcpServer, Acceptor and EventLoopThreadPool.
Init ==
    /\ threadNums \in 0..MaxThreads /\ nextLoop = 1
    /\ server = "new"
    /\ backlog = <<>> /\ emfile = "no" /\ idleFd = 1 /\ others = {}
    /\ connections = [k \in Keys |-> None]
    /\ conns = [c \in Ids |-> NoConn]
    /\ channelMap = [l \in Loops |-> [f \in Fds |-> None]]
    /\ phase = [l \in Loops |-> "out"]
    /\ active = [l \in Loops |-> {}]
    /\ queue = [l \in Loops |-> <<>>]
    /\ batch = [l \in Loops |-> 0]
    /\ quit = [l \in Loops |-> FALSE]
    /\ ups = [c \in Ids |-> 0] /\ downs = [c \in Ids |-> 0]
    /\ aborted = FALSE /\ collided = FALSE

\* EventLoopThreadPool::start and startLoop: as many loops as threadNums_.
PoolStart ==
    phase' = [l \in Loops |-> IF l <= threadNums THEN "select" ELSE "out"]

\* TcpServer::start: the loops of the pool, listen, the main loop.
Start ==
    /\ server = "new"
    /\ server' = "running"
    /\ PoolStart
    /\ UNCHANGED <<threadNums, nextLoop, acceptorVars, others, connVars,
                   active, queue, batch, quit>>

---------------------------------------------------------------------------
(* EventLoop::loop, for the loops of the server.                           *)

\* The channels epoll_wait reports.
Ready(l) ==
    {c \in Made : /\ conns[c].loop = l /\ Alive(c)
                  /\ conns[c].chan = "ADDED" /\ conns[c].closed}
    \cup {c \in {ListenChannel} : l = Main /\ backlog # <<>>}

\* Epoll::select returns for an event or a wakeup, and checks channelMap_.
Select(l) ==
    /\ phase[l] = "select" /\ Goes
    /\ Ready(l) # {} \/ queue[l] # <<>> \/ quit[l]
    /\ phase' = [phase EXCEPT ![l] = "events"]
    /\ active' = [active EXCEPT ![l] = Ready(l)]
    /\ aborted' = \E c \in Ready(l) \ {ListenChannel} :
                      channelMap[l][conns[c].fd] # c
    /\ UNCHANGED <<threadNums, nextLoop, server, acceptorVars, others,
                   connections, conns, channelMap, ups, downs, collided,
                   queue, batch, quit>>

\* The loop is about to handle channel c, one of the active ones; a callback
\* under way in the main loop is one that has given up idleFd_.
Handles(l, c) ==
    /\ phase[l] = "events" /\ c \in active[l] /\ Goes
    /\ l = Main => emfile = "no"

\* The callback of channel c and handleEvents return.
EventDone(l, c) == active' = [active EXCEPT ![l] = @ \ {c}]

\* doPendingFunctions takes the queue.
Swap(l) ==
    /\ phase[l] = "events" /\ active[l] = {} /\ Goes
    /\ phase' = [phase EXCEPT ![l] = "functions"]
    /\ batch' = [batch EXCEPT ![l] = Len(queue[l])]
    /\ UNCHANGED <<threadNums, nextLoop, server, acceptorVars, others,
                   connVars, active, queue, quit>>

\* The test of running_ after the batch.
EndIteration(l) ==
    /\ phase[l] = "functions" /\ batch[l] = 0 /\ Goes
    /\ phase' = [phase EXCEPT ![l] = IF quit[l] THEN "out" ELSE "select"]
    /\ UNCHANGED <<threadNums, nextLoop, server, acceptorVars, others,
                   connVars, active, queue, batch, quit>>

\* A function of the batch.
Runs(l, op) ==
    /\ phase[l] = "functions" /\ batch[l] > 0 /\ Goes
    /\ Head(queue[l]).op = op
    /\ batch' = [batch EXCEPT ![l] = @ - 1]

\* queueInLoop of a function about c, with the queues q.
QueueInLoop(q, l, op, c) ==
    [q EXCEPT ![l] = Append(@, [op |-> op, conn |-> c])]

\* The function at the head has run.  (Its closure lives until the batch ends;
\* the model lets go of the connection already, so its descriptor is free
\* somewhat earlier than in the code.)
Popped(l) == [queue EXCEPT ![l] = Tail(@)]

---------------------------------------------------------------------------
(* The connection's functions in its loop.                                 *)

\* connectionEstablish of the connection record r, which is c: enableRead
\* makes Epoll add a channel that must not be in channelMap_.
Establish(c, r) ==
    /\ conns' = [conns EXCEPT ![c] =
                    [r EXCEPT !.state = "CONNECTED", !.chan = "ADDED"]]
    /\ channelMap' = [channelMap EXCEPT ![r.loop][r.fd] = c]
    /\ ups' = [ups EXCEPT ![c] = @ + 1]
    /\ aborted' = (r.state # "CONNECTING" \/ channelMap[r.loop][r.fd] # None)
    /\ UNCHANGED downs

RunEstablish(l) ==
    /\ Runs(l, "establish")
    /\ LET c == Head(queue[l]).conn IN Establish(c, conns[c])
    /\ queue' = Popped(l)
    /\ UNCHANGED <<threadNums, nextLoop, server, acceptorVars, others,
                   connections, collided, phase, active, quit>>

\* Mutant: the channel stays in channelMap_.
DestroyNoRemove(D) ==
    /\ conns' = [c \in Ids |-> IF c \in D
                    THEN [conns[c] EXCEPT !.state = "DISCONNECTED",
                                          !.chan = "NEW"]
                    ELSE conns[c]]
    /\ downs' = [c \in Ids |->
                    IF c \in D /\ conns[c].state = "CONNECTED"
                    THEN downs[c] + 1 ELSE downs[c]]
    /\ UNCHANGED <<channelMap, aborted>>

\* connectionDestory of each of D, in their loops: disableAll and the callback
\* if it is up, then the channel leaves epoll and channelMap_.
Destroy(D) ==
    /\ conns' = [c \in Ids |-> IF c \in D
                    THEN [conns[c] EXCEPT !.chan = "NEW", !.state =
                            IF @ = "CONNECTED" THEN "DISCONNECTED" ELSE @]
                    ELSE conns[c]]
    /\ downs' = [c \in Ids |->
                    IF c \in D /\ conns[c].state = "CONNECTED"
                    THEN downs[c] + 1 ELSE downs[c]]
    /\ channelMap' = [l \in Loops |-> [f \in Fds |->
                        IF \E c \in D : conns[c].loop = l /\ conns[c].fd = f
                        THEN None ELSE channelMap[l][f]]]
    /\ aborted' = \E c \in D : /\ conns[c].state = "CONNECTED"
                              /\ channelMap[conns[c].loop][conns[c].fd] # c

RunDestroy(l) ==
    /\ Runs(l, "destroy")
    /\ Destroy({Head(queue[l]).conn})
    /\ queue' = Popped(l)
    /\ UNCHANGED <<threadNums, nextLoop, server, acceptorVars, others,
                   connections, ups, collided, phase, active, quit>>

\* Mutant: the key stays in connections_.
RemoveConnectionKeepsKey(q, c) ==
    /\ queue' = QueueInLoop(q, conns[c].loop, "destroy", c)
    /\ UNCHANGED connections

\* Mutant: nothing is queued to the connection's loop.
RemoveConnectionNoDestroy(q, c) ==
    /\ connections' = [connections EXCEPT ![ConnectionName(conns[c].peer)] = None]
    /\ queue' = q

\* removeConnectionInLoop, in the main loop, with the queues q.
RemoveConnectionInLoop(q, c) ==
    /\ connections' = [connections EXCEPT ![ConnectionName(conns[c].peer)] = None]
    /\ queue' = QueueInLoop(q, conns[c].loop, "destroy", c)

\* Mutant: the key is erased at once, and again by the main loop.
HandleCloseErases(l, c) ==
    /\ Handles(l, c)
    /\ aborted' = (conns[c].state # "CONNECTED"
                   \/ channelMap[l][conns[c].fd] # c)
    /\ conns' = [conns EXCEPT ![c].state = "DISCONNECTED", ![c].chan = "DELETED"]
    /\ downs' = [downs EXCEPT ![c] = @ + 1]
    /\ connections' = [connections EXCEPT ![ConnectionName(conns[c].peer)] = None]
    /\ queue' = QueueInLoop(queue, Main, "remove", c)
    /\ EventDone(l, c)
    /\ UNCHANGED <<threadNums, nextLoop, server, acceptorVars, others,
                   channelMap, ups, collided, phase, batch, quit>>

\* handleClose: the state, disableAll, the callback, and removeConnection,
\* which runs at once if this is the main loop.
HandleClose(l, c) ==
    /\ Handles(l, c)
    /\ aborted' = (conns[c].state # "CONNECTED"
                   \/ channelMap[l][conns[c].fd] # c)
    /\ conns' = [conns EXCEPT ![c].state = "DISCONNECTED", ![c].chan = "DELETED"]
    /\ downs' = [downs EXCEPT ![c] = @ + 1]
    /\ IF l = Main THEN RemoveConnectionInLoop(queue, c)
       ELSE /\ queue' = QueueInLoop(queue, Main, "remove", c)
            /\ UNCHANGED connections
    /\ EventDone(l, c)
    /\ UNCHANGED <<threadNums, nextLoop, server, acceptorVars, others,
                   channelMap, ups, collided, phase, batch, quit>>

RunRemove ==
    /\ Runs(Main, "remove")
    /\ RemoveConnectionInLoop(Popped(Main), Head(queue[Main]).conn)
    /\ UNCHANGED <<threadNums, nextLoop, server, acceptorVars, others, conns,
                   channelMap, ups, downs, aborted, collided, phase, active,
                   quit>>

---------------------------------------------------------------------------
(* The Acceptor.                                                           *)

\* getNextLoop: the loop after the one used last, or the main loop.
NextLoopIndex == IF nextLoop >= threadNums THEN 1 ELSE nextLoop + 1

GetNextLoop == IF threadNums = 0 THEN Main ELSE nextLoop

\* newConnectionCallback for a socket f connected to p.
NewConnection(f, p) ==
    LET c == Cardinality(Made) + 1
        l == GetNextLoop
        r == [peer |-> p, fd |-> f, loop |-> l, state |-> "CONNECTING",
              chan |-> "NEW", closed |-> FALSE]
    IN
    /\ nextLoop' = IF threadNums = 0 THEN nextLoop ELSE NextLoopIndex
    /\ connections' = [connections EXCEPT ![ConnectionName(p)] = c]
    /\ collided' = (collided \/ connections[ConnectionName(p)] # None)
    /\ IF l = Main
       THEN /\ Establish(c, r)
            /\ UNCHANGED queue
       ELSE /\ conns' = [conns EXCEPT ![c] = r]
            /\ queue' = QueueInLoop(queue, l, "establish", c)
            /\ UNCHANGED <<channelMap, ups, downs, aborted>>

\* Acceptor::handleRead: accept takes the first of the backlog.
Accept ==
    /\ Handles(Main, ListenChannel)
    /\ FreeFds # {} /\ backlog # <<>>
    /\ backlog' = Tail(backlog)
    /\ NewConnection(Min(FreeFds), Head(backlog))
    /\ EventDone(Main, ListenChannel)
    /\ UNCHANGED <<threadNums, server, emfile, idleFd, others, phase, batch,
                   quit>>

\* accept fails with EMFILE: close(idleFd_).
CloseIdle ==
    /\ Handles(Main, ListenChannel)
    /\ FreeFds = {}
    /\ emfile' = "accept"
    /\ idleFd' = None
    /\ UNCHANGED <<threadNums, nextLoop, server, backlog, others, connVars,
                   loopVars, quit>>

\* Mutant: the descriptor that was freed is not used to accept.
AcceptAndDropSkipped ==
    /\ emfile = "accept" /\ Goes
    /\ emfile' = "open"
    /\ UNCHANGED <<threadNums, nextLoop, server, backlog, idleFd, others,
                   connVars, loopVars, quit>>

\* The second accept, into idleFd_, and the close of it.
AcceptAndDrop ==
    /\ emfile = "accept" /\ Goes
    /\ emfile' = "open"
    /\ backlog' = IF FreeFds # {} THEN Tail(backlog) ELSE backlog
    /\ UNCHANGED <<threadNums, nextLoop, server, idleFd, others, connVars,
                   loopVars, quit>>

\* open("/dev/null"), which may fail.
ReopenIdle ==
    /\ emfile = "open" /\ Goes
    /\ emfile' = "no"
    /\ idleFd' = IF FreeFds # {} THEN Min(FreeFds) ELSE None
    /\ EventDone(Main, ListenChannel)
    /\ UNCHANGED <<threadNums, nextLoop, server, backlog, others, connVars,
                   phase, queue, batch, quit>>

---------------------------------------------------------------------------
(* The peers, other code of the process, and the end of the server.        *)

\* A peer connects.  It uses its port again when it has closed or reset its old
\* connection, which the server may not have noticed.  Bound: one connection of
\* a peer waits to be accepted.
Connect(p) ==
    /\ server = "running" /\ Goes /\ ~Contains(backlog, p)
    /\ Cardinality(Made) + Len(backlog) < MaxConns
    /\ \A c \in Made : conns[c].peer = p => ~Alive(c) \/ conns[c].closed
    /\ backlog' = Append(backlog, p)
    /\ UNCHANGED <<threadNums, nextLoop, server, emfile, idleFd, others,
                   connVars, loopVars, quit>>

PeerCloses(c) ==
    /\ c \in Made /\ Goes /\ ~conns[c].closed
    /\ conns' = [conns EXCEPT ![c].closed = TRUE]
    /\ UNCHANGED <<threadNums, nextLoop, server, acceptorVars, others,
                   connections, channelMap, ups, downs, aborted, collided,
                   loopVars, quit>>

\* Other code opens a file and keeps it.  Bound: one.
OtherOpens ==
    /\ server = "running" /\ Goes /\ others = {} /\ FreeFds # {}
    /\ RacyOpen \/ emfile = "no"
    /\ others' = {Min(FreeFds)}
    /\ UNCHANGED <<threadNums, nextLoop, server, acceptorVars, connVars,
                   loopVars, quit>>

\* quit() of the main loop, so that start() returns.
QuitMain ==
    /\ server = "running" /\ Goes /\ ~quit[Main]
    /\ quit' = [quit EXCEPT ![Main] = TRUE]
    /\ UNCHANGED <<threadNums, nextLoop, server, acceptorVars, others,
                   connVars, loopVars>>

Owned == Range(connections) \ {None}

\* ~Acceptor: no one accepts any more, and idleFd_ is closed.
AcceptorGone == backlog' = <<>> /\ idleFd' = None

\* Mutant: the connections of other loops are only let go of.
DestroyServerDrops ==
    /\ server = "running" /\ phase[Main] = "out" /\ Goes
    /\ server' = "destroying"
    /\ connections' = [k \in Keys |-> None]
    /\ Destroy({c \in Owned : conns[c].loop = Main})
    /\ AcceptorGone
    /\ UNCHANGED <<threadNums, nextLoop, emfile, others, ups, collided, loopVars,
                   quit>>

\* ~TcpServer once start() has returned: connectionDestory at once, or through
\* the queues, then ~Acceptor.
DestroyServer ==
    /\ server = "running" /\ phase[Main] = "out" /\ Goes
    /\ server' = "destroying"
    /\ connections' = [k \in Keys |-> None]
    /\ Destroy({c \in Owned : conns[c].loop = Main})
    /\ queue' = [l \in Loops |-> queue[l] \o
                    SetToSeq({[op |-> "destroy", conn |-> c] :
                        c \in {d \in Owned : conns[d].loop = l /\ l # Main}})]
    /\ AcceptorGone
    /\ UNCHANGED <<threadNums, nextLoop, emfile, others, ups, collided, phase,
                   active, batch, quit>>

\* ~EventLoopThread of the next thread of the pool: quit(); join() is the
\* condition of the one after it.
QuitThread(l) ==
    /\ server = "destroying" /\ Goes /\ l \in 1..threadNums /\ ~quit[l]
    /\ \A k \in 1..(l - 1) : phase[k] = "out"
    /\ quit' = [quit EXCEPT ![l] = TRUE]
    /\ UNCHANGED <<threadNums, nextLoop, server, acceptorVars, others,
                   connVars, loopVars>>

\* The loops are gone with what was queued in them.
ServerGone ==
    /\ server = "destroying" /\ Goes
    /\ \A l \in 1..threadNums : quit[l] /\ phase[l] = "out"
    /\ server' = "gone"
    /\ queue' = [l \in Loops |-> <<>>]
    /\ UNCHANGED <<threadNums, nextLoop, acceptorVars, others, connVars,
                   phase, active, batch, quit>>

---------------------------------------------------------------------------
LoopStep(l) ==
    \/ Select(l) \/ Swap(l) \/ EndIteration(l)
    \/ RunEstablish(l) \/ RunDestroy(l)
    \/ \E c \in Ids : HandleClose(l, c)

MainStep ==
    LoopStep(Main) \/ RunRemove \/ Accept \/ CloseIdle \/ AcceptAndDrop
    \/ ReopenIdle

DestructorStep ==
    ServerGone \/ \E l \in Loops : QuitThread(l)

Next ==
    \/ Start
    \/ MainStep
    \/ \E l \in Loops \ {Main} : LoopStep(l)
    \/ \E p \in Peers : Connect(p)
    \/ \E c \in Ids : PeerCloses(c)
    \/ OtherOpens \/ QuitMain \/ DestroyServer \/ DestructorStep

Spec == Init /\ [][Next]_vars

\* Each loop's thread goes on, and so does a destructor that has begun.
Fairness ==
    /\ WF_vars(MainStep)
    /\ \A l \in Loops \ {Main} : WF_vars(LoopStep(l))
    /\ WF_vars(DestructorStep)

FairSpec == Spec /\ Fairness

---------------------------------------------------------------------------
(* Properties.                                                             *)

\* The type of every variable.
TypeOK ==
    /\ threadNums \in 0..MaxThreads /\ nextLoop \in 1..Max({1, threadNums})
    /\ server \in {"new", "running", "destroying", "gone"}
    /\ backlog \in Seq(Peers) /\ emfile \in {"no", "accept", "open"}
    /\ idleFd \in Fds \cup {None} /\ others \subseteq Fds
    /\ connections \in [Keys -> Ids \cup {None}]
    /\ conns \in [Ids -> [peer : Peers, fd : Fds, loop : Loops,
                          state : {"CONNECTING", "CONNECTED", "DISCONNECTED"},
                          chan : {"NEW", "ADDED", "DELETED"},
                          closed : BOOLEAN] \cup {NoConn}]
    /\ channelMap \in [Loops -> [Fds -> Ids \cup {None}]]
    /\ phase \in [Loops -> {"out", "select", "events", "functions"}]
    /\ active \in [Loops -> SUBSET (Ids \cup {ListenChannel})]
    /\ queue \in [Loops -> Seq([op : {"establish", "destroy", "remove"},
                                conn : Ids])]
    /\ batch \in [Loops -> Nat] /\ quit \in [Loops -> BOOLEAN]
    /\ ups \in [Ids -> Nat] /\ downs \in [Ids -> Nat]
    /\ aborted \in BOOLEAN /\ collided \in BOOLEAN

\* The asserts of Epoll, connectionEstablish and handleClose hold although a
\* descriptor is given out again as soon as a connection is freed: no loop has
\* a channel of the descriptor's last owner in its channelMap_.  Here and below,
\* once a connection has replaced another one of the same name nothing is
\* claimed: the old one may be freed while epoll knows its channel, and its
\* removal erases the new one.
NoAssertFails == collided \/ (TypeOK /\ ~aborted)

\* epoll hands bare Channel pointers to a loop: no connection is freed while
\* its channel waits to be handled or is being handled, be it by its own
\* callback, by another channel's or by the main loop.
ActiveAlive ==
    [][collided' \/ \A l \in Loops : \A c \in active[l] \cap Ids : Alive(c)']_vars

\* A collision of names is the only way for the server to lose a connection that
\* is up: until one happens each is in connections_ under its own name until
\* ~TcpServer, so removals, which erase by name, erase only their own entry.
OwnedWhileUp ==
    server = "running" /\ ~collided =>
        \A c \in Made : conns[c].state = "CONNECTED" =>
            connections[ConnectionName(conns[c].peer)] = c

\* How often connection c is, or is going to be, destroyed.
Destructions(c) ==
    Cardinality({i \in 1..Len(queue[conns[c].loop]) :
                    queue[conns[c].loop][i] = [op |-> "destroy", conn |-> c]})
    + (IF conns[c].state = "DISCONNECTED" /\ conns[c].chan = "NEW" THEN 1 ELSE 0)

\* A connection is destroyed once: a removal on its way through the main loop
\* and ~TcpServer do not both queue connectionDestory, and the destructor
\* forgets none.  The user hears that it is down, unless its loop had already
\* taken its last batch when connectionDestory was queued and never runs it.
DestroyedOnce ==
    collided \/ \A c \in Made :
        /\ Destructions(c) <= 1
        /\ server = "destroying" /\ (\A l \in 1..threadNums : phase[l] = "out")
              => ups[c] = downs[c] \/ Alive(c)

\* A connection the peer closes is freed and its descriptor closed, on the way
\* from its loop through the main loop and back, while the server runs.
ClosedIsFreed ==
    \A c \in Ids : (c \in Made /\ conns[c].closed)
                       ~> (~Alive(c) \/ quit[Main] \/ collided)

\* A peer does not wait for ever, also when descriptors have run out: it is
\* accepted, or accepted and dropped by way of the idle descriptor.
BacklogServed ==
    \A p \in Peers : Contains(backlog, p)
                        ~> (~Contains(backlog, p) \/ quit[Main] \/ collided)

\* The key of a connection is unique: connections that have not gone down have
\* different names.
KeysUnique ==
    \A c, d \in {e \in Made : conns[e].state # "DISCONNECTED"} :
        c # d => ConnectionName(conns[c].peer) # ConnectionName(conns[d].peer)

=============================================================================
