------------------------ MODULE TcpConnectionProofs ------------------------
(***************************************************************************)
(* Proofs about TcpConnection, for any threads and bounds, with and        *)
(* without calls of shutdown() and forceClose() from other threads and     *)
(* with and without ~TcpServer.                                            *)
(***************************************************************************)
EXTENDS TcpConnection, SequenceTheorems, TLAPS

\* A destroy is in the loop's queue.
DestroyQueued == \E i \in 1..Len(queue) : queue[i].op = "destroy"

(***************************************************************************)
(* Until connectionEstablish has run, nobody else has the connection: only *)
(* ~TcpServer can have queued anything behind it.                          *)
(***************************************************************************)
BeforeEstablish ==
    /\ state = "CONNECTING" =>
         /\ phase # "ended" => queue # <<>> /\ queue[1].op = "establish"
         /\ \A i \in 2..Len(queue) : queue[i].op = "destroy"
         /\ ups = 0 /\ downs = 0 /\ channel = "NEW" /\ revents = {}
         /\ holders = {} /\ removing = 0
         /\ \A t \in Threads : pc[t] = Idle
    /\ state # "CONNECTING" =>
         /\ ups = 1
         /\ \A i \in 1..Len(queue) : queue[i].op # "establish"
         /\ \A t \in Threads : pc[t].op \notin {"establish", "destroy"}

\* returnedEvents_ is left over only while the loop dispatches events.
Dispatching == revents # {} => phase = "events"

\* socketState_, the calls of connectionCallback_ and the channel agree.
Lifecycle ==
    ~overtaken =>
        /\ ~aborted
        /\ state \in {"CONNECTED", "DISCONNECTING"} =>
             downs = 0 /\ reads /\ channel = "ADDED"
        /\ state = "DISCONNECTED" =>
             downs = 1 /\ revents = {} /\ channel \in {"NEW", "DELETED"}

\* The server holds the connection, or has queued its connectionDestory, until
\* the channel is removed or the loop has ended.
OwnedUntilRemoved ==
    ~overtaken /\ phase # "ended" =>
        \/ inMap \/ DestroyQueued
        \/ state = "DISCONNECTED" /\ channel = "NEW"

(***************************************************************************)
(* WriteInterestExact is not inductive: if ~TcpServer overtakes a close,   *)
(* the connection is still used until it goes down.                        *)
(***************************************************************************)
InterestExact == downs = 0 => (writes <=> output # <<>>)

\* The messages that were written, then those waiting in outputBuffer_.
Stream == sent \o output

InOrder(s) ==
    \A i, j \in 1..Len(s) : i < j /\ s[i][1] = s[j][1] => s[i][2] < s[j][2]

(***************************************************************************)
(* SentInOrder is not inductive: the messages of a user go through pc, the *)
(* loop's queue and outputBuffer_, and must be in order along that way.    *)
(***************************************************************************)
StreamOrder ==
    /\ InOrder(Stream)
    /\ \A i \in 1..Len(Stream) : Stream[i][2] <= sends[Stream[i][1]]

QueueOrder ==
    \A k \in 1..Len(queue) : queue[k].op = "send" =>
        /\ queue[k].msg[1] \in Threads
        /\ queue[k].msg[2] <= sends[queue[k].msg[1]]
        /\ \A i \in 1..Len(Stream) :
              Stream[i][1] = queue[k].msg[1] => Stream[i][2] < queue[k].msg[2]
        /\ \A l \in 1..Len(queue) :
              k < l /\ queue[l].op = "send" /\ queue[l].msg[1] = queue[k].msg[1]
                => queue[k].msg[2] < queue[l].msg[2]

PcOrder ==
    \A t \in Threads : pc[t].op = "send" =>
        /\ pc[t].msg[1] = t
        /\ pc[t].msg[2] <= sends[t]
        /\ \A i \in 1..Len(Stream) :
              Stream[i][1] = t => Stream[i][2] < pc[t].msg[2]
        /\ \A k \in 1..Len(queue) :
              queue[k].op = "send" /\ queue[k].msg[1] = t
                => queue[k].msg[2] < pc[t].msg[2]

IInv ==
    /\ TypeOK
    /\ BeforeEstablish
    /\ Dispatching
    /\ Lifecycle
    /\ OwnedUntilRemoved
    /\ InterestExact
    /\ StreamOrder
    /\ QueueOrder
    /\ PcOrder

---------------------------------------------------------------------------
(* The queue of the loop.                                                  *)

\* The functions left when the first is taken.
LEMMA TailQueue ==
    ASSUME queue \in Seq(Closures), NEW op, Runs(op)
    PROVE  /\ queue' \in Seq(Closures) /\ Head(queue) = queue[1]
           /\ 1 \in 1..Len(queue) /\ queue[1].op = op /\ queue[1] \in Closures
           /\ \A i \in 1..Len(queue') :
                 i + 1 \in 2..Len(queue) /\ queue'[i] = queue[i + 1]
           /\ \A j \in 1..Len(queue) :
                 j = 1 \/ \E i \in 1..Len(queue') : j = i + 1
           /\ Len(queue') \in Nat
<1>1. /\ queue' \in Seq(Closures) /\ Len(queue) \in Nat /\ Len(queue) > 0
      /\ Len(queue') = Len(queue) - 1
      /\ \A i \in 1..Len(queue') : queue'[i] = queue[i + 1]
      /\ Head(queue) = queue[1] /\ Head(queue).op = op /\ Head(queue) \in Closures
  BY HeadTailProperties, LenProperties, EmptySeq DEF Runs
<1>2. \A j \in 1..Len(queue) : j = 1 \/ \E i \in 1..Len(queue') : j = i + 1
  <2> TAKE j \in 1..Len(queue)
  <2>1. j = 1 \/ (j - 1 \in 1..Len(queue') /\ j = j - 1 + 1)
    BY <1>1
  <2> QED BY <2>1
<1> QED BY <1>1, <1>2

\* The functions when one is put behind them.
LEMMA AppendQueue ==
    ASSUME queue \in Seq(Closures), NEW c \in Closures,
           queue' = Append(queue, c)
    PROVE  /\ queue' \in Seq(Closures) /\ queue' # <<>>
           /\ Len(queue) \in Nat /\ Len(queue') = Len(queue) + 1
           /\ \A i \in 1..Len(queue) : queue'[i] = queue[i] /\ i \in 1..Len(queue')
           /\ queue'[Len(queue')] = c /\ Len(queue') \in 1..Len(queue')
           /\ \A i \in 1..Len(queue') : i \in 1..Len(queue) \/ i = Len(queue')
<1>1. /\ queue' \in Seq(Closures) /\ Len(queue) \in Nat
      /\ Len(queue') = Len(queue) + 1
      /\ \A i \in 1..Len(queue) : queue'[i] = queue[i]
      /\ queue'[Len(queue) + 1] = c
  BY AppendProperties, LenProperties
<1> QED BY <1>1, EmptySeq

\* A function of the queue, taken apart.
LEMMA ClosureCases ==
    ASSUME NEW c \in Closures
    PROVE  /\ c.op \in {"establish", "forceClose", "destroy", "shutdown", "send"}
           /\ c.op = "send" => c.msg \in Messages
BY DEF Closures, OwningOps

\* The calls that carry nothing but their name.
LEMMA PlainClosures ==
    /\ [op |-> "forceClose"] \in Closures
    /\ [op |-> "destroy"] \in Closures
    /\ [op |-> "shutdown"] \in Closures
    /\ [op |-> "establish"] \in Closures
    /\ \A m \in Messages : [op |-> "send", msg |-> m] \in Closures
BY DEF Closures, OwningOps

---------------------------------------------------------------------------
(* Types.                                                                  *)

ChannelStates == {"NEW", "ADDED", "DELETED"}

\* Channel and Epoll after an update.
LEMMA UpdateType ==
    ASSUME NEW r \in BOOLEAN, NEW w \in BOOLEAN, Update(r, w)
    PROVE  reads' \in BOOLEAN /\ writes' \in BOOLEAN /\ channel' \in ChannelStates
<1>1. reads' \in BOOLEAN /\ writes' \in BOOLEAN
  BY Zenon DEF Update
<1>2. channel' \in ChannelStates
  BY Zenon DEF Update, ChannelStates
<1> QED BY <1>1, <1>2

\* What sendInLoop changes.
LEMMA SendInLoopType ==
    ASSUME TypeOK, NEW m \in Messages, NEW n, SendInLoop(m, n)
    PROVE  /\ reads' \in BOOLEAN /\ writes' \in BOOLEAN
           /\ channel' \in ChannelStates
           /\ output' \in Seq(Messages) /\ sent' \in Seq(Messages)
<1>1. /\ reads \in BOOLEAN /\ writes \in BOOLEAN /\ channel \in ChannelStates
      /\ output \in Seq(Messages) /\ sent \in Seq(Messages)
  BY DEF TypeOK, ChannelStates
<1>2. Append(output, m) \in Seq(Messages) /\ Append(sent, m) \in Seq(Messages)
  BY <1>1, AppendProperties
<1>3. output' \in Seq(Messages) /\ sent' \in Seq(Messages)
  BY <1>1, <1>2 DEF SendInLoop
<1>4. \/ UNCHANGED channelVars
      \/ Update(reads, TRUE)
  BY DEF SendInLoop, channelVars
<1>5. CASE UNCHANGED channelVars
  BY <1>1, <1>3, <1>5, Zenon DEF channelVars
<1>6. CASE Update(reads, TRUE)
  BY <1>1, <1>3, <1>6, UpdateType
<1> QED BY <1>4, <1>5, <1>6

\* What handleClose changes.
LEMMA HandleCloseType ==
    ASSUME TypeOK, HandleClose
    PROVE  /\ state' \in States /\ reads' \in BOOLEAN /\ writes' \in BOOLEAN
           /\ channel' \in ChannelStates /\ aborted' \in BOOLEAN
           /\ removing' \in Nat /\ downs' \in Nat
<1>1. reads' \in BOOLEAN /\ writes' \in BOOLEAN /\ channel' \in ChannelStates
  BY UpdateType DEF HandleClose
<1>2. aborted' \in BOOLEAN
  BY Zenon DEF HandleClose
<1>3. removing' \in Nat /\ downs' \in Nat
  BY DEF HandleClose, TypeOK
<1>4. state' \in States
  BY DEF HandleClose, States
<1> QED BY <1>1, <1>2, <1>3, <1>4

\* TcpServer::newConnectionCallback establishes the invariant.
LEMMA InitIInv == Init => IInv
<1> SUFFICES ASSUME Init PROVE IInv
  OBVIOUS
<1>1. /\ Len(output) = 0 /\ Len(sent) = 0
      /\ output \in Seq(Messages) /\ sent \in Seq(Messages)
  BY EmptySeq DEF Init
<1>2. /\ queue \in Seq(Closures) /\ Len(queue) = 1 /\ queue[1].op = "establish"
      /\ queue # <<>>
  <2>1. [op |-> "establish"] \in Closures
    BY PlainClosures
  <2> QED BY <2>1 DEF Init
<1>3. Stream = <<>> /\ Len(Stream) = 0
  BY ConcatEmptySeq, EmptySeq DEF Init, Stream
<1>4. TypeOK
  <2>1. reads \in BOOLEAN /\ writes \in BOOLEAN /\ finSent \in BOOLEAN
        /\ inMap \in BOOLEAN /\ ownerGone \in BOOLEAN
        /\ overtaken \in BOOLEAN /\ aborted \in BOOLEAN /\ quit \in BOOLEAN
    BY Zenon DEF Init
  <2>2. batch \in Nat /\ pc \in [Threads -> Closures \cup {Idle}] /\ sends \in [Users -> Nat]
        /\ removing \in Nat /\ ups \in Nat /\ downs \in Nat
    BY DEF Init
  <2>3. state \in States /\ channel \in {"NEW", "ADDED", "DELETED"}
        /\ peer \in {"open", "closed", "reset"}
        /\ revents \subseteq {"OUT", "IN", "HUP"} /\ holders \subseteq Users
        /\ phase \in Phases
    BY DEF Init, States, Phases
  <2> QED BY <1>1, <1>2, <2>1, <2>2, <2>3 DEF TypeOK
<1>5. BeforeEstablish
  <2>1. \A t \in Threads : pc[t] = Idle
    BY DEF Init
  <2> QED BY <1>2, <2>1 DEF Init, BeforeEstablish
<1>6. Dispatching /\ Lifecycle /\ OwnedUntilRemoved /\ InterestExact
  BY DEF Init, Dispatching, Lifecycle, OwnedUntilRemoved, InterestExact
<1>7. StreamOrder
  BY <1>3 DEF StreamOrder, InOrder
<1>8. QueueOrder
  BY <1>2 DEF QueueOrder
<1>9. PcOrder
  BY DEF Init, PcOrder, Idle
<1> QED BY <1>4, <1>5, <1>6, <1>7, <1>8, <1>9 DEF IInv

\* Every step keeps the types.
LEMMA NextTypeOK == TypeOK /\ [Next]_vars => TypeOK'
<1> SUFFICES ASSUME TypeOK, [Next]_vars PROVE TypeOK'
  OBVIOUS
<1> USE DEF channelVars, loopVars, ownerVars, historyVars
<1>q. queue \in Seq(Closures)
  BY DEF TypeOK
<1>b. \A op : Runs(op) => batch' \in Nat /\ phase' = phase /\ quit' = quit
  BY DEF Runs, TypeOK
<1>1. ASSUME NEW writable \in BOOLEAN, Select(writable) PROVE TypeOK'
  <2>1. revents' \subseteq {"OUT", "IN", "HUP"} /\ phase' \in Phases
    BY <1>1 DEF Select, Ready, Phases
  <2> QED BY <1>1, <2>1, ZenonT(60) DEF Select, TypeOK
<1>2. ASSUME NEW n \in 0..Len(output), HandleWrite(n) PROVE TypeOK'
  <2>1. output \in Seq(Messages) /\ sent \in Seq(Messages) /\ Len(output) \in Nat
    BY LenProperties DEF TypeOK
  <2>2. SubSeq(output, 1, n) \in Seq(Messages)
        /\ SubSeq(output, n + 1, Len(output)) \in Seq(Messages)
    BY <2>1
  <2>3. sent' \in Seq(Messages) /\ output' \in Seq(Messages)
    BY <1>2, <2>1, <2>2, ConcatProperties DEF HandleWrite
  <2>4. reads' \in BOOLEAN /\ writes' \in BOOLEAN /\ channel' \in ChannelStates
    <3>1. reads \in BOOLEAN /\ writes \in BOOLEAN /\ channel \in ChannelStates
      BY DEF TypeOK, ChannelStates
    <3>2. UNCHANGED channelVars \/ Update(reads, FALSE)
      BY <1>2 DEF HandleWrite
    <3>3. CASE UNCHANGED channelVars
      BY <3>1, <3>3, Zenon
    <3> QED BY <3>1, <3>2, <3>3, UpdateType
  <2>5. finSent' \in BOOLEAN
    BY <1>2, ZenonT(60) DEF HandleWrite, ShutdownInLoop, TypeOK
  <2>6. revents' \subseteq {"OUT", "IN", "HUP"}
    BY <1>2 DEF HandleWrite, TypeOK
  <2> QED BY <1>2, <2>3, <2>4, <2>5, <2>6, Zenon
          DEF HandleWrite, TypeOK, ChannelStates
<1>3. CASE HandleRead
  <2>1. revents' \subseteq {"OUT", "IN", "HUP"}
    BY <1>3 DEF HandleRead
  <2> QED BY <1>3, <2>1, HandleCloseType, Zenon
          DEF HandleRead, TypeOK, ChannelStates
<1>4. CASE HandleHangUp
  <2>1. revents' \subseteq {"OUT", "IN", "HUP"}
    BY <1>4 DEF HandleHangUp
  <2> QED BY <1>4, <2>1, HandleCloseType, Zenon
          DEF HandleHangUp, TypeOK, ChannelStates
<1>5. CASE RunEstablish
  <2>1. queue' \in Seq(Closures) /\ batch' \in Nat /\ phase' = phase
        /\ quit' = quit
    BY <1>5, <1>q, <1>b, TailQueue DEF RunEstablish
  <2>2. reads' \in BOOLEAN /\ writes' \in BOOLEAN /\ channel' \in ChannelStates
    BY <1>5, UpdateType DEF RunEstablish, TypeOK
  <2>3. aborted' \in BOOLEAN
    BY <1>5, Zenon DEF RunEstablish
  <2>4. ups' \in Nat /\ state' \in States /\ holders' \subseteq Users
    BY <1>5 DEF RunEstablish, TypeOK, States
  <2> QED BY <1>5, <2>1, <2>2, <2>3, <2>4, Zenon
          DEF RunEstablish, TypeOK, ChannelStates
<1>6. ASSUME NEW n \in {0, 1}, RunSend(n) PROVE TypeOK'
  <2>1. /\ queue' \in Seq(Closures) /\ Head(queue) \in Closures
        /\ Head(queue).op = "send"
        /\ batch' \in Nat /\ phase' = phase /\ quit' = quit
    BY <1>6, <1>q, <1>b, TailQueue DEF RunSend
  <2>2. Head(queue).msg \in Messages
    BY <2>1, ClosureCases
  <2>3. /\ reads' \in BOOLEAN /\ writes' \in BOOLEAN
        /\ channel' \in ChannelStates
        /\ output' \in Seq(Messages) /\ sent' \in Seq(Messages)
    BY <1>6, <2>2, SendInLoopType DEF RunSend
  <2> QED BY <1>6, <2>1, <2>3, ZenonT(60) DEF RunSend, TypeOK, ChannelStates
<1>7. CASE RunShutdown
  <2>1. queue' \in Seq(Closures) /\ batch' \in Nat /\ phase' = phase
        /\ quit' = quit
    BY <1>7, <1>q, <1>b, TailQueue DEF RunShutdown
  <2>2. finSent' \in BOOLEAN
    BY <1>7, Zenon DEF RunShutdown, ShutdownInLoop
  <2> QED BY <1>7, <2>1, <2>2, ZenonT(60) DEF RunShutdown, TypeOK
<1>8. CASE RunForceClose
  <2>1. queue' \in Seq(Closures) /\ batch' \in Nat /\ phase' = phase
        /\ quit' = quit
    BY <1>8, <1>q, <1>b, TailQueue DEF RunForceClose
  <2>2. CASE HandleClose
    BY <1>8, <2>1, <2>2, HandleCloseType, Zenon
       DEF RunForceClose, TypeOK, ChannelStates
  <2>3. CASE UNCHANGED <<state, channelVars, removing, downs, aborted>>
    BY <1>8, <2>1, <2>3, ZenonT(60) DEF RunForceClose, TypeOK
  <2> QED BY <1>8, <2>2, <2>3 DEF RunForceClose
<1>9. CASE RunDestroy
  <2>1. queue' \in Seq(Closures) /\ batch' \in Nat /\ phase' = phase
        /\ quit' = quit
    BY <1>9, <1>q, <1>b, TailQueue DEF RunDestroy
  <2>2. reads' \in BOOLEAN /\ writes' \in BOOLEAN /\ overtaken' \in BOOLEAN
    BY <1>9, ZenonT(60) DEF RunDestroy, TypeOK
  <2>3. state' \in States /\ downs' \in Nat
        /\ channel' \in {"NEW", "ADDED", "DELETED"}
    BY <1>9 DEF RunDestroy, TypeOK, States
  <2> QED BY <1>9, <2>1, <2>2, <2>3, ZenonT(60) DEF RunDestroy, TypeOK
<1>10. ASSUME NEW n \in {0, 1}, SendHere(n) PROVE TypeOK'
  <2>1. LoopUser \in Users /\ sends[LoopUser] \in Nat
    BY DEF Users, TypeOK
  <2>2. <<LoopUser, sends[LoopUser] + 1>> \in Messages
    BY <2>1 DEF Messages
  <2>3. /\ reads' \in BOOLEAN /\ writes' \in BOOLEAN
        /\ channel' \in ChannelStates
        /\ output' \in Seq(Messages) /\ sent' \in Seq(Messages)
    BY <1>10, <2>2, SendInLoopType DEF SendHere
  <2>4. sends' \in [Users -> Nat]
    BY <1>10, <2>1 DEF SendHere, TypeOK
  <2> QED BY <1>10, <2>3, <2>4, ZenonT(60) DEF SendHere, TypeOK, ChannelStates
<1>11. CASE ShutdownHere
  <2>1. finSent' \in BOOLEAN
    BY <1>11, Zenon DEF ShutdownHere, ShutdownInLoop
  <2>2. state' \in States
    BY <1>11 DEF ShutdownHere, States
  <2> QED BY <1>11, <2>1, <2>2, ZenonT(60) DEF ShutdownHere, TypeOK
<1>12. CASE ForceCloseHere
  <2>1. queue' \in Seq(Closures)
    BY <1>12, <1>q, PlainClosures, AppendQueue DEF ForceCloseHere
  <2>2. state' \in States
    BY <1>12 DEF ForceCloseHere, States
  <2> QED BY <1>12, <2>1, <2>2, ZenonT(60) DEF ForceCloseHere, TypeOK
<1>13. ASSUME NEW t \in Threads, CheckSend(t) PROVE TypeOK'
  <2>1. t \in Users /\ sends[t] \in Nat
    BY DEF Users, TypeOK
  <2>2. <<t, sends[t] + 1>> \in Messages
    BY <2>1 DEF Messages
  <2>3. sends' \in [Users -> Nat]
    BY <1>13, <2>1 DEF CheckSend, TypeOK
  <2>4. pc' \in [Threads -> Closures \cup {Idle}]
    <3>1. [op |-> "send", msg |-> <<t, sends[t] + 1>>] \in Closures
      BY <2>2, PlainClosures
    <3> QED BY <1>13, <3>1 DEF CheckSend, TypeOK
  <2> QED BY <1>13, <2>3, <2>4, ZenonT(60) DEF CheckSend, TypeOK
<1>14. ASSUME NEW t \in Threads, CheckShutdown(t) PROVE TypeOK'
  <2>1. pc' \in [Threads -> Closures \cup {Idle}]
    BY <1>14, PlainClosures DEF CheckShutdown, TypeOK
  <2> QED BY <1>14, <2>1, ZenonT(60) DEF CheckShutdown, TypeOK
<1>15. ASSUME NEW t \in Threads, CheckForceClose(t) PROVE TypeOK'
  <2>1. pc' \in [Threads -> Closures \cup {Idle}]
    BY <1>15, PlainClosures DEF CheckForceClose, TypeOK
  <2> QED BY <1>15, <2>1, ZenonT(60) DEF CheckForceClose, TypeOK
<1>16. ASSUME NEW t \in Threads, Enqueue(t) PROVE TypeOK'
  <2>1. pc' \in [Threads -> Closures \cup {Idle}] /\ pc[t] \in Closures
    BY <1>16 DEF Enqueue, TypeOK
  <2>2. queue' \in Seq(Closures)
    BY <1>16, <1>q, <2>1, AppendQueue DEF Enqueue
  <2>3. overtaken' \in BOOLEAN
    BY <1>16, Zenon DEF Enqueue
  <2>4. state' \in States
    BY <1>16 DEF Enqueue, TypeOK, States
  <2> QED BY <1>16, <2>1, <2>2, <2>3, <2>4, ZenonT(60) DEF Enqueue, TypeOK
<1>17. ASSUME NEW u \in Users, Drop(u) PROVE TypeOK'
  <2>1. holders' \subseteq Users
    BY <1>17 DEF Drop, TypeOK
  <2> QED BY ZenonT(60), <1>17, <2>1 DEF Drop, TypeOK
<1>18. ASSUME NEW how \in {"closed", "reset"}, PeerCloses(how) PROVE TypeOK'
  <2>1. peer' \in {"open", "closed", "reset"}
    BY <1>18 DEF PeerCloses
  <2> QED BY <1>18, <2>1, ZenonT(60) DEF PeerCloses, TypeOK
<1>19. CASE RemoveConnectionInLoop
  <2>1. queue' \in Seq(Closures)
    BY <1>19, <1>q, PlainClosures, AppendQueue DEF RemoveConnectionInLoop
  <2>2. removing' \in Nat
    BY <1>19 DEF RemoveConnectionInLoop, TypeOK
  <2>3. inMap' \in BOOLEAN
    BY <1>19, Zenon DEF RemoveConnectionInLoop
  <2> QED BY <1>19, <2>1, <2>2, <2>3, ZenonT(60) DEF RemoveConnectionInLoop, TypeOK
<1>20. CASE DestroyServer
  <2>1. queue' \in Seq(Closures)
    BY <1>20, <1>q, PlainClosures, AppendQueue DEF DestroyServer
  <2>2. inMap' \in BOOLEAN /\ ownerGone' \in BOOLEAN
    BY <1>20, Zenon DEF DestroyServer
  <2> QED BY <1>20, <2>1, <2>2, ZenonT(60) DEF DestroyServer, TypeOK
<1>21. CASE Swap
  <2>1. batch' \in Nat /\ phase' \in Phases
    BY <1>q, <1>21, LenProperties DEF Swap, Phases
  <2> QED BY <1>21, <2>1, ZenonT(60) DEF Swap, TypeOK
<1>22. CASE EndLoop
  <2>1. queue' \in Seq(Closures) /\ removing' \in Nat /\ phase' \in Phases
    BY <1>22 DEF EndLoop, Phases
  <2> QED BY <1>22, <2>1, ZenonT(60) DEF EndLoop, TypeOK
<1>23. CASE QuitLoop
  <2>1. quit' \in BOOLEAN
    BY <1>23, Zenon DEF QuitLoop
  <2> QED BY <1>23, <2>1, ZenonT(60) DEF QuitLoop, TypeOK
<1>24. CASE UNCHANGED vars
  BY <1>24, ZenonT(60) DEF vars, TypeOK
<1> QED BY <1>1, <1>2, <1>3, <1>4, <1>5, <1>6, <1>7, <1>8, <1>9, <1>10, <1>11,
           <1>12, <1>13, <1>14, <1>15, <1>16, <1>17, <1>18, <1>19, <1>20, <1>21,
           <1>22, <1>23, <1>24
        DEF Next, LoopStep, EventStep, QueueStep, UserStep

---------------------------------------------------------------------------
(* The life of the connection.                                             *)

\* Before connectionEstablish has run, nothing else can be run or dispatched.
LEMMA OnlyEstablish ==
    ASSUME IInv, state = "CONNECTING"
    PROVE  /\ revents = {} /\ channel = "NEW" /\ holders = {} /\ removing = 0
           /\ Users \cap holders = {} /\ \A t \in Threads : pc[t] = Idle
           /\ \A op : Runs(op) => op = "establish"
<1>1. queue \in Seq(Closures)
      /\ (phase # "ended" => queue # <<>> /\ queue[1].op = "establish")
      /\ revents = {} /\ channel = "NEW" /\ holders = {} /\ removing = 0
      /\ \A t \in Threads : pc[t] = Idle
  BY DEF IInv, BeforeEstablish, TypeOK
<1>2. queue # <<>> => Head(queue) = queue[1]
  BY <1>1, HeadTailProperties
<1>3. \A op : Runs(op) => phase # "ended" /\ queue # <<>> /\ Head(queue).op = op
  BY DEF Runs
<1> QED BY <1>1, <1>2, <1>3

\* Afterwards no other connectionEstablish is run.
LEMMA EstablishedOnce ==
    ASSUME IInv, state # "CONNECTING"
    PROVE  ~Runs("establish")
<1> SUFFICES ASSUME Runs("establish") PROVE FALSE
  OBVIOUS
<1>1. queue \in Seq(Closures)
  BY DEF IInv, TypeOK
<1>2. 1 \in 1..Len(queue) /\ queue[1].op = "establish"
  BY <1>1, TailQueue
<1> QED BY <1>2 DEF IInv, BeforeEstablish

\* A taken function that is not connectionEstablish leaves none behind.
LEMMA TakenKeepsBefore ==
    ASSUME IInv, NEW op, op # "establish", Runs(op),
           state' # "CONNECTING", UNCHANGED <<pc, ups>>
    PROVE  BeforeEstablish'
<1>1. state # "CONNECTING"
  BY OnlyEstablish
<1>2. queue \in Seq(Closures)
  BY DEF IInv, TypeOK
<1>3. \A i \in 1..Len(queue') : i + 1 \in 2..Len(queue)
                                /\ queue'[i] = queue[i + 1]
  BY <1>2, TailQueue
<1>4. \A i \in 2..Len(queue) : i \in 1..Len(queue)
  BY <1>2, LenProperties
<1> QED BY <1>1, <1>3, <1>4 DEF IInv, BeforeEstablish

\* Every step keeps BeforeEstablish.
LEMMA NextBefore == IInv /\ [Next]_vars => BeforeEstablish'
<1> SUFFICES ASSUME IInv, [Next]_vars PROVE BeforeEstablish'
  OBVIOUS
<1> USE DEF channelVars, loopVars, ownerVars, historyVars
<1>0. BeforeEstablish /\ queue \in Seq(Closures)
      /\ \A t \in Threads : pc[t] \in Closures \cup {Idle}
  BY DEF IInv, TypeOK
<1>1. ASSUME state # "CONNECTING", state' # "CONNECTING",
             UNCHANGED <<queue, pc, ups>>
      PROVE  BeforeEstablish'
  BY <1>0, <1>1 DEF BeforeEstablish
<1>2. ASSUME UNCHANGED <<state, queue, pc, ups, downs, channel, revents, removing>>,
             holders' \subseteq holders, phase' # "ended" => phase # "ended"
      PROVE  BeforeEstablish'
  BY <1>0, <1>2 DEF BeforeEstablish
<1>3. ASSUME NEW writable \in BOOLEAN, Select(writable) PROVE BeforeEstablish'
  <2>1. CASE state # "CONNECTING"
    BY <1>1, <1>3, <2>1 DEF Select
  <2>2. CASE state = "CONNECTING"
    <3>1. revents' = revents /\ phase # "ended"
      BY <1>3, <2>2, OnlyEstablish DEF Select
    <3> QED BY <1>2, <1>3, <3>1 DEF Select
  <2> QED BY <2>1, <2>2
<1>4. ASSUME NEW n \in 0..Len(output), HandleWrite(n) PROVE BeforeEstablish'
  <2>1. state # "CONNECTING"
    BY <1>4, OnlyEstablish DEF HandleWrite
  <2> QED BY <1>1, <1>4, <2>1 DEF HandleWrite
<1>5. CASE HandleRead \/ HandleHangUp
  <2>1. state # "CONNECTING"
    BY <1>5, OnlyEstablish DEF HandleRead, HandleHangUp
  <2> QED BY <1>1, <1>5, <2>1 DEF HandleRead, HandleHangUp, HandleClose
<1>6. CASE RunEstablish
  <2>1. /\ \A i \in 1..Len(queue') : i + 1 \in 2..Len(queue)
                                     /\ queue'[i] = queue[i + 1]
        /\ state = "CONNECTING"
    BY <1>0, <1>6, TailQueue, EstablishedOnce DEF RunEstablish
  <2>2. state' = "CONNECTED" /\ ups' = ups + 1 /\ pc' = pc
    BY <1>6 DEF RunEstablish
  <2> QED BY <1>0, <2>1, <2>2 DEF BeforeEstablish, Idle
<1>7. ASSUME NEW n \in {0, 1}, RunSend(n) PROVE BeforeEstablish'
  <2>1. state # "CONNECTING"
    BY <1>7, OnlyEstablish DEF RunSend
  <2> QED BY <1>7, <2>1, TakenKeepsBefore DEF RunSend
<1>8. CASE RunShutdown
  <2>1. state # "CONNECTING"
    BY <1>8, OnlyEstablish DEF RunShutdown
  <2> QED BY <1>8, <2>1, TakenKeepsBefore DEF RunShutdown
<1>9. CASE RunForceClose
  <2>1. state # "CONNECTING"
    BY <1>9, OnlyEstablish DEF RunForceClose
  <2> QED BY <1>9, <2>1, TakenKeepsBefore DEF RunForceClose, HandleClose
<1>10. CASE RunDestroy
  <2>1. state # "CONNECTING"
    BY <1>10, OnlyEstablish DEF RunDestroy
  <2> QED BY <1>10, <2>1, TakenKeepsBefore DEF RunDestroy
<1>11. ASSUME NEW n \in {0, 1}, SendHere(n) PROVE BeforeEstablish'
  BY <1>1, <1>11 DEF SendHere
<1>12. CASE ShutdownHere
  BY <1>1, <1>12 DEF ShutdownHere
<1>13. ASSUME NEW c \in Closures, queue' = Append(queue, c),
              c.op # "establish", state # "CONNECTING", state' # "CONNECTING",
              UNCHANGED ups,
              \A t \in Threads : pc'[t] = pc[t] \/ pc'[t] = Idle
       PROVE  BeforeEstablish'
  <2>1. \A i \in 1..Len(queue') : queue'[i].op # "establish"
    BY <1>0, <1>13, AppendQueue DEF BeforeEstablish
  <2>2. \A t \in Threads : pc'[t].op \notin {"establish", "destroy"}
    BY <1>0, <1>13 DEF BeforeEstablish, Idle
  <2> QED BY <1>0, <1>13, <2>1, <2>2 DEF BeforeEstablish
<1>14. CASE ForceCloseHere
  BY <1>13, <1>14, PlainClosures DEF ForceCloseHere
<1>15. ASSUME NEW t \in Threads,
              CheckSend(t) \/ CheckShutdown(t) \/ CheckForceClose(t)
       PROVE  BeforeEstablish'
  <2>1. state # "CONNECTING" /\ UNCHANGED <<state, queue, ups>>
    BY <1>15 DEF CheckSend, CheckShutdown, CheckForceClose
  <2>2. pc'[t].op \notin {"establish", "destroy"}
        /\ \A u \in Threads : u # t => pc'[u] = pc[u]
    BY <1>15 DEF CheckSend, CheckShutdown, CheckForceClose, IInv, TypeOK
  <2> QED BY <1>0, <2>1, <2>2 DEF BeforeEstablish
<1>16. ASSUME NEW t \in Threads, Enqueue(t) PROVE BeforeEstablish'
  <2>1. state # "CONNECTING" /\ pc[t] \in Closures
    BY <1>0, <1>16, OnlyEstablish DEF Enqueue
  <2>2. pc[t].op # "establish" /\ state' # "CONNECTING"
    BY <1>0, <1>16, <2>1 DEF BeforeEstablish, Enqueue
  <2>3. \A u \in Threads : pc'[u] = pc[u] \/ pc'[u] = Idle
    BY <1>16 DEF Enqueue, IInv, TypeOK
  <2>4. CASE phase # "ended"
    BY <1>13, <1>16, <2>1, <2>2, <2>3, <2>4 DEF Enqueue
  <2>5. CASE phase = "ended"
    <3>1. UNCHANGED <<queue, ups>>
      BY <1>16, <2>5 DEF Enqueue
    <3>2. \A u \in Threads : pc'[u].op \notin {"establish", "destroy"}
      BY <1>0, <2>1, <2>3 DEF BeforeEstablish, Idle
    <3> QED BY <1>0, <2>1, <2>2, <3>1, <3>2 DEF BeforeEstablish
  <2> QED BY <2>4, <2>5
<1>17. ASSUME NEW u \in Users, Drop(u) PROVE BeforeEstablish'
  BY <1>2, <1>17 DEF Drop
<1>18. ASSUME NEW how \in {"closed", "reset"}, PeerCloses(how)
       PROVE  BeforeEstablish'
  BY <1>2, <1>18 DEF PeerCloses
<1>19. CASE RemoveConnectionInLoop
  <2>1. state # "CONNECTING"
    BY <1>19, OnlyEstablish DEF RemoveConnectionInLoop
  <2> QED BY <1>13, <1>19, <2>1, PlainClosures DEF RemoveConnectionInLoop
<1>20. CASE DestroyServer
  <2>1. CASE state # "CONNECTING" /\ inMap
    BY <1>13, <1>20, <2>1, PlainClosures DEF DestroyServer
  <2>2. CASE state # "CONNECTING" /\ ~inMap
    BY <1>1, <1>20, <2>2 DEF DestroyServer
  <2>3. CASE state = "CONNECTING" /\ inMap
    <3> DEFINE c == [op |-> "destroy"]
    <3>1. queue' = Append(queue, c) /\ c \in Closures /\ c.op = "destroy"
      BY <1>20, <2>3, PlainClosures DEF DestroyServer
    <3> HIDE DEF c
    <3>2. /\ queue' # <<>>
          /\ Len(queue) \in Nat /\ Len(queue') = Len(queue) + 1
          /\ \A i \in 1..Len(queue) : queue'[i] = queue[i]
          /\ queue'[Len(queue')] = c
          /\ \A i \in 1..Len(queue') : i \in 1..Len(queue) \/ i = Len(queue')
      BY <1>0, <3>1, AppendQueue
    <3>3. /\ phase # "ended" => queue # <<>> /\ queue[1].op = "establish"
          /\ \A i \in 2..Len(queue) : queue[i].op = "destroy"
      BY <1>0, <2>3 DEF BeforeEstablish
    <3>4. queue # <<>> => 1 \in 1..Len(queue)
      BY <1>0, <3>2, HeadTailProperties, LenProperties, EmptySeq
    <3>5. \A i \in 2..Len(queue') : queue'[i].op = "destroy"
      <4> TAKE i \in 2..Len(queue')
      <4>1. (i \in 2..Len(queue) /\ i \in 1..Len(queue)) \/ i = Len(queue')
        BY <3>2
      <4> QED BY <3>1, <3>2, <3>3, <4>1
    <3> QED BY <1>0, <1>20, <2>3, <3>2, <3>3, <3>4, <3>5
            DEF DestroyServer, BeforeEstablish
  <2>4. CASE state = "CONNECTING" /\ ~inMap
    BY <1>0, <1>20, <2>4 DEF DestroyServer, BeforeEstablish
  <2> QED BY <2>1, <2>2, <2>3, <2>4
<1>21. CASE Swap \/ QuitLoop
  BY <1>2, <1>21 DEF Swap, QuitLoop
<1>22. CASE EndLoop
  <2>1. queue' = <<>> /\ Len(queue') = 0 /\ phase' = "ended" /\ removing' = 0
    BY <1>22 DEF EndLoop
  <2>2. UNCHANGED <<state, pc, ups, downs, channel, revents, holders>>
    BY <1>22 DEF EndLoop
  <2> QED BY <1>0, <2>1, <2>2 DEF BeforeEstablish
<1>23. CASE UNCHANGED vars
  BY <1>2, <1>23 DEF vars
<1> QED BY <1>3, <1>4, <1>5, <1>6, <1>7, <1>8, <1>9, <1>10, <1>11, <1>12, <1>14,
           <1>15, <1>16, <1>17, <1>18, <1>19, <1>20, <1>21, <1>22, <1>23
        DEF Next, LoopStep, EventStep, QueueStep, UserStep

\* Every step leaves returned events only while they are dispatched.
LEMMA NextDispatching == IInv /\ [Next]_vars => Dispatching'
<1> SUFFICES ASSUME IInv, [Next]_vars PROVE Dispatching'
  OBVIOUS
<1> USE DEF channelVars, loopVars, ownerVars, historyVars
<1>1. Dispatching
  BY DEF IInv
<1>2. ASSUME UNCHANGED <<revents, phase>> PROVE Dispatching'
  BY <1>1, <1>2 DEF Dispatching
<1>3. ASSUME NEW writable \in BOOLEAN, Select(writable) PROVE Dispatching'
  BY <1>3 DEF Select, Dispatching
<1>4. ASSUME NEW n \in 0..Len(output), HandleWrite(n) PROVE Dispatching'
  BY <1>1, <1>4 DEF HandleWrite, Dispatching
<1>5. CASE HandleRead \/ HandleHangUp
  BY <1>5 DEF HandleRead, HandleHangUp, Dispatching
<1>6. CASE Swap \/ EndLoop
  BY <1>1, <1>6 DEF Swap, EndLoop, Dispatching
<1>7. CASE QueueStep
  BY <1>2, <1>7 DEF QueueStep, RunEstablish, RunSend, RunShutdown, RunForceClose,
                    RunDestroy, Runs
<1>8. CASE UserStep
  BY <1>2, <1>8 DEF UserStep, SendHere, ShutdownHere, ForceCloseHere, CheckSend,
                    CheckShutdown, CheckForceClose, Enqueue, Drop
<1>9. CASE \/ \E how \in {"closed", "reset"} : PeerCloses(how)
           \/ RemoveConnectionInLoop \/ DestroyServer \/ QuitLoop
           \/ UNCHANGED vars
  BY <1>2, <1>9 DEF PeerCloses, RemoveConnectionInLoop, DestroyServer, QuitLoop,
                    vars
<1> QED BY <1>3, <1>4, <1>5, <1>6, <1>7, <1>8, <1>9
        DEF Next, LoopStep, EventStep

\* The loop closes a connection that is up and whose channel is in the epoll
\* set; the channel leaves it.
LEMMA CloseWhileUp ==
    ASSUME IInv, ~overtaken, HandleClose,
           state \in {"CONNECTED", "DISCONNECTING"}, revents' = {}
    PROVE  /\ aborted' = FALSE /\ downs' = 1 /\ state' = "DISCONNECTED"
           /\ channel' = "DELETED"
<1>1. ~aborted /\ downs = 0 /\ channel = "ADDED" /\ downs \in Nat
  BY DEF IInv, Lifecycle, TypeOK
<1>2. aborted' = FALSE
  BY <1>1, ZenonT(60) DEF HandleClose, IInv, TypeOK
<1> QED BY <1>1, <1>2 DEF HandleClose, Update

\* Events are dispatched only to a connection that is up.
LEMMA EventsOnlyUp ==
    ASSUME IInv, ~overtaken, revents # {}
    PROVE  state \in {"CONNECTED", "DISCONNECTING"}
BY OnlyEstablish DEF IInv, Lifecycle, TypeOK, States

\* A taken function that is not connectionDestory keeps one in the queue.
LEMMA TakenKeepsDestroy ==
    ASSUME queue \in Seq(Closures), NEW op, op # "destroy", Runs(op)
    PROVE  DestroyQueued => DestroyQueued'
<1> SUFFICES ASSUME DestroyQueued PROVE DestroyQueued'
  OBVIOUS
<1>1. PICK j \in 1..Len(queue) : queue[j].op = "destroy"
  BY DEF DestroyQueued
<1>2. /\ queue[1].op = op
      /\ \A i \in 1..Len(queue') : queue'[i] = queue[i + 1]
      /\ j = 1 \/ \E i \in 1..Len(queue') : j = i + 1
  BY TailQueue
<1>3. PICK i \in 1..Len(queue') : j = i + 1
  BY <1>1, <1>2
<1>4. queue'[i].op = "destroy"
  BY <1>1, <1>2, <1>3
<1> QED BY <1>4 DEF DestroyQueued

\* What is put behind a connectionDestory leaves it there.
LEMMA PutKeepsDestroy ==
    ASSUME queue \in Seq(Closures), NEW c \in Closures,
           queue' = Append(queue, c)
    PROVE  /\ DestroyQueued => DestroyQueued'
           /\ c.op = "destroy" => DestroyQueued'
<1>1. /\ \A i \in 1..Len(queue) : queue'[i] = queue[i] /\ i \in 1..Len(queue')
      /\ queue'[Len(queue')] = c /\ Len(queue') \in 1..Len(queue')
  BY AppendQueue
<1> QED BY <1>1 DEF DestroyQueued

\* Every step keeps the life cycle, and the owner until the channel is removed.
LEMMA NextLifecycle == IInv /\ [Next]_vars => Lifecycle' /\ OwnedUntilRemoved'
<1> SUFFICES ASSUME IInv, [Next]_vars PROVE Lifecycle' /\ OwnedUntilRemoved'
  OBVIOUS
<1> USE DEF channelVars, loopVars, ownerVars, historyVars
<1>0. Lifecycle /\ OwnedUntilRemoved /\ queue \in Seq(Closures)
      /\ state \in States /\ downs \in Nat
  BY DEF IInv, TypeOK
<1>1. ASSUME UNCHANGED <<state, aborted, downs, reads, channel, overtaken, revents>>
      PROVE  Lifecycle'
  BY <1>0, <1>1 DEF Lifecycle
<1>2. ASSUME UNCHANGED <<inMap, overtaken, state, channel>>,
             phase' # "ended" => phase # "ended",
             DestroyQueued => DestroyQueued'
      PROVE  OwnedUntilRemoved'
  BY <1>0, <1>2 DEF OwnedUntilRemoved
<1>d. UNCHANGED queue => (DestroyQueued' <=> DestroyQueued)
  BY DEF DestroyQueued
<1>3. ASSUME NEW writable \in BOOLEAN, Select(writable)
      PROVE  Lifecycle' /\ OwnedUntilRemoved'
  <2>1. Lifecycle'
    BY <1>0, <1>3 DEF Select, Lifecycle
  <2> QED BY <1>2, <1>3, <1>d, <2>1 DEF Select
<1>4. ASSUME NEW n \in 0..Len(output), HandleWrite(n)
      PROVE  Lifecycle' /\ OwnedUntilRemoved'
  <2> SUFFICES ASSUME ~overtaken PROVE Lifecycle' /\ OwnedUntilRemoved'
    BY <1>4 DEF HandleWrite, Lifecycle, OwnedUntilRemoved
  <2>1. state \in {"CONNECTED", "DISCONNECTING"}
    BY <1>4, EventsOnlyUp DEF HandleWrite
  <2>2. reads /\ channel = "ADDED"
    BY <1>0, <2>1 DEF Lifecycle
  <2>3. reads' /\ channel' = "ADDED"
    BY <1>4, <2>2 DEF HandleWrite, Update
  <2>4. UNCHANGED <<state, aborted, downs, overtaken, inMap, queue, phase>>
    BY <1>4 DEF HandleWrite
  <2> QED BY <1>0, <1>2, <1>d, <2>1, <2>2, <2>3, <2>4 DEF Lifecycle
<1>5. ASSUME HandleClose, revents' = {}, UNCHANGED <<overtaken, inMap, phase>>,
             ~overtaken => state \in {"CONNECTED", "DISCONNECTING"},
             DestroyQueued => DestroyQueued'
      PROVE  Lifecycle' /\ OwnedUntilRemoved'
  <2> SUFFICES ASSUME ~overtaken PROVE Lifecycle' /\ OwnedUntilRemoved'
    BY <1>5 DEF Lifecycle, OwnedUntilRemoved
  <2>1. /\ aborted' = FALSE /\ downs' = 1 /\ state' = "DISCONNECTED"
        /\ channel' = "DELETED"
    BY <1>5, CloseWhileUp
  <2> QED BY <1>0, <1>5, <2>1 DEF Lifecycle, OwnedUntilRemoved
<1>6. CASE HandleRead \/ HandleHangUp
  BY <1>5, <1>6, <1>d, EventsOnlyUp DEF HandleRead, HandleHangUp
<1>7. CASE RunEstablish
  <2>1. state = "CONNECTING" /\ downs = 0 /\ channel = "NEW"
    BY <1>7, EstablishedOnce DEF RunEstablish, IInv, BeforeEstablish
  <2>2. ~overtaken => ~aborted'
    BY <1>0, <1>7, <2>1 DEF RunEstablish, Lifecycle
  <2>3. reads' /\ channel' = "ADDED" /\ state' = "CONNECTED" /\ downs' = 0
        /\ overtaken' = overtaken /\ inMap' = inMap /\ phase' = phase
    BY <1>7, <2>1 DEF RunEstablish, Runs, Update
  <2>4. DestroyQueued => DestroyQueued'
    BY <1>0, <1>7, TakenKeepsDestroy DEF RunEstablish
  <2> QED BY <1>0, <2>1, <2>2, <2>3, <2>4 DEF Lifecycle, OwnedUntilRemoved
<1>8. ASSUME NEW m, NEW n, SendInLoop(m, n), state # "CONNECTING",
             UNCHANGED <<state, aborted, downs, overtaken, revents, inMap, phase>>,
             DestroyQueued => DestroyQueued'
      PROVE  Lifecycle' /\ OwnedUntilRemoved'
  <2>1. CASE state = "DISCONNECTED"
    BY <1>1, <1>2, <1>8, <2>1 DEF SendInLoop
  <2>2. CASE state \in {"CONNECTED", "DISCONNECTING"}
    <3>1. UNCHANGED channelVars \/ Update(reads, TRUE)
      BY <1>8 DEF SendInLoop
    <3>2. ~overtaken => reads' /\ channel' = "ADDED"
      BY <1>0, <2>2, <3>1 DEF Lifecycle, Update
    <3> QED BY <1>0, <1>8, <2>2, <3>2 DEF Lifecycle, OwnedUntilRemoved
  <2> QED BY <1>0, <1>8, <2>1, <2>2 DEF States
<1>9. ASSUME NEW n \in {0, 1}, RunSend(n)
      PROVE  Lifecycle' /\ OwnedUntilRemoved'
  <2>1. state # "CONNECTING"
    BY <1>9, OnlyEstablish DEF RunSend
  <2>2. DestroyQueued => DestroyQueued'
    BY <1>0, <1>9, TakenKeepsDestroy DEF RunSend
  <2> QED BY <1>8, <1>9, <2>1, <2>2 DEF RunSend, Runs
<1>10. CASE RunShutdown
  <2>1. DestroyQueued => DestroyQueued'
    BY <1>0, <1>10, TakenKeepsDestroy DEF RunShutdown
  <2> QED BY <1>1, <1>2, <1>10, <2>1 DEF RunShutdown, Runs
<1>11. CASE RunForceClose
  <2>1. DestroyQueued => DestroyQueued'
    BY <1>0, <1>11, TakenKeepsDestroy DEF RunForceClose
  <2>2. revents = {} /\ revents' = revents /\ UNCHANGED <<overtaken, inMap, phase>>
    BY <1>11 DEF RunForceClose, Runs, IInv, Dispatching
  <2>3. CASE state \in {"CONNECTED", "DISCONNECTING"}
    BY <1>5, <1>11, <2>1, <2>2, <2>3 DEF RunForceClose
  <2>4. CASE state \notin {"CONNECTED", "DISCONNECTING"}
    BY <1>1, <1>2, <1>11, <2>1, <2>2, <2>4 DEF RunForceClose
  <2> QED BY <2>3, <2>4
<1>12. CASE RunDestroy
  <2>1. /\ state # "CONNECTING" /\ revents = {} /\ revents' = revents
        /\ channel' = "NEW" /\ aborted' = aborted
        /\ overtaken => overtaken'
    BY <1>12, OnlyEstablish DEF RunDestroy, Runs, IInv, Dispatching
  <2>2. CASE state = "DISCONNECTING"
    BY <1>12, <2>2 DEF RunDestroy, Overtakes, Lifecycle, OwnedUntilRemoved
  <2>3. CASE state = "CONNECTED"
    <3>1. state' = "DISCONNECTED" /\ downs' = downs + 1
      BY <1>12, <2>3 DEF RunDestroy
    <3>2. ~overtaken => ~aborted /\ downs = 0
      BY <1>0, <2>3 DEF Lifecycle
    <3> QED BY <2>1, <3>1, <3>2 DEF Lifecycle, OwnedUntilRemoved
  <2>4. CASE state = "DISCONNECTED"
    <3>1. state' = "DISCONNECTED" /\ downs' = downs
      BY <1>12, <2>4 DEF RunDestroy
    <3>2. ~overtaken => ~aborted /\ downs = 1
      BY <1>0, <2>4 DEF Lifecycle
    <3> QED BY <2>1, <3>1, <3>2 DEF Lifecycle, OwnedUntilRemoved
  <2> QED BY <1>0, <2>1, <2>2, <2>3, <2>4 DEF States
<1>13. ASSUME NEW n \in {0, 1}, SendHere(n)
       PROVE  Lifecycle' /\ OwnedUntilRemoved'
  BY <1>8, <1>13, <1>d DEF SendHere
<1>14. CASE ShutdownHere
  BY <1>0, <1>14, <1>d DEF ShutdownHere, Lifecycle, OwnedUntilRemoved
<1>15. CASE ForceCloseHere
  <2>1. DestroyQueued => DestroyQueued'
    BY <1>0, <1>15, PlainClosures, PutKeepsDestroy DEF ForceCloseHere
  <2> QED BY <1>0, <1>15, <2>1 DEF ForceCloseHere, Lifecycle, OwnedUntilRemoved
<1>16. ASSUME NEW t \in Threads,
              CheckSend(t) \/ CheckShutdown(t) \/ CheckForceClose(t)
       PROVE  Lifecycle' /\ OwnedUntilRemoved'
  BY <1>1, <1>2, <1>16, <1>d DEF CheckSend, CheckShutdown, CheckForceClose
<1>17. ASSUME NEW t \in Threads, Enqueue(t)
       PROVE  Lifecycle' /\ OwnedUntilRemoved'
  <2>1. pc[t] \in Closures /\ state # "CONNECTING"
    BY <1>17, OnlyEstablish DEF Enqueue, IInv, TypeOK
  <2>2. DestroyQueued => DestroyQueued'
    <3>1. CASE phase # "ended"
      BY <1>0, <1>17, <2>1, <3>1, PutKeepsDestroy DEF Enqueue
    <3>2. CASE phase = "ended"
      BY <1>17, <1>d, <3>2 DEF Enqueue
    <3> QED BY <3>1, <3>2
  <2>3. CASE pc[t].op = "send"
    <3>1. ~Overtakes("send")
      BY DEF Overtakes
    <3>2. UNCHANGED <<state, aborted, downs, reads, channel, revents, inMap, phase>>
      BY <1>17, <2>3 DEF Enqueue
    <3>3. overtaken' = (overtaken \/ FALSE)
      BY <1>17, <2>3, <3>1, Zenon DEF Enqueue
    <3> QED BY <1>0, <2>2, <3>2, <3>3 DEF Lifecycle, OwnedUntilRemoved
  <2>4. CASE pc[t].op # "send"
    <3>1. /\ state' = "DISCONNECTING"
          /\ UNCHANGED <<aborted, downs, reads, channel, revents, inMap, phase>>
          /\ overtaken => overtaken'
          /\ Overtakes(pc[t].op) => overtaken'
      BY <1>17, <2>4 DEF Enqueue
    <3>2. \/ pc[t].op \in {"shutdown", "forceClose"}
          \/ pc[t].op \in {"establish", "destroy"}
      BY <2>1, <2>4, ClosureCases
    <3>3. pc[t].op \in {"shutdown", "forceClose"}
      BY <2>1, <3>2 DEF IInv, BeforeEstablish
    <3>4. CASE state = "DISCONNECTED"
      BY <3>1, <3>3, <3>4 DEF Overtakes, Lifecycle, OwnedUntilRemoved
    <3>5. CASE state \in {"CONNECTED", "DISCONNECTING"}
      BY <1>0, <2>2, <3>1, <3>5 DEF Lifecycle, OwnedUntilRemoved
    <3> QED BY <1>0, <2>1, <3>4, <3>5 DEF States
  <2> QED BY <2>3, <2>4
<1>18. ASSUME NEW u \in Users, Drop(u) PROVE Lifecycle' /\ OwnedUntilRemoved'
  BY <1>1, <1>2, <1>18, <1>d DEF Drop
<1>19. ASSUME NEW how \in {"closed", "reset"}, PeerCloses(how)
       PROVE  Lifecycle' /\ OwnedUntilRemoved'
  BY <1>1, <1>2, <1>19, <1>d DEF PeerCloses
<1>20. CASE RemoveConnectionInLoop
  <2>1. DestroyQueued'
    BY <1>0, <1>20, PlainClosures, PutKeepsDestroy DEF RemoveConnectionInLoop
  <2> QED BY <1>1, <1>20, <2>1 DEF RemoveConnectionInLoop, OwnedUntilRemoved
<1>21. CASE DestroyServer
  <2>1. inMap => DestroyQueued'
    BY <1>0, <1>21, PlainClosures, PutKeepsDestroy DEF DestroyServer
  <2>2. ~inMap => (DestroyQueued' <=> DestroyQueued)
    BY <1>21, <1>d DEF DestroyServer
  <2> QED BY <1>0, <1>1, <1>21, <2>1, <2>2 DEF DestroyServer, OwnedUntilRemoved
<1>22. CASE Swap \/ QuitLoop
  BY <1>1, <1>2, <1>22, <1>d DEF Swap, QuitLoop
<1>23. CASE EndLoop
  BY <1>1, <1>23 DEF EndLoop, OwnedUntilRemoved
<1>24. CASE UNCHANGED vars
  BY <1>1, <1>2, <1>24, <1>d DEF vars
<1> QED BY <1>3, <1>4, <1>6, <1>7, <1>9, <1>10, <1>11, <1>12, <1>13, <1>14, <1>15,
           <1>16, <1>17, <1>18, <1>19, <1>20, <1>21, <1>22, <1>23,
           <1>24
        DEF Next, LoopStep, EventStep, QueueStep, UserStep

---------------------------------------------------------------------------
(* The write interest and SHUT_WR.                                         *)

\* The step of FinAfterDrain.
FinStep == ~finSent /\ finSent' /\ downs' = 0 => output' = <<>>

\* What handleWrite leaves in outputBuffer_.
LEMMA WrittenOutput ==
    ASSUME output \in Seq(Messages), NEW n \in 0..Len(output),
           output' = SubSeq(output, n + 1, Len(output))
    PROVE  /\ n = 0 => output' = output
           /\ output' = <<>> <=> n = Len(output)
<1>1. Len(output) \in Nat /\ n \in Nat
  BY LenProperties
<1>2. CASE n = Len(output)
  <2>1. output' = <<>>
    BY <1>1, <1>2, SubSeqEmpty
  <2>2. n = 0 => output = <<>>
    BY <1>2, EmptySeq
  <2> QED BY <1>2, <2>1, <2>2
<1>3. CASE n # Len(output)
  <2>1. Len(output') = Len(output) - n /\ output' \in Seq(Messages)
    BY <1>1, <1>3
  <2>2. output' # <<>>
    <3>1. Len(output') # 0
      BY <1>1, <1>3, <2>1
    <3> QED BY <3>1, EmptySeq
  <2>3. n = 0 => output' = output
    BY SubSeqFull
  <2> QED BY <1>3, <2>2, <2>3
<1> QED BY <1>2, <1>3

\* Every step keeps the write interest exact, and shuts down only when drained.
LEMMA NextInterest == IInv /\ [Next]_vars => InterestExact' /\ FinStep
<1> SUFFICES ASSUME IInv, [Next]_vars PROVE InterestExact' /\ FinStep
  OBVIOUS
<1> USE DEF channelVars, loopVars, ownerVars, historyVars
<1>0. /\ InterestExact /\ downs \in Nat /\ writes \in BOOLEAN
      /\ output \in Seq(Messages) /\ finSent \in BOOLEAN
  BY DEF IInv, TypeOK
<1>1. ASSUME UNCHANGED <<downs, writes, output>> PROVE InterestExact'
  BY <1>0, <1>1 DEF InterestExact
<1>2. ASSUME UNCHANGED finSent PROVE FinStep
  BY <1>2 DEF FinStep
<1>3. ASSUME ShutdownInLoop(writes), UNCHANGED <<downs, writes, output>>
      PROVE  FinStep
  BY <1>0, <1>3 DEF ShutdownInLoop, FinStep, InterestExact
<1>4. ASSUME HandleClose PROVE InterestExact'
  BY <1>0, <1>4 DEF HandleClose, InterestExact
<1>5. ASSUME NEW m \in Messages, NEW n, SendInLoop(m, n), UNCHANGED downs
      PROVE  InterestExact'
  <2>1. CASE UNCHANGED <<channelVars, output, sent>>
    BY <1>1, <1>5, <2>1
  <2>2. CASE writes /\ output = <<>> /\ n = 1 /\ UNCHANGED <<channelVars, output>>
    BY <1>0, <1>1, <1>5, <2>2
  <2>3. CASE /\ output' = Append(output, m)
             /\ IF writes THEN UNCHANGED channelVars ELSE Update(reads, TRUE)
    <3>1. output' # <<>>
      BY <1>0, <2>3, AppendProperties
    <3>2. writes'
      BY <2>3 DEF Update
    <3> QED BY <3>1, <3>2 DEF InterestExact
  <2> QED BY <1>5, <2>1, <2>2, <2>3 DEF SendInLoop
<1>6. ASSUME NEW writable \in BOOLEAN, Select(writable)
      PROVE  InterestExact' /\ FinStep
  BY <1>1, <1>2, <1>6 DEF Select
<1>7. ASSUME NEW n \in 0..Len(output), HandleWrite(n)
      PROVE  InterestExact' /\ FinStep
  <2>1. /\ n = 0 => output' = output
        /\ output' = <<>> <=> n = Len(output)
    BY <1>0, <1>7, WrittenOutput DEF HandleWrite
  <2>2. n > 0 => output # <<>>
    <3>1. n > 0 => Len(output) # 0
      BY <1>0, LenProperties
    <3> QED BY <3>1, EmptySeq
  <2>3. n \in Nat /\ downs' = downs
    BY <1>0, <1>7, LenProperties DEF HandleWrite
  <2>4. InterestExact'
    <3>1. CASE n > 0 /\ n = Len(output)
      <4>1. ~writes' /\ output' = <<>>
        BY <1>7, <2>1, <3>1 DEF HandleWrite, Update
      <4> QED BY <4>1 DEF InterestExact
    <3>2. CASE n = 0
      BY <1>1, <1>7, <2>1, <2>3, <3>2 DEF HandleWrite
    <3>3. CASE n > 0 /\ n # Len(output)
      <4>1. writes' = writes /\ output' # <<>>
        BY <1>7, <2>1, <3>3 DEF HandleWrite
      <4> QED BY <1>0, <2>2, <2>3, <3>3, <4>1 DEF InterestExact
    <3> QED BY <2>3, <3>1, <3>2, <3>3
  <2>5. FinStep
    <3>1. finSent' = finSent \/ finSent' = (finSent \/ ~writes')
      BY <1>7 DEF HandleWrite, ShutdownInLoop
    <3> QED BY <1>0, <2>4, <3>1 DEF FinStep, InterestExact
  <2> QED BY <2>4, <2>5
<1>8. CASE HandleRead \/ HandleHangUp
  BY <1>2, <1>4, <1>8 DEF HandleRead, HandleHangUp
<1>9. CASE RunEstablish
  BY <1>1, <1>2, <1>9 DEF RunEstablish, Update
<1>10. ASSUME NEW n \in {0, 1}, RunSend(n) PROVE InterestExact' /\ FinStep
  <2>1. Head(queue) \in Closures /\ Head(queue).op = "send"
    BY <1>10, TailQueue DEF RunSend, IInv, TypeOK
  <2> QED BY <1>2, <1>5, <1>10, <2>1, ClosureCases DEF RunSend
<1>11. CASE RunShutdown
  BY <1>1, <1>3, <1>11 DEF RunShutdown
<1>12. CASE RunForceClose
  BY <1>1, <1>2, <1>4, <1>12 DEF RunForceClose
<1>13. CASE RunDestroy
  <2>1. CASE state = "CONNECTED"
    BY <1>0, <1>2, <1>13, <2>1 DEF RunDestroy, InterestExact
  <2>2. CASE state # "CONNECTED"
    BY <1>1, <1>2, <1>13, <2>2 DEF RunDestroy
  <2> QED BY <2>1, <2>2
<1>14. ASSUME NEW n \in {0, 1}, SendHere(n) PROVE InterestExact' /\ FinStep
  <2>1. LoopUser \in Users /\ sends[LoopUser] \in Nat
    BY DEF Users, IInv, TypeOK
  <2>2. <<LoopUser, sends[LoopUser] + 1>> \in Messages
    BY <2>1 DEF Messages
  <2> QED BY <1>2, <1>5, <1>14, <2>2 DEF SendHere
<1>15. CASE ShutdownHere
  BY <1>1, <1>3, <1>15 DEF ShutdownHere
<1>16. CASE ForceCloseHere
  BY <1>1, <1>2, <1>16 DEF ForceCloseHere
<1>17. ASSUME NEW t \in Threads, \/ CheckSend(t) \/ CheckShutdown(t)
                                 \/ CheckForceClose(t) \/ Enqueue(t)
       PROVE  InterestExact' /\ FinStep
  BY <1>1, <1>2, <1>17 DEF CheckSend, CheckShutdown, CheckForceClose, Enqueue
<1>18. ASSUME NEW u \in Users, Drop(u) PROVE InterestExact' /\ FinStep
  BY <1>1, <1>2, <1>18 DEF Drop
<1>19. ASSUME NEW how \in {"closed", "reset"}, PeerCloses(how)
       PROVE  InterestExact' /\ FinStep
  BY <1>1, <1>2, <1>19 DEF PeerCloses
<1>20. CASE \/ RemoveConnectionInLoop \/ DestroyServer
            \/ Swap \/ EndLoop \/ QuitLoop
  BY <1>1, <1>2, <1>20 DEF RemoveConnectionInLoop, DestroyServer, Swap, EndLoop,
                           QuitLoop
<1>21. CASE UNCHANGED vars
  BY <1>1, <1>2, <1>21 DEF vars
<1> QED BY <1>6, <1>7, <1>8, <1>9, <1>10, <1>11, <1>12, <1>13, <1>14, <1>15, <1>16,
           <1>17, <1>18, <1>19, <1>20, <1>21
        DEF Next, LoopStep, EventStep, QueueStep, UserStep

---------------------------------------------------------------------------
(* The order of the messages.                                              *)

\* A message has a sender and a number.
LEMMA MessageParts ==
    ASSUME NEW m \in Messages
    PROVE  m[1] \in Users /\ m[2] \in Nat
BY DEF Messages

\* The elements of the stream and the messages in the queue and in pc.
LEMMA OrderTypes ==
    ASSUME TypeOK
    PROVE  /\ Stream \in Seq(Messages) /\ Len(Stream) \in Nat
           /\ \A i \in 1..Len(Stream) : Stream[i][1] \in Users
                                        /\ Stream[i][2] \in Nat
           /\ \A k \in 1..Len(queue) : queue[k].op = "send" =>
                 queue[k].msg[1] \in Users /\ queue[k].msg[2] \in Nat
           /\ \A t \in Threads : pc[t].op = "send" =>
                 pc[t].msg[1] \in Users /\ pc[t].msg[2] \in Nat
           /\ \A u \in Users : sends[u] \in Nat
<1>1. Stream \in Seq(Messages) /\ Len(Stream) \in Nat
  BY ConcatProperties, LenProperties DEF TypeOK, Stream
<1>2. \A i \in 1..Len(Stream) : Stream[i] \in Messages
  BY <1>1, ElementOfSeq
<1>3. \A k \in 1..Len(queue) : queue[k] \in Closures
  BY ElementOfSeq DEF TypeOK
<1>4. \A k \in 1..Len(queue) : queue[k].op = "send" => queue[k].msg \in Messages
  BY <1>3, ClosureCases
<1>5. \A t \in Threads : pc[t].op = "send" => pc[t].msg \in Messages
  <2> TAKE t \in Threads
  <2>1. pc[t] \in Closures \/ pc[t].op = "idle"
    BY DEF TypeOK, Idle
  <2> QED BY <2>1, ClosureCases
<1>6. \A u \in Users : sends[u] \in Nat
  BY DEF TypeOK
<1> QED BY <1>1, <1>2, <1>4, <1>5, <1>6, MessageParts

\* What is written leaves outputBuffer_ for the socket, in the same order.
LEMMA WriteKeepsStream ==
    ASSUME TypeOK, NEW n \in 0..Len(output), HandleWrite(n)
    PROVE  Stream' = Stream
<1> DEFINE first == SubSeq(output, 1, n)
           rest == SubSeq(output, n + 1, Len(output))
<1>1. /\ sent \in Seq(Messages) /\ output \in Seq(Messages)
      /\ Len(output) \in Nat /\ sent' = sent \o first /\ output' = rest
  BY LenProperties DEF TypeOK, HandleWrite
<1>2. first \in Seq(Messages) /\ rest \in Seq(Messages)
  BY <1>1
<1>3. first \o rest = output
  <2>1. /\ 1 \in 1..(Len(output) + 1) /\ n \in (1 - 1)..Len(output)
        /\ Len(output) \in n..Len(output)
    BY <1>1
  <2>2. first \o rest = SubSeq(output, 1, Len(output))
    BY <1>1, <2>1, ConcatAdjacentSubSeq
  <2> QED BY <1>1, <2>2, SubSeqFull
<1> HIDE DEF first, rest
<1>4. (sent \o first) \o rest = sent \o (first \o rest)
  BY SMTT(60), <1>1, <1>2, ConcatAssociative
<1> QED BY <1>1, <1>3, <1>4 DEF Stream

\* sendInLoop drops the message or puts it at the end.
LEMMA SendExtendsStream ==
    ASSUME TypeOK, NEW m \in Messages, NEW n, SendInLoop(m, n)
    PROVE  Stream' = Stream \/ Stream' = Append(Stream, m)
<1>1. sent \in Seq(Messages) /\ output \in Seq(Messages) /\ <<m>> \in Seq(Messages)
      /\ Stream \in Seq(Messages)
  BY OrderTypes DEF TypeOK
<1>2. CASE UNCHANGED <<output, sent>>
  BY <1>2 DEF Stream
<1>3. CASE output = <<>> /\ output' = output /\ sent' = Append(sent, m)
  <2>1. Append(sent, m) \in Seq(Messages)
    BY <1>1, AppendProperties
  <2>2. Stream = sent /\ Stream' = Append(sent, m)
    BY <1>1, <1>3, <2>1, ConcatEmptySeq DEF Stream
  <2> QED BY <2>2
<1>4. CASE sent' = sent /\ output' = Append(output, m)
  <2>1. Append(output, m) = output \o <<m>> /\ Append(Stream, m) = Stream \o <<m>>
    BY <1>1, AppendIsConcat
  <2>2. (sent \o output) \o <<m>> = sent \o (output \o <<m>>)
    BY <1>1, ConcatAssociative
  <2> QED BY <1>4, <2>1, <2>2 DEF Stream
<1> QED BY <1>2, <1>3, <1>4 DEF SendInLoop

\* The elements of a stream with one more message.
LEMMA ExtendedStream ==
    ASSUME TypeOK, NEW m \in Messages, Stream' = Append(Stream, m)
    PROVE  /\ Len(Stream') = Len(Stream) + 1 /\ Len(Stream) \in Nat
           /\ \A i \in 1..Len(Stream) : Stream'[i] = Stream[i]
           /\ Stream'[Len(Stream')] = m
           /\ \A i \in 1..Len(Stream') : i \in 1..Len(Stream) \/ i = Len(Stream')
<1>1. Stream \in Seq(Messages) /\ Len(Stream) \in Nat
  BY OrderTypes
<1>2. /\ Len(Stream') = Len(Stream) + 1
      /\ \A i \in 1..Len(Stream) : Stream'[i] = Stream[i]
      /\ Stream'[Len(Stream) + 1] = m
  BY <1>1, AppendProperties
<1> QED BY <1>1, <1>2

\* The stream stays in order if the new message is the last of its sender.
LEMMA ExtendedInOrder ==
    ASSUME IInv, NEW m \in Messages, Stream' = Append(Stream, m),
           \A i \in 1..Len(Stream) : Stream[i][1] = m[1] => Stream[i][2] < m[2],
           \A u \in Users : sends[u] <= sends'[u],
           \A u \in Users : sends'[u] \in Nat,
           m[2] <= sends'[m[1]]
    PROVE  StreamOrder'
<1>1. /\ TypeOK /\ StreamOrder
  BY DEF IInv
<1>2. /\ Len(Stream') = Len(Stream) + 1 /\ Len(Stream) \in Nat
      /\ \A i \in 1..Len(Stream) : Stream'[i] = Stream[i]
      /\ Stream'[Len(Stream')] = m
      /\ \A i \in 1..Len(Stream') : i \in 1..Len(Stream) \/ i = Len(Stream')
  BY <1>1, ExtendedStream
<1>3. \A i \in 1..Len(Stream) : Stream[i][1] \in Users /\ Stream[i][2] \in Nat
  BY <1>1, OrderTypes
<1> HIDE DEF Stream
<1>4. ASSUME NEW i \in 1..Len(Stream'), NEW j \in 1..Len(Stream'), i < j,
             Stream'[i][1] = Stream'[j][1]
      PROVE  Stream'[i][2] < Stream'[j][2]
  <2>1. i \in 1..Len(Stream)
    BY <1>2, <1>4
  <2>2. CASE j \in 1..Len(Stream)
    BY <1>1, <1>2, <1>4, <2>1, <2>2 DEF StreamOrder, InOrder
  <2>3. CASE j = Len(Stream')
    BY <1>2, <1>4, <2>1, <2>3
  <2> QED BY <1>2, <2>2, <2>3
<1>5. ASSUME NEW i \in 1..Len(Stream')
      PROVE  Stream'[i][2] <= sends'[Stream'[i][1]]
  <2>1. CASE i \in 1..Len(Stream)
    <3>1. /\ Stream'[i] = Stream[i] /\ Stream[i][2] <= sends[Stream[i][1]]
          /\ Stream[i][1] \in Users /\ Stream[i][2] \in Nat
      BY <1>1, <1>2, <1>3, <2>1 DEF StreamOrder
    <3>2. sends[Stream[i][1]] <= sends'[Stream[i][1]]
          /\ sends[Stream[i][1]] \in Nat /\ sends'[Stream[i][1]] \in Nat
      BY <1>1, <3>1, OrderTypes
    <3> QED BY <3>1, <3>2
  <2>2. CASE i = Len(Stream')
    BY <1>2, <2>2
  <2> QED BY <1>2, <2>1, <2>2
<1> QED BY <1>4, <1>5 DEF StreamOrder, InOrder

\* A function that is taken from the queue leaves the order as it was, also if
\* it puts its message into the stream.
LEMMA TakenInOrder ==
    ASSUME IInv, NEW op, Runs(op), UNCHANGED <<pc, sends>>,
           \/ Stream' = Stream
           \/ op = "send" /\ Stream' = Append(Stream, queue[1].msg)
    PROVE  StreamOrder' /\ QueueOrder' /\ PcOrder'
<1>0. TypeOK /\ StreamOrder /\ QueueOrder /\ PcOrder
  BY DEF IInv
<1>1. /\ 1 \in 1..Len(queue) /\ queue[1].op = op /\ queue[1] \in Closures
      /\ \A i \in 1..Len(queue') :
            i + 1 \in 2..Len(queue) /\ queue'[i] = queue[i + 1]
  BY <1>0, TailQueue DEF TypeOK
<1>2. \A i \in 1..Len(queue') : i + 1 \in 1..Len(queue) /\ 1 < i + 1
  BY <1>1, LenProperties DEF TypeOK
<1>3. /\ \A i \in 1..Len(Stream) : Stream[i][1] \in Users /\ Stream[i][2] \in Nat
      /\ Len(Stream) \in Nat /\ \A u \in Users : sends[u] \in Nat
  BY <1>0, OrderTypes
<1> DEFINE m == queue[1].msg
<1>4. CASE Stream' = Stream
  <2>1. StreamOrder'
    BY <1>0, <1>4 DEF StreamOrder, InOrder
  <2>2. QueueOrder'
    <3> SUFFICES ASSUME NEW k \in 1..Len(queue'), queue'[k].op = "send"
                 PROVE  /\ queue'[k].msg[1] \in Threads
                        /\ queue'[k].msg[2] <= sends'[queue'[k].msg[1]]
                        /\ \A i \in 1..Len(Stream') :
                              Stream'[i][1] = queue'[k].msg[1]
                                => Stream'[i][2] < queue'[k].msg[2]
                        /\ \A l \in 1..Len(queue') :
                              /\ k < l /\ queue'[l].op = "send"
                              /\ queue'[l].msg[1] = queue'[k].msg[1]
                              => queue'[k].msg[2] < queue'[l].msg[2]
      BY DEF QueueOrder
    <3>1. queue'[k] = queue[k + 1] /\ k + 1 \in 1..Len(queue)
      BY <1>1, <1>2
    <3>2. \A l \in 1..Len(queue') : /\ queue'[l] = queue[l + 1]
                                    /\ l + 1 \in 1..Len(queue)
                                    /\ k < l => k + 1 < l + 1
      BY <1>1, <1>2
    <3> HIDE DEF Stream
    <3> QED BY <1>0, <1>4, <3>1, <3>2 DEF QueueOrder
  <2>3. PcOrder'
    <3> SUFFICES ASSUME NEW t \in Threads, pc[t].op = "send"
                 PROVE  /\ pc[t].msg[1] = t
                        /\ pc[t].msg[2] <= sends[t]
                        /\ \A i \in 1..Len(Stream') :
                              Stream'[i][1] = t => Stream'[i][2] < pc[t].msg[2]
                        /\ \A k \in 1..Len(queue') :
                              queue'[k].op = "send" /\ queue'[k].msg[1] = t
                                => queue'[k].msg[2] < pc[t].msg[2]
      BY DEF PcOrder
    <3>1. /\ pc[t].msg[1] = t /\ pc[t].msg[2] <= sends[t]
          /\ \A i \in 1..Len(Stream) :
                Stream[i][1] = t => Stream[i][2] < pc[t].msg[2]
          /\ \A k \in 1..Len(queue) :
                queue[k].op = "send" /\ queue[k].msg[1] = t
                  => queue[k].msg[2] < pc[t].msg[2]
      BY <1>0 DEF PcOrder
    <3> HIDE DEF Stream
    <3>2. ASSUME NEW k \in 1..Len(queue'), queue'[k].op = "send",
                 queue'[k].msg[1] = t
          PROVE  queue'[k].msg[2] < pc[t].msg[2]
      <4>1. queue'[k] = queue[k + 1] /\ k + 1 \in 1..Len(queue)
        BY <1>1, <1>2
      <4> QED BY <3>1, <3>2, <4>1
    <3> QED BY <1>4, <3>1, <3>2
  <2> QED BY <2>1, <2>2, <2>3
<1>5. CASE op = "send" /\ Stream' = Append(Stream, m)
  <2>1. /\ m \in Messages /\ m[1] \in Threads /\ m[2] <= sends[m[1]]
        /\ \A i \in 1..Len(Stream) : Stream[i][1] = m[1] => Stream[i][2] < m[2]
        /\ \A l \in 1..Len(queue) :
              1 < l /\ queue[l].op = "send" /\ queue[l].msg[1] = m[1]
                => m[2] < queue[l].msg[2]
    BY <1>0, <1>1, <1>5, ClosureCases DEF QueueOrder
  <2>2. StreamOrder'
    <3>1. /\ \A u \in Users : sends[u] <= sends'[u]
          /\ \A u \in Users : sends'[u] \in Nat
          /\ m[2] <= sends'[m[1]]
      BY <1>3, <2>1
    <3> HIDE DEF m
    <3> QED BY <1>5, <2>1, <3>1, ExtendedInOrder
  <2>3. /\ Len(Stream') = Len(Stream) + 1
        /\ \A i \in 1..Len(Stream) : Stream'[i] = Stream[i]
        /\ Stream'[Len(Stream')] = m
        /\ \A i \in 1..Len(Stream') : i \in 1..Len(Stream) \/ i = Len(Stream')
    <3> HIDE DEF m
    <3> QED BY <1>0, <1>5, <2>1, ExtendedStream
  <2> HIDE DEF Stream, m
  <2>4. QueueOrder'
    <3> SUFFICES ASSUME NEW k \in 1..Len(queue'), queue'[k].op = "send"
                 PROVE  /\ queue'[k].msg[1] \in Threads
                        /\ queue'[k].msg[2] <= sends'[queue'[k].msg[1]]
                        /\ \A i \in 1..Len(Stream') :
                              Stream'[i][1] = queue'[k].msg[1]
                                => Stream'[i][2] < queue'[k].msg[2]
                        /\ \A l \in 1..Len(queue') :
                              /\ k < l /\ queue'[l].op = "send"
                              /\ queue'[l].msg[1] = queue'[k].msg[1]
                              => queue'[k].msg[2] < queue'[l].msg[2]
      BY DEF QueueOrder
    <3>1. queue'[k] = queue[k + 1] /\ k + 1 \in 1..Len(queue) /\ 1 < k + 1
      BY <1>1, <1>2
    <3>2. \A l \in 1..Len(queue') : /\ queue'[l] = queue[l + 1]
                                    /\ l + 1 \in 1..Len(queue)
                                    /\ k < l => k + 1 < l + 1
      BY <1>1, <1>2
    <3>3. \A i \in 1..Len(Stream) : Stream[i][1] = queue'[k].msg[1]
                                      => Stream[i][2] < queue'[k].msg[2]
      BY <1>0, <3>1 DEF QueueOrder
    <3>4. m[1] = queue'[k].msg[1] => m[2] < queue'[k].msg[2]
      BY <2>1, <3>1
    <3>5. \A i \in 1..Len(Stream') : Stream'[i][1] = queue'[k].msg[1]
                                       => Stream'[i][2] < queue'[k].msg[2]
      BY <2>3, <3>3, <3>4
    <3> QED BY <1>0, <3>1, <3>2, <3>5 DEF QueueOrder
  <2>5. PcOrder'
    <3> SUFFICES ASSUME NEW t \in Threads, pc[t].op = "send"
                 PROVE  /\ pc[t].msg[1] = t
                        /\ pc[t].msg[2] <= sends[t]
                        /\ \A i \in 1..Len(Stream') :
                              Stream'[i][1] = t => Stream'[i][2] < pc[t].msg[2]
                        /\ \A k \in 1..Len(queue') :
                              queue'[k].op = "send" /\ queue'[k].msg[1] = t
                                => queue'[k].msg[2] < pc[t].msg[2]
      BY DEF PcOrder
    <3>1. m[1] = t => m[2] < pc[t].msg[2]
      BY <1>0, <1>1, <1>5 DEF PcOrder, m
    <3>2. /\ pc[t].msg[1] = t /\ pc[t].msg[2] <= sends[t]
          /\ \A i \in 1..Len(Stream) :
                Stream[i][1] = t => Stream[i][2] < pc[t].msg[2]
          /\ \A k \in 1..Len(queue) :
                queue[k].op = "send" /\ queue[k].msg[1] = t
                  => queue[k].msg[2] < pc[t].msg[2]
      BY <1>0 DEF PcOrder
    <3>3. ASSUME NEW k \in 1..Len(queue'), queue'[k].op = "send",
                 queue'[k].msg[1] = t
          PROVE  queue'[k].msg[2] < pc[t].msg[2]
      <4>1. queue'[k] = queue[k + 1] /\ k + 1 \in 1..Len(queue)
        BY <1>1, <1>2
      <4> QED BY <3>2, <3>3, <4>1
    <3>4. \A i \in 1..Len(Stream') : Stream'[i][1] = t
                                       => Stream'[i][2] < pc[t].msg[2]
      BY <2>3, <3>1, <3>2
    <3> QED BY <3>2, <3>3, <3>4
  <2> QED BY <2>2, <2>4, <2>5
<1> QED BY <1>4, <1>5

\* The messages of a thread stay behind those it sent before, if only functions
\* that send nothing are put into the queue, or one that its caller held.
LEMMA PutInOrder ==
    ASSUME IInv, NEW c \in Closures, queue' = Append(queue, c),
           Stream' = Stream, sends' = sends,
           \A t \in Threads : pc'[t] = pc[t] \/ pc'[t].op # "send",
           c.op = "send" => \E t \in Threads : c = pc[t] /\ pc'[t].op # "send"
    PROVE  StreamOrder' /\ QueueOrder' /\ PcOrder'
<1>0. TypeOK /\ StreamOrder /\ QueueOrder /\ PcOrder
  BY DEF IInv
<1>1. /\ Len(queue) \in Nat /\ Len(queue') = Len(queue) + 1
      /\ \A i \in 1..Len(queue) : queue'[i] = queue[i]
      /\ queue'[Len(queue')] = c
      /\ \A i \in 1..Len(queue') : i \in 1..Len(queue) \/ i = Len(queue')
  BY <1>0, AppendQueue DEF TypeOK
<1>2. StreamOrder'
  BY <1>0 DEF StreamOrder, InOrder
<1> HIDE DEF Stream
<1>3. QueueOrder'
  <2> SUFFICES ASSUME NEW k \in 1..Len(queue'), queue'[k].op = "send"
               PROVE  /\ queue'[k].msg[1] \in Threads
                      /\ queue'[k].msg[2] <= sends[queue'[k].msg[1]]
                      /\ \A i \in 1..Len(Stream) :
                            Stream[i][1] = queue'[k].msg[1]
                              => Stream[i][2] < queue'[k].msg[2]
                      /\ \A l \in 1..Len(queue') :
                            /\ k < l /\ queue'[l].op = "send"
                            /\ queue'[l].msg[1] = queue'[k].msg[1]
                            => queue'[k].msg[2] < queue'[l].msg[2]
    BY DEF QueueOrder
  <2>1. CASE k \in 1..Len(queue)
    <3>1. queue'[k] = queue[k] /\ queue[k].op = "send"
      BY <1>1, <2>1
    <3>2. /\ queue[k].msg[1] \in Threads
          /\ queue[k].msg[2] <= sends[queue[k].msg[1]]
          /\ \A i \in 1..Len(Stream) : Stream[i][1] = queue[k].msg[1]
                                         => Stream[i][2] < queue[k].msg[2]
          /\ \A l \in 1..Len(queue) :
                /\ k < l /\ queue[l].op = "send"
                /\ queue[l].msg[1] = queue[k].msg[1]
                => queue[k].msg[2] < queue[l].msg[2]
      BY <1>0, <2>1, <3>1 DEF QueueOrder
    <3>3. ASSUME NEW l \in 1..Len(queue'), k < l, queue'[l].op = "send",
                 queue'[l].msg[1] = queue[k].msg[1]
          PROVE  queue[k].msg[2] < queue'[l].msg[2]
      <4>1. CASE l \in 1..Len(queue)
        BY <1>1, <3>2, <3>3, <4>1
      <4>2. CASE l = Len(queue')
        <5>1. PICK t \in Threads : c = pc[t]
          BY <1>1, <3>3, <4>2
        <5>2. c.op = "send" /\ c.msg[1] = queue[k].msg[1]
          BY <1>1, <3>3, <4>2
        <5>3. c.msg[1] = t
          BY <1>0, <5>1, <5>2 DEF PcOrder
        <5>4. queue[k].msg[2] < c.msg[2]
          BY <1>0, <2>1, <3>1, <5>1, <5>2, <5>3 DEF PcOrder
        <5> QED BY <1>1, <4>2, <5>4
      <4> QED BY <1>1, <4>1, <4>2
    <3> QED BY <3>1, <3>2, <3>3
  <2>2. CASE k = Len(queue')
    <3>1. PICK t \in Threads : c = pc[t]
      BY <1>1, <2>2
    <3>2. c.op = "send" /\ queue'[k] = c
      BY <1>1, <2>2
    <3>3. /\ c.msg[1] = t /\ c.msg[2] <= sends[t]
          /\ \A i \in 1..Len(Stream) : Stream[i][1] = t => Stream[i][2] < c.msg[2]
      BY <1>0, <3>1, <3>2 DEF PcOrder
    <3>4. \A l \in 1..Len(queue') : ~(k < l)
      BY <1>1, <2>2
    <3> QED BY <3>2, <3>3, <3>4
  <2> QED BY <1>1, <2>1, <2>2
<1>4. PcOrder'
  <2> SUFFICES ASSUME NEW t \in Threads, pc'[t].op = "send"
               PROVE  /\ pc'[t].msg[1] = t
                      /\ pc'[t].msg[2] <= sends[t]
                      /\ \A i \in 1..Len(Stream) :
                            Stream[i][1] = t => Stream[i][2] < pc'[t].msg[2]
                      /\ \A k \in 1..Len(queue') :
                            queue'[k].op = "send" /\ queue'[k].msg[1] = t
                              => queue'[k].msg[2] < pc'[t].msg[2]
    BY DEF PcOrder
  <2>1. pc'[t] = pc[t] /\ pc[t].op = "send"
    OBVIOUS
  <2>2. /\ pc[t].msg[1] = t /\ pc[t].msg[2] <= sends[t]
        /\ \A i \in 1..Len(Stream) :
              Stream[i][1] = t => Stream[i][2] < pc[t].msg[2]
        /\ \A k \in 1..Len(queue) :
              queue[k].op = "send" /\ queue[k].msg[1] = t
                => queue[k].msg[2] < pc[t].msg[2]
    BY <1>0, <2>1 DEF PcOrder
  <2>3. ASSUME NEW k \in 1..Len(queue'), queue'[k].op = "send",
               queue'[k].msg[1] = t
        PROVE  queue'[k].msg[2] < pc[t].msg[2]
    <3>1. CASE k \in 1..Len(queue)
      BY <1>1, <2>2, <2>3, <3>1
    <3>2. CASE k = Len(queue')
      <4>1. PICK u \in Threads : c = pc[u] /\ pc'[u].op # "send"
        BY <1>1, <2>3, <3>2
      <4>2. c.op = "send" /\ c.msg[1] = t
        BY <1>1, <2>3, <3>2
      <4>3. u = t
        BY <1>0, <4>1, <4>2 DEF PcOrder
      <4> QED BY <4>1, <4>3
    <3> QED BY <1>1, <3>1, <3>2
  <2> QED BY <2>1, <2>2, <2>3
<1> QED BY <1>2, <1>3, <1>4

\* A step that moves no message keeps them in order.
LEMMA SameInOrder ==
    ASSUME IInv, queue' = queue, Stream' = Stream, sends' = sends,
           \A t \in Threads : pc'[t] = pc[t] \/ pc'[t].op # "send"
    PROVE  StreamOrder' /\ QueueOrder' /\ PcOrder'
<1>0. StreamOrder /\ QueueOrder /\ PcOrder
  BY DEF IInv
<1> HIDE DEF Stream
<1>1. StreamOrder'
  BY <1>0 DEF StreamOrder, InOrder
<1>2. QueueOrder'
  BY <1>0 DEF QueueOrder
<1>3. PcOrder'
  <2> SUFFICES ASSUME NEW t \in Threads, pc'[t].op = "send"
               PROVE  /\ pc'[t].msg[1] = t
                      /\ pc'[t].msg[2] <= sends[t]
                      /\ \A i \in 1..Len(Stream) :
                            Stream[i][1] = t => Stream[i][2] < pc'[t].msg[2]
                      /\ \A k \in 1..Len(queue) :
                            queue[k].op = "send" /\ queue[k].msg[1] = t
                              => queue[k].msg[2] < pc'[t].msg[2]
    BY DEF PcOrder
  <2>1. pc'[t] = pc[t] /\ pc[t].op = "send"
    OBVIOUS
  <2> QED BY <1>0, <2>1 DEF PcOrder
<1> QED BY <1>1, <1>2, <1>3

\* The messages that go with the loop leave the others in order.
LEMMA DroppedInOrder ==
    ASSUME IInv, queue' = <<>>, Stream' = Stream, sends' = sends, pc' = pc
    PROVE  StreamOrder' /\ QueueOrder' /\ PcOrder'
<1>0. StreamOrder /\ PcOrder /\ Len(queue') = 0
  BY DEF IInv
<1> HIDE DEF Stream
<1>1. StreamOrder'
  BY <1>0 DEF StreamOrder, InOrder
<1>2. QueueOrder'
  BY <1>0 DEF QueueOrder
<1>3. PcOrder'
  BY <1>0 DEF PcOrder
<1> QED BY <1>1, <1>2, <1>3

\* A thread's send() makes a message that is behind all it sent before.
LEMMA CheckSendInOrder ==
    ASSUME IInv, NEW t \in Threads, CheckSend(t)
    PROVE  StreamOrder' /\ QueueOrder' /\ PcOrder'
<1>0. TypeOK /\ StreamOrder /\ QueueOrder /\ PcOrder
  BY DEF IInv
<1>1. /\ \A i \in 1..Len(Stream) : Stream[i][1] \in Users /\ Stream[i][2] \in Nat
      /\ \A k \in 1..Len(queue) : queue[k].op = "send" =>
            queue[k].msg[1] \in Users /\ queue[k].msg[2] \in Nat
      /\ \A u \in Threads : pc[u].op = "send" => pc[u].msg[2] \in Nat
      /\ \A u \in Users : sends[u] \in Nat
  BY <1>0, OrderTypes
<1>2. Stream' = Stream /\ queue' = queue
  BY DEF CheckSend, historyVars, Stream
<1>3. /\ sends' = [sends EXCEPT ![t] = @ + 1]
      /\ pc' = [pc EXCEPT ![t] = [op |-> "send", msg |-> <<t, sends[t] + 1>>]]
      /\ sends \in [Users -> Nat] /\ t \in Users
  BY <1>0 DEF CheckSend, TypeOK, Users
<1>4. /\ sends'[t] = sends[t] + 1
      /\ \A u \in Users : u # t => sends'[u] = sends[u]
  BY <1>3
<1>5. \A u \in Users : sends[u] <= sends'[u] /\ sends'[u] \in Nat
  BY <1>1, <1>4
<1>6. /\ pc'[t].op = "send" /\ pc'[t].msg[1] = t /\ pc'[t].msg[2] = sends[t] + 1
      /\ \A u \in Threads : u # t => pc'[u] = pc[u]
  BY <1>0, <1>3 DEF TypeOK
<1> HIDE DEF Stream
<1>7. StreamOrder'
  <2>1. InOrder(Stream')
    BY <1>0, <1>2 DEF StreamOrder
  <2>2. ASSUME NEW i \in 1..Len(Stream)
        PROVE  Stream[i][2] <= sends'[Stream[i][1]]
    <3>1. Stream[i][2] <= sends[Stream[i][1]]
      BY <1>0 DEF StreamOrder
    <3> QED BY <1>1, <1>5, <3>1
  <2> QED BY <1>2, <2>1, <2>2 DEF StreamOrder, InOrder
<1>8. QueueOrder'
  <2>1. ASSUME NEW k \in 1..Len(queue), queue[k].op = "send"
        PROVE  queue[k].msg[2] <= sends'[queue[k].msg[1]]
    <3>1. queue[k].msg[2] <= sends[queue[k].msg[1]]
      BY <1>0, <2>1 DEF QueueOrder
    <3> QED BY <1>1, <1>5, <2>1, <3>1
  <2> QED BY <1>0, <1>2, <2>1 DEF QueueOrder
<1>9. PcOrder'
  <2> SUFFICES ASSUME NEW u \in Threads, pc'[u].op = "send"
               PROVE  /\ pc'[u].msg[1] = u
                      /\ pc'[u].msg[2] <= sends'[u]
                      /\ \A i \in 1..Len(Stream) :
                            Stream[i][1] = u => Stream[i][2] < pc'[u].msg[2]
                      /\ \A k \in 1..Len(queue) :
                            queue[k].op = "send" /\ queue[k].msg[1] = u
                              => queue[k].msg[2] < pc'[u].msg[2]
    BY <1>2 DEF PcOrder
  <2>1. CASE u # t
    <3>1. pc'[u] = pc[u] /\ sends'[u] = sends[u]
      BY <1>4, <1>6, <2>1 DEF Users
    <3> QED BY <1>0, <3>1 DEF PcOrder
  <2>2. CASE u = t
    <3>1. pc'[u].msg[2] <= sends'[u]
      BY <1>1, <1>3, <1>4, <1>6, <2>2
    <3>2. ASSUME NEW i \in 1..Len(Stream), Stream[i][1] = u
          PROVE  Stream[i][2] < pc'[u].msg[2]
      <4>1. Stream[i][2] <= sends[t] /\ Stream[i][2] \in Nat /\ sends[t] \in Nat
        BY <1>0, <1>1, <1>3, <2>2, <3>2 DEF StreamOrder
      <4> QED BY <1>6, <2>2, <4>1
    <3>3. ASSUME NEW k \in 1..Len(queue), queue[k].op = "send",
                 queue[k].msg[1] = u
          PROVE  queue[k].msg[2] < pc'[u].msg[2]
      <4>1. /\ queue[k].msg[2] <= sends[t] /\ queue[k].msg[2] \in Nat
            /\ sends[t] \in Nat
        BY <1>0, <1>1, <1>3, <2>2, <3>3 DEF QueueOrder
      <4> QED BY <1>6, <2>2, <4>1
    <3> QED BY <1>6, <2>2, <3>1, <3>2, <3>3
  <2> QED BY <2>1, <2>2
<1> QED BY <1>7, <1>8, <1>9

\* The loop thread's send() puts its message straight into the stream, behind
\* all the loop thread sent before.
LEMMA SendHereInOrder ==
    ASSUME IInv, NEW n \in {0, 1}, SendHere(n)
    PROVE  StreamOrder' /\ QueueOrder' /\ PcOrder'
<1>0. TypeOK /\ StreamOrder /\ QueueOrder /\ PcOrder
  BY DEF IInv
<1> DEFINE m == <<LoopUser, sends[LoopUser] + 1>>
<1>1. /\ \A i \in 1..Len(Stream) : Stream[i][1] \in Users /\ Stream[i][2] \in Nat
      /\ \A k \in 1..Len(queue) : queue[k].op = "send" =>
            queue[k].msg[1] \in Users /\ queue[k].msg[2] \in Nat
      /\ \A u \in Users : sends[u] \in Nat
  BY <1>0, OrderTypes
<1>2. LoopUser \in Users /\ LoopUser \notin Threads
  BY TcpConnectionAssumption DEF Users
<1>3. /\ m \in Messages /\ m[1] = LoopUser /\ m[2] = sends[LoopUser] + 1
      /\ sends[LoopUser] \in Nat
  BY <1>1, <1>2 DEF Messages
<1>4. /\ sends' = [sends EXCEPT ![LoopUser] = @ + 1] /\ sends \in [Users -> Nat]
      /\ queue' = queue /\ pc' = pc /\ SendInLoop(m, n)
  BY <1>0 DEF SendHere, TypeOK
<1>5. /\ sends'[LoopUser] = sends[LoopUser] + 1
      /\ \A t \in Threads : sends'[t] = sends[t]
  BY <1>2, <1>4 DEF Users
<1>6. /\ \A u \in Users : sends[u] <= sends'[u]
      /\ \A u \in Users : sends'[u] \in Nat
      /\ m[2] <= sends'[m[1]]
  <2>1. \A t \in Threads : sends[t] <= sends'[t] /\ sends'[t] \in Nat
    BY <1>1, <1>5 DEF Users
  <2> QED BY <1>3, <1>5, <2>1 DEF Users
<1>7. Stream' = Stream \/ Stream' = Append(Stream, m)
  <2> HIDE DEF m
  <2> QED BY <1>0, <1>3, <1>4, SendExtendsStream
<1>8. \A i \in 1..Len(Stream) : Stream[i][1] = m[1] => Stream[i][2] < m[2]
  <2> SUFFICES ASSUME NEW i \in 1..Len(Stream), Stream[i][1] = LoopUser
               PROVE  Stream[i][2] < sends[LoopUser] + 1
    BY <1>3
  <2>1. Stream[i][2] <= sends[LoopUser] /\ Stream[i][2] \in Nat
    BY <1>0, <1>1 DEF StreamOrder
  <2> QED BY <1>3, <2>1
<1> HIDE DEF m
<1>9. \A i \in 1..Len(Stream') :
        \/ i \in 1..Len(Stream) /\ Stream'[i] = Stream[i]
        \/ Stream'[i][1] = LoopUser
  <2>1. CASE Stream' = Stream
    BY <2>1
  <2>2. CASE Stream' = Append(Stream, m)
    <3>1. /\ Len(Stream') = Len(Stream) + 1 /\ Len(Stream) \in Nat
          /\ \A i \in 1..Len(Stream) : Stream'[i] = Stream[i]
          /\ Stream'[Len(Stream')] = m
          /\ \A i \in 1..Len(Stream') : i \in 1..Len(Stream) \/ i = Len(Stream')
      BY <1>0, <1>3, <2>2, ExtendedStream
    <3> HIDE DEF Stream
    <3> QED BY <1>3, <3>1
  <2> QED BY <1>7, <2>1, <2>2
<1>10. StreamOrder'
  <2>1. CASE Stream' = Stream
    <3> HIDE DEF Stream
    <3>1. ASSUME NEW i \in 1..Len(Stream)
          PROVE  Stream[i][2] <= sends'[Stream[i][1]]
      <4>1. Stream[i][2] <= sends[Stream[i][1]]
        BY <1>0 DEF StreamOrder
      <4> QED BY <1>1, <1>6, <4>1
    <3> QED BY <1>0, <2>1, <3>1 DEF StreamOrder, InOrder
  <2>2. CASE Stream' = Append(Stream, m)
    BY <1>3, <1>6, <1>8, <2>2, ExtendedInOrder
  <2> QED BY <1>7, <2>1, <2>2
<1> HIDE DEF Stream
<1>11. QueueOrder'
  <2> SUFFICES ASSUME NEW k \in 1..Len(queue), queue[k].op = "send"
               PROVE  /\ queue[k].msg[1] \in Threads
                      /\ queue[k].msg[2] <= sends'[queue[k].msg[1]]
                      /\ \A i \in 1..Len(Stream') :
                            Stream'[i][1] = queue[k].msg[1]
                              => Stream'[i][2] < queue[k].msg[2]
                      /\ \A l \in 1..Len(queue) :
                            /\ k < l /\ queue[l].op = "send"
                            /\ queue[l].msg[1] = queue[k].msg[1]
                            => queue[k].msg[2] < queue[l].msg[2]
    BY <1>4 DEF QueueOrder
  <2>1. /\ queue[k].msg[1] \in Threads
        /\ queue[k].msg[2] <= sends[queue[k].msg[1]]
        /\ \A i \in 1..Len(Stream) : Stream[i][1] = queue[k].msg[1]
                                       => Stream[i][2] < queue[k].msg[2]
        /\ \A l \in 1..Len(queue) :
              /\ k < l /\ queue[l].op = "send"
              /\ queue[l].msg[1] = queue[k].msg[1]
              => queue[k].msg[2] < queue[l].msg[2]
    BY <1>0 DEF QueueOrder
  <2>2. \A i \in 1..Len(Stream') : Stream'[i][1] = queue[k].msg[1]
                                     => Stream'[i][2] < queue[k].msg[2]
    BY <1>2, <1>9, <2>1
  <2> QED BY <1>5, <2>1, <2>2
<1>12. PcOrder'
  <2> SUFFICES ASSUME NEW t \in Threads, pc[t].op = "send"
               PROVE  /\ pc[t].msg[1] = t
                      /\ pc[t].msg[2] <= sends'[t]
                      /\ \A i \in 1..Len(Stream') :
                            Stream'[i][1] = t => Stream'[i][2] < pc[t].msg[2]
                      /\ \A k \in 1..Len(queue) :
                            queue[k].op = "send" /\ queue[k].msg[1] = t
                              => queue[k].msg[2] < pc[t].msg[2]
    BY <1>4 DEF PcOrder
  <2>1. /\ pc[t].msg[1] = t /\ pc[t].msg[2] <= sends[t]
        /\ \A i \in 1..Len(Stream) :
              Stream[i][1] = t => Stream[i][2] < pc[t].msg[2]
        /\ \A k \in 1..Len(queue) :
              queue[k].op = "send" /\ queue[k].msg[1] = t
                => queue[k].msg[2] < pc[t].msg[2]
    BY <1>0 DEF PcOrder
  <2>2. \A i \in 1..Len(Stream') : Stream'[i][1] = t
                                     => Stream'[i][2] < pc[t].msg[2]
    BY <1>2, <1>9, <2>1
  <2> QED BY <1>5, <2>1, <2>2
<1> QED BY <1>10, <1>11, <1>12

\* Every step keeps the messages of each user in order, all along their way.
LEMMA NextOrder ==
    IInv /\ [Next]_vars => StreamOrder' /\ QueueOrder' /\ PcOrder'
<1> SUFFICES ASSUME IInv, [Next]_vars
             PROVE  StreamOrder' /\ QueueOrder' /\ PcOrder'
  OBVIOUS
<1> USE DEF channelVars, loopVars, ownerVars, historyVars
<1> DEFINE Ordered == StreamOrder' /\ QueueOrder' /\ PcOrder'
<1>0. TypeOK
  BY DEF IInv
<1>1. sent' = sent /\ output' = output => Stream' = Stream
  BY DEF Stream
<1>2. pc' = pc => \A t \in Threads : pc'[t] = pc[t] \/ pc'[t].op # "send"
  OBVIOUS
<1>3. pc \in [Threads -> Closures \cup {Idle}]
  BY <1>0 DEF TypeOK
<1>4. ASSUME queue' = queue, pc' = pc, sends' = sends, sent' = sent,
             output' = output
      PROVE  Ordered
  BY <1>1, <1>2, <1>4, SameInOrder
<1>5. ASSUME NEW c \in Closures, c.op # "send", queue' = Append(queue, c),
             pc' = pc, sends' = sends, sent' = sent, output' = output
      PROVE  Ordered
  BY <1>1, <1>2, <1>5, PutInOrder
<1>6. ASSUME NEW op, Runs(op), pc' = pc, sends' = sends, sent' = sent,
             output' = output
      PROVE  Ordered
  BY <1>1, <1>6, TakenInOrder
<1>7. ASSUME NEW writable \in BOOLEAN, Select(writable) PROVE Ordered
  BY <1>4, <1>7 DEF Select
<1>8. ASSUME NEW n \in 0..Len(output), HandleWrite(n) PROVE Ordered
  <2>1. Stream' = Stream
    BY <1>0, <1>8, WriteKeepsStream
  <2>2. queue' = queue /\ pc' = pc /\ sends' = sends
    BY <1>8 DEF HandleWrite
  <2> QED BY <1>2, <2>1, <2>2, SameInOrder
<1>9. CASE HandleRead \/ HandleHangUp
  BY <1>4, <1>9 DEF HandleRead, HandleHangUp
<1>10. CASE RunEstablish
  BY <1>6, <1>10 DEF RunEstablish
<1>11. ASSUME NEW n \in {0, 1}, RunSend(n) PROVE Ordered
  <2>1. Runs("send") /\ UNCHANGED <<pc, sends>>
    BY <1>11 DEF RunSend
  <2>2. Head(queue) = queue[1] /\ queue[1] \in Closures /\ queue[1].op = "send"
    BY <1>0, <2>1, TailQueue DEF TypeOK
  <2>3. queue[1].msg \in Messages /\ SendInLoop(queue[1].msg, n)
    BY <1>11, <2>2, ClosureCases DEF RunSend
  <2>4. Stream' = Stream \/ Stream' = Append(Stream, queue[1].msg)
    BY <1>0, <2>3, SendExtendsStream
  <2> QED BY <2>1, <2>4, TakenInOrder
<1>12. CASE RunShutdown
  BY <1>6, <1>12 DEF RunShutdown
<1>13. CASE RunForceClose
  BY <1>6, <1>13 DEF RunForceClose
<1>14. CASE RunDestroy
  BY <1>6, <1>14 DEF RunDestroy
<1>15. ASSUME NEW n \in {0, 1}, SendHere(n) PROVE Ordered
  BY <1>15, SendHereInOrder
<1>16. CASE ShutdownHere
  BY <1>4, <1>16 DEF ShutdownHere
<1>17. CASE ForceCloseHere
  BY <1>5, <1>17, PlainClosures DEF ForceCloseHere
<1>18. ASSUME NEW t \in Threads, CheckSend(t) PROVE Ordered
  BY <1>18, CheckSendInOrder
<1>19. ASSUME NEW t \in Threads, CheckShutdown(t) \/ CheckForceClose(t)
       PROVE  Ordered
  <2>1. /\ queue' = queue /\ sends' = sends /\ sent' = sent /\ output' = output
        /\ \/ pc' = [pc EXCEPT ![t] = [op |-> "shutdown"]]
           \/ pc' = [pc EXCEPT ![t] = [op |-> "forceClose"]]
    BY <1>19 DEF CheckShutdown, CheckForceClose
  <2>2. \A u \in Threads : pc'[u] = pc[u] \/ pc'[u].op # "send"
    BY <1>3, <2>1
  <2> QED BY <1>1, <2>1, <2>2, SameInOrder
<1>20. ASSUME NEW t \in Threads, Enqueue(t) PROVE Ordered
  <2>1. /\ pc[t] # Idle /\ sends' = sends
        /\ queue' = Append(queue, pc[t]) \/ queue' = queue
        /\ sent' = sent /\ output' = output /\ pc' = [pc EXCEPT ![t] = Idle]
    BY <1>20 DEF Enqueue
  <2>2. pc[t] \in Closures
    BY <1>0, <2>1 DEF TypeOK
  <2>3. pc'[t].op # "send"
    BY <1>0, <2>1 DEF TypeOK, Idle
  <2>4. \A u \in Threads : pc'[u] = pc[u] \/ pc'[u].op # "send"
    BY <1>0, <2>1, <2>3 DEF TypeOK
  <2>5. \E u \in Threads : pc[t] = pc[u] /\ pc'[u].op # "send"
    BY <2>3
  <2>6. CASE queue' = Append(queue, pc[t])
    BY <1>1, <2>1, <2>2, <2>4, <2>5, <2>6, PutInOrder
  <2>7. CASE queue' = queue
    BY <1>1, <2>1, <2>4, <2>7, SameInOrder
  <2> QED BY <2>1, <2>6, <2>7
<1>21. ASSUME NEW u \in Users, Drop(u) PROVE Ordered
  BY <1>4, <1>21 DEF Drop
<1>22. ASSUME NEW how \in {"closed", "reset"}, PeerCloses(how) PROVE Ordered
  BY <1>4, <1>22 DEF PeerCloses
<1>23. CASE RemoveConnectionInLoop
  BY <1>5, <1>23, PlainClosures DEF RemoveConnectionInLoop
<1>24. CASE DestroyServer
  <2>1. \/ queue' = queue
        \/ queue' = Append(queue, [op |-> "destroy"])
    BY <1>24 DEF DestroyServer
  <2>2. pc' = pc /\ sends' = sends /\ sent' = sent /\ output' = output
    BY <1>24 DEF DestroyServer
  <2> QED BY <1>4, <1>5, <2>1, <2>2, PlainClosures
<1>25. CASE Swap \/ QuitLoop
  BY <1>4, <1>25 DEF Swap, QuitLoop
<1>26. CASE EndLoop
  <2>1. queue' = <<>> /\ pc' = pc /\ sends' = sends /\ sent' = sent
        /\ output' = output
    BY <1>26 DEF EndLoop
  <2> QED BY <1>1, <2>1, DroppedInOrder
<1>27. CASE UNCHANGED vars
  BY <1>4, <1>27 DEF vars
<1> QED BY <1>7, <1>8, <1>9, <1>10, <1>11, <1>12, <1>13, <1>14, <1>15, <1>16,
           <1>17, <1>18, <1>19, <1>20, <1>21, <1>22, <1>23, <1>24, <1>25,
           <1>26, <1>27
        DEF Next, LoopStep, EventStep, QueueStep, UserStep

---------------------------------------------------------------------------
(* The invariant and what follows from it.                                 *)

\* Every step keeps the invariant.
LEMMA NextIInv == IInv /\ [Next]_vars => IInv'
<1> SUFFICES ASSUME IInv, [Next]_vars PROVE IInv'
  OBVIOUS
<1>1. TypeOK'
  BY NextTypeOK DEF IInv
<1>2. /\ BeforeEstablish' /\ Dispatching' /\ Lifecycle' /\ OwnedUntilRemoved'
      /\ InterestExact'
  BY NextBefore, NextDispatching, NextLifecycle, NextInterest
<1>3. StreamOrder' /\ QueueOrder' /\ PcOrder'
  BY NextOrder
<1> QED BY <1>1, <1>2, <1>3 DEF IInv

\* The invariant holds in every reachable state.
LEMMA SpecIInv == Spec => []IInv
BY InitIInv, NextIInv, PTL DEF Spec

(***************************************************************************)
(* connectionCallback_ is called at most once for the connection coming up *)
(* and at most once for it going down, and no assert on socketState_       *)
(* fails, however the peer, forceClose(), shutdown() and ~TcpServer race,  *)
(* unless a close was overtaken.                                           *)
(***************************************************************************)
THEOREM TcpConnectionDownAtMostOnce == Spec => []DownAtMostOnce
<1>1. IInv => DownAtMostOnce
  <2> SUFFICES ASSUME IInv, ~overtaken
               PROVE  downs <= ups /\ ups <= 1 /\ ~aborted
    BY DEF DownAtMostOnce
  <2>1. ~aborted
    BY DEF IInv, Lifecycle
  <2>2. ups \in {0, 1} /\ downs \in {0, 1} /\ (ups = 0 => downs = 0)
    BY DEF IInv, Lifecycle, BeforeEstablish, TypeOK, States
  <2> QED BY <2>1, <2>2
<1> QED BY <1>1, SpecIInv, PTL

(***************************************************************************)
(* The variables have their types, and while the connection is up POLLOUT  *)
(* is requested exactly when outputBuffer_ holds something.                *)
(***************************************************************************)
THEOREM TcpConnectionWriteInterest == Spec => []WriteInterestExact
<1>1. IInv => WriteInterestExact
  BY DEF IInv, Lifecycle, InterestExact, WriteInterestExact
<1> QED BY <1>1, SpecIInv, PTL

(***************************************************************************)
(* As long as the loop runs, also through ~TcpServer, the connection is    *)
(* freed only after connectionDestory has taken its channel out of Epoll:  *)
(* until then the server's map or the queued function holds a              *)
(* TcpConnectionPtr, unless a close was overtaken.                         *)
(***************************************************************************)
THEOREM TcpConnectionChannelRemoved == Spec => []ChannelRemovedBeforeFree
<1>1. IInv => ChannelRemovedBeforeFree
  <2> SUFFICES ASSUME IInv, ~Alive, ~overtaken, phase # "ended"
               PROVE  channel = "NEW"
    BY DEF ChannelRemovedBeforeFree
  <2>1. ~inMap
    BY DEF Alive
  <2>2. ~DestroyQueued
    <3> SUFFICES ASSUME NEW i \in 1..Len(queue), queue[i].op = "destroy"
                 PROVE  FALSE
      BY DEF DestroyQueued
    <3>1. "destroy" \in QueuedOps /\ "destroy" \in OwningOps
      BY DEF QueuedOps, OwningOps
    <3> QED BY <3>1 DEF Alive
  <2> QED BY <2>1, <2>2 DEF IInv, OwnedUntilRemoved
<1> QED BY <1>1, SpecIInv, PTL

(***************************************************************************)
(* The messages of each user reach the socket in the order of its calls of *)
(* send(), however many threads send and however the writes are split      *)
(* between sendInLoop and handleWrite.                                     *)
(***************************************************************************)
THEOREM TcpConnectionSentInOrder == Spec => []SentInOrder
<1>1. IInv => SentInOrder
  <2> SUFFICES ASSUME IInv PROVE SentInOrder
    OBVIOUS
  <2>1. sent \in Seq(Messages) /\ output \in Seq(Messages) /\ InOrder(Stream)
    BY DEF IInv, TypeOK, StreamOrder
  <2>2. /\ Len(Stream) = Len(sent) + Len(output)
        /\ Len(sent) \in Nat /\ Len(output) \in Nat
        /\ \A i \in 1..Len(sent) : Stream[i] = sent[i]
    BY <2>1, ConcatProperties, LenProperties DEF Stream
  <2> HIDE DEF Stream
  <2>3. \A i \in 1..Len(sent) : i \in 1..Len(Stream)
    BY <2>2
  <2> QED BY <2>1, <2>2, <2>3 DEF InOrder, SentInOrder
<1> QED BY <1>1, SpecIInv, PTL

(***************************************************************************)
(* Until the connection has gone down, SHUT_WR is done only when           *)
(* outputBuffer_ is empty: shutdown() cuts off nothing, whether it is run  *)
(* by the loop's user, from the queue or at the end of handleWrite.        *)
(***************************************************************************)
THEOREM TcpConnectionFinAfterDrain == Spec => FinAfterDrain
<1>1. IInv /\ [Next]_vars
        => [~finSent /\ finSent' /\ downs' = 0 => output' = <<>>]_vars
  BY NextInterest DEF FinStep
<1> QED BY <1>1, SpecIInv, PTL DEF Spec, FinAfterDrain
=============================================================================
