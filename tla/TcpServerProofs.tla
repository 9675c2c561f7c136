-------------------------- MODULE TcpServerProofs --------------------------
(***************************************************************************)
(* Proofs about TcpServer, for any number of peers, loops, connections and *)
(* descriptors, up to the first collision of names.                        *)
(***************************************************************************)
EXTENDS TcpServer, SequenceTheorems, FiniteSetTheorems, TLAPS

NameOf(c) == ConnectionName(conns[c].peer)

Fn(op, c) == [op |-> op, conn |-> c]
Functions == [op : {"establish", "destroy", "remove"}, conn : Ids]

\* The ways a connection can be.
Connecting(c) == conns[c].state = "CONNECTING" /\ conns[c].chan = "NEW"
Up(c) == conns[c].state = "CONNECTED" /\ conns[c].chan = "ADDED"
Closing(c) == conns[c].state = "DISCONNECTED" /\ conns[c].chan = "DELETED"
Destroyed(c) == conns[c].state = "DISCONNECTED" /\ conns[c].chan = "NEW"

Queued(l, op, c) == Fn(op, c) \in ToSet(queue[l])

\* The ids are given out in order, and a peer waits only if there is one left.
IdsInOrder ==
    /\ Made = 1..Cardinality(Made)
    /\ Cardinality(Made) + Len(backlog) <= MaxConns
    /\ \A c \in Ids \ Made : ups[c] = 0 /\ downs[c] = 0

\* Where the loops are in the life of the server.
LoopsInPhase ==
    /\ phase[Main] # "out" => server = "running"
    /\ server = "new" => Made = {}
    /\ server \in {"new", "gone"} => \A l \in Loops : phase[l] = "out"
    /\ \A l \in Loops :
          /\ phase[l] # "out" => l <= threadNums
          /\ phase[l] # "events" => active[l] = {}
          /\ phase[l] # "functions" => batch[l] = 0
          /\ batch[l] <= Len(queue[l])

\* handleRead has a peer to accept, also between its system calls.
AcceptorExact ==
    /\ emfile # "no" => ListenChannel \in active[Main]
    /\ ListenChannel \in active[Main] /\ emfile # "open" => backlog # <<>>

\* A queue has no function twice, and a connection's connectionEstablish
\* before its connectionDestory.
InOrder(s) ==
    /\ \A i, j \in DOMAIN s : s[i] = s[j] => i = j
    /\ \A i, j \in DOMAIN s, c \in Ids :
          s[i] = Fn("establish", c) /\ s[j] = Fn("destroy", c) => i < j

\* What a function in the queue of loop l is for.
FunctionFits(l, e) ==
    /\ e.conn \in Made
    /\ e.op = "establish" => Connecting(e.conn) /\ conns[e.conn].loop = l
    /\ e.op = "destroy" => /\ conns[e.conn].loop = l /\ e.conn \notin Owned
                           /\ ~Destroyed(e.conn)
    /\ e.op = "remove" => /\ l = Main /\ conns[e.conn].loop # Main
                          /\ conns[e.conn].state = "DISCONNECTED"
                          /\ server = "running" =>
                                Closing(e.conn) /\ connections[NameOf(e.conn)] = e.conn

QueuesExact ==
    \A l \in Loops : InOrder(queue[l]) /\ \A e \in ToSet(queue[l]) : FunctionFits(l, e)

\* The stages of a connection's life, with the functions that are to come and
\* its place in channelMap_.
StageExact(c) ==
    LET l == conns[c].loop
        inMap == channelMap[l][conns[c].fd] = c
        owned == server = "running" /\ connections[NameOf(c)] = c
        dying == server \in {"destroying", "gone"} /\ l # Main
                 /\ (server # "gone" => Queued(l, "destroy", c))
    IN \/ /\ Connecting(c) /\ ups[c] = 0 /\ downs[c] = 0
          /\ l # Main /\ (server # "gone" => Queued(l, "establish", c))
          /\ owned \/ dying
       \/ Up(c) /\ ups[c] = 1 /\ downs[c] = 0 /\ inMap /\ (owned \/ dying)
       \/ /\ Closing(c) /\ ups[c] = 1 /\ downs[c] = 1 /\ inMap
          /\ \/ owned /\ l # Main
             \/ server # "gone" => Queued(l, "destroy", c)
       \/ Destroyed(c) /\ ups[c] = 1 /\ downs[c] = 1 /\ c \notin Owned

ConnsExact == \A c \in Made : StageExact(c)

\* channelMap_ has the channels that were added, under their descriptors.
MapExact ==
    \A l \in Loops, f \in Fds : channelMap[l][f] # None =>
        LET c == channelMap[l][f]
        IN c \in Made /\ conns[c].loop = l /\ conns[c].fd = f /\ (Up(c) \/ Closing(c))

\* connections_ has connections under their names, until ~TcpServer.
OwnedExact ==
    \A k \in Keys : connections[k] # None =>
        /\ connections[k] \in Made /\ NameOf(connections[k]) = k
        /\ server = "running"

FdsDiffer ==
    \A c, d \in Made : c # d /\ Alive(c) /\ Alive(d) /\ server # "gone"
                          => conns[c].fd # conns[d].fd

\* The active channels of a loop are of its connections that are up.
ActiveUp ==
    \A l \in Loops : \A c \in active[l] \cap Ids :
        c \in Made /\ conns[c].loop = l /\ Up(c)

IInv ==
    /\ TypeOK
    /\ ~aborted
    /\ IdsInOrder
    /\ LoopsInPhase
    /\ AcceptorExact
    /\ QueuesExact
    /\ ConnsExact
    /\ MapExact
    /\ OwnedExact
    /\ FdsDiffer
    /\ ActiveUp

---------------------------------------------------------------------------
(* Queues of functions.                                                    *)

\* The constants, one by one.
LEMMA Constants ==
    /\ MaxThreads \in Nat /\ MaxConns \in Nat /\ NumFds \in Nat
    /\ Main \in Loops /\ None \notin Ids /\ ListenChannel \notin Ids
    /\ Ids \subseteq Nat /\ Fds \subseteq Nat /\ Loops \subseteq Nat
    /\ MaxThreads + 1 \notin Loops
BY TcpServerAssumption DEF Main, Loops, None, Ids, Fds, ListenChannel

\* A function has the form of Fn.
LEMMA FnForm ==
    /\ \A e \in Functions : e.conn \in Ids /\ e = Fn(e.op, e.conn)
                            /\ e.op \in {"establish", "destroy", "remove"}
    /\ \A c \in Ids : \A op \in {"establish", "destroy", "remove"} :
          Fn(op, c) \in Functions /\ Fn(op, c).op = op /\ Fn(op, c).conn = c
BY DEF Functions, Fn

\* Sets of elements, by position.
LEMMA InToSet ==
    ASSUME NEW M, NEW s \in Seq(M)
    PROVE  /\ Len(s) \in Nat /\ DOMAIN s = 1..Len(s)
           /\ \A i \in 1..Len(s) : s[i] \in ToSet(s) /\ s[i] \in M
           /\ \A e \in ToSet(s) : e \in M /\ \E i \in 1..Len(s) : s[i] = e
<1>1. Len(s) \in Nat /\ DOMAIN s = 1..Len(s) /\ \A i \in 1..Len(s) : s[i] \in M
  BY LenProperties, ElementOfSeq
<1> QED BY <1>1 DEF ToSet

\* The queue without the function that has run.
LEMMA TailOrder ==
    ASSUME NEW s \in Seq(Functions), Len(s) > 0, InOrder(s)
    PROVE  /\ Tail(s) \in Seq(Functions) /\ Len(Tail(s)) = Len(s) - 1
           /\ Head(s) \in ToSet(s)
           /\ ToSet(Tail(s)) = ToSet(s) \ {Head(s)}
           /\ InOrder(Tail(s))
           /\ \A c \in Ids : Head(s) = Fn("destroy", c)
                               => Fn("establish", c) \notin ToSet(s)
<1> DEFINE t == Tail(s)
<1>0. s # <<>>
  BY EmptySeq
<1>1. /\ t \in Seq(Functions) /\ Len(t) = Len(s) - 1 /\ Head(s) = s[1]
      /\ \A i \in 1..Len(t) : t[i] = s[i + 1]
  BY <1>0, HeadTailProperties
<1>2. /\ Len(s) \in Nat /\ DOMAIN s = 1..Len(s) /\ DOMAIN t = 1..Len(t)
      /\ 1 \in 1..Len(s)
  BY <1>1, InToSet
<1> HIDE DEF t
<1>3. Head(s) \in ToSet(s)
  BY <1>1, <1>2 DEF ToSet
<1>4. \A i \in 1..Len(t) : i + 1 \in 1..Len(s) /\ i + 1 # 1
  BY <1>1, <1>2
<1>5. ASSUME NEW e \in ToSet(t) PROVE e \in ToSet(s) \ {Head(s)}
  <2>1. PICK i \in 1..Len(t) : t[i] = e
    BY <1>2 DEF ToSet
  <2>2. e = s[i + 1] /\ i + 1 \in DOMAIN s /\ i + 1 # 1
    BY <1>1, <1>2, <1>4, <2>1
  <2>3. s[i + 1] # s[1]
    BY <1>2, <2>2 DEF InOrder
  <2> QED BY <1>1, <2>2, <2>3 DEF ToSet
<1>6. ASSUME NEW e \in ToSet(s), e # Head(s) PROVE e \in ToSet(t)
  <2>1. PICK i \in 1..Len(s) : s[i] = e
    BY <1>2 DEF ToSet
  <2>2. i # 1
    BY <1>1, <1>6, <2>1
  <2>3. i - 1 \in 1..Len(t) /\ (i - 1) + 1 = i
    BY <1>1, <1>2, <2>1, <2>2
  <2>4. t[i - 1] = e
    BY <1>1, <2>1, <2>3
  <2> QED BY <1>2, <2>3, <2>4 DEF ToSet
<1>7. InOrder(t)
  <2>1. ASSUME NEW i \in DOMAIN t, NEW j \in DOMAIN t, t[i] = t[j] PROVE i = j
    <3>1. s[i + 1] = s[j + 1] /\ i + 1 \in DOMAIN s /\ j + 1 \in DOMAIN s
      BY <1>1, <1>2, <1>4, <2>1
    <3>2. i + 1 = j + 1
      BY <3>1 DEF InOrder
    <3> QED BY <1>2, <3>2
  <2>2. ASSUME NEW i \in DOMAIN t, NEW j \in DOMAIN t, NEW c \in Ids,
               t[i] = Fn("establish", c), t[j] = Fn("destroy", c)
        PROVE  i < j
    <3>1. s[i + 1] = Fn("establish", c) /\ s[j + 1] = Fn("destroy", c)
          /\ i + 1 \in DOMAIN s /\ j + 1 \in DOMAIN s
      BY <1>1, <1>2, <1>4, <2>2
    <3>2. i + 1 < j + 1
      BY <3>1 DEF InOrder
    <3> QED BY <1>2, <3>2
  <2> QED BY <2>1, <2>2 DEF InOrder
<1>8. ASSUME NEW c \in Ids, Head(s) = Fn("destroy", c),
             Fn("establish", c) \in ToSet(s)
      PROVE  FALSE
  <2>1. PICK i \in 1..Len(s) : s[i] = Fn("establish", c)
    BY <1>2, <1>8 DEF ToSet
  <2>2. i < 1
    BY <1>1, <1>2, <1>8, <2>1 DEF InOrder
  <2> QED BY <1>2, <2>1, <2>2
<1> QED BY <1>1, <1>3, <1>5, <1>6, <1>7, <1>8 DEF t

\* The queue with functions behind it that it does not have: those of
\* ~TcpServer, or one.
LEMMA ConcatOrder ==
    ASSUME NEW s \in Seq(Functions), NEW t \in Seq(Functions), InOrder(s), InOrder(t),
           ToSet(s) \cap ToSet(t) = {},
           \A c \in Ids : Fn("establish", c) \in ToSet(t)
                            => Fn("destroy", c) \notin ToSet(s)
    PROVE  /\ s \o t \in Seq(Functions) /\ Len(s \o t) = Len(s) + Len(t)
           /\ ToSet(s \o t) = ToSet(s) \cup ToSet(t)
           /\ InOrder(s \o t)
<1> DEFINE u == s \o t
<1>1. /\ u \in Seq(Functions) /\ Len(u) = Len(s) + Len(t)
      /\ \A i \in 1..(Len(s) + Len(t)) :
            u[i] = IF i <= Len(s) THEN s[i] ELSE t[i - Len(s)]
  BY ConcatProperties, Zenon
<1>2. /\ Len(s) \in Nat /\ Len(t) \in Nat /\ DOMAIN s = 1..Len(s)
      /\ DOMAIN t = 1..Len(t) /\ DOMAIN u = 1..(Len(s) + Len(t))
  BY <1>1, InToSet
<1> HIDE DEF u
<1>3. \A i \in DOMAIN u : \/ i \in DOMAIN s /\ u[i] = s[i]
                          \/ /\ i - Len(s) \in DOMAIN t /\ u[i] = t[i - Len(s)]
                             /\ i > Len(s)
  BY <1>1, <1>2
<1>4. \A i \in DOMAIN s : i \in DOMAIN u /\ u[i] = s[i]
  BY <1>1, <1>2
<1>5. \A i \in DOMAIN t : i + Len(s) \in DOMAIN u /\ u[i + Len(s)] = t[i]
  <2> TAKE i \in DOMAIN t
  <2>1. /\ i + Len(s) \in 1..(Len(s) + Len(t)) /\ ~(i + Len(s) <= Len(s))
        /\ (i + Len(s)) - Len(s) = i
    BY <1>2
  <2> QED BY <1>1, <1>2, <2>1
<1>6. ToSet(u) = ToSet(s) \cup ToSet(t)
  <2>1. ToSet(u) \subseteq ToSet(s) \cup ToSet(t)
    BY <1>3 DEF ToSet
  <2>2. ToSet(s) \subseteq ToSet(u)
    BY <1>4 DEF ToSet
  <2>3. ToSet(t) \subseteq ToSet(u)
    BY <1>5 DEF ToSet
  <2> QED BY <2>1, <2>2, <2>3
<1>7. \A i \in DOMAIN s, j \in DOMAIN t : s[i] # t[j]
  BY DEF ToSet
<1>8. ASSUME NEW i \in DOMAIN u, NEW j \in DOMAIN u, u[i] = u[j] PROVE i = j
  <2>1. CASE i \in DOMAIN s /\ u[i] = s[i]
    <3>1. j \in DOMAIN s /\ u[j] = s[j]
      BY <1>3, <1>7, <1>8, <2>1
    <3> QED BY <1>8, <2>1, <3>1 DEF InOrder
  <2>2. CASE i - Len(s) \in DOMAIN t /\ u[i] = t[i - Len(s)]
    <3>1. j - Len(s) \in DOMAIN t /\ u[j] = t[j - Len(s)]
      BY <1>3, <1>7, <1>8, <2>2
    <3>2. i - Len(s) = j - Len(s)
      BY <1>8, <2>2, <3>1 DEF InOrder
    <3> QED BY <1>2, <3>2
  <2> QED BY <1>3, <2>1, <2>2
<1>9. ASSUME NEW i \in DOMAIN u, NEW j \in DOMAIN u, NEW c \in Ids,
             u[i] = Fn("establish", c), u[j] = Fn("destroy", c)
      PROVE  i < j
  <2>1. CASE i \in DOMAIN s /\ u[i] = s[i]
    <3>1. CASE j \in DOMAIN s /\ u[j] = s[j]
      BY <1>9, <2>1, <3>1 DEF InOrder
    <3>2. CASE j - Len(s) \in DOMAIN t /\ j > Len(s)
      BY <1>2, <2>1, <3>2
    <3> QED BY <1>3, <3>1, <3>2
  <2>2. CASE i - Len(s) \in DOMAIN t /\ u[i] = t[i - Len(s)]
    <3>1. Fn("establish", c) \in ToSet(t)
      BY <1>9, <2>2 DEF ToSet
    <3>2. ~(j \in DOMAIN s /\ u[j] = s[j])
      BY <1>9, <3>1 DEF ToSet
    <3>3. j - Len(s) \in DOMAIN t /\ u[j] = t[j - Len(s)]
      BY <1>3, <3>2
    <3>4. i - Len(s) < j - Len(s)
      BY <1>9, <2>2, <3>3 DEF InOrder
    <3> QED BY <1>2, <3>4
  <2> QED BY <1>3, <2>1, <2>2
<1>10. InOrder(u)
  BY <1>8, <1>9 DEF InOrder
<1> QED BY <1>1, <1>6, <1>10 DEF u

\* queueInLoop of a function that is not in the queue.
LEMMA AppendOrder ==
    ASSUME NEW s \in Seq(Functions), NEW e \in Functions, InOrder(s), e \notin ToSet(s),
           \A c \in Ids : e = Fn("establish", c) => Fn("destroy", c) \notin ToSet(s)
    PROVE  /\ Append(s, e) \in Seq(Functions) /\ Len(Append(s, e)) = Len(s) + 1
           /\ ToSet(Append(s, e)) = ToSet(s) \cup {e}
           /\ InOrder(Append(s, e))
<1> DEFINE t == <<e>>
<1>1. t \in Seq(Functions) /\ Len(t) = 1 /\ DOMAIN t = {1} /\ t[1] = e
  OBVIOUS
<1>2. Append(s, e) = s \o t
  BY AppendIsConcat
<1> HIDE DEF t
<1>3. ToSet(t) = {e}
  BY <1>1 DEF ToSet
<1>4. \A c, d : Fn("establish", c) # Fn("destroy", d)
  BY DEF Fn
<1>5. InOrder(t)
  BY <1>1, <1>4 DEF InOrder
<1>6. \A c \in Ids : Fn("establish", c) \in ToSet(t)
                       => Fn("destroy", c) \notin ToSet(s)
  BY <1>3
<1> QED BY <1>1, <1>2, <1>3, <1>5, <1>6, ConcatOrder

\* A finite set as a sequence.
LEMMA SetAsSequence ==
    ASSUME NEW S, IsFiniteSet(S)
    PROVE  /\ SetToSeq(S) \in Seq(S) /\ ToSet(SetToSeq(S)) = S
           /\ \A i, j \in DOMAIN SetToSeq(S) :
                 SetToSeq(S)[i] = SetToSeq(S)[j] => i = j
<1> DEFINE n == Cardinality(S)
           f == SetToSeq(S)
<1>1. n \in Nat /\ ExistsBijection(1..n, S)
  BY FS_CardinalityType
<1>2. \E g \in [1..n -> S] : IsInjective(g)
  BY <1>1 DEF ExistsBijection, Bijection, Injection
<1>3. f \in [1..n -> S] /\ IsInjective(f)
  BY <1>2, Zenon DEF SetToSeq
<1> HIDE DEF f
<1>4. f \in Injection(1..n, S)
  BY <1>3 DEF Injection
<1>5. IsFiniteSet(1..n) /\ Cardinality(1..n) = n
  BY <1>1, FS_Interval
<1>6. f \in Surjection(1..n, S)
  BY <1>4, <1>5, FS_Injection
<1>7. \A x \in S : \E i \in 1..n : f[i] = x
  BY <1>6 DEF Surjection
<1>8. ToSet(f) = S
  BY <1>3, <1>7 DEF ToSet
<1>9. f \in Seq(S)
  BY <1>1, <1>3, SeqDef, Zenon
<1> QED BY <1>3, <1>8, <1>9 DEF f, IsInjective

---------------------------------------------------------------------------
(* Connections that a step leaves alone.                                   *)

Conn == [peer : Peers, fd : Fds, loop : Loops,
         state : {"CONNECTING", "CONNECTED", "DISCONNECTED"},
         chan : {"NEW", "ADDED", "DELETED"}, closed : BOOLEAN]

\* A connection that was made has its fields.
LEMMA MadeConn ==
    ASSUME TypeOK, NEW c \in Made
    PROVE  /\ c \in Ids /\ conns[c] \in Conn
           /\ conns[c].peer \in Peers /\ conns[c].fd \in Fds /\ conns[c].loop \in Loops
           /\ NameOf(c) \in Keys
<1>1. c \in Ids /\ conns[c].loop \in Loops
  BY DEF Made
<1>2. conns[c] \in Conn \cup {NoConn}
  BY <1>1 DEF TypeOK, Conn
<1>3. NoConn.loop \notin Loops
  BY Constants DEF NoConn
<1>4. conns[c] \in Conn
  BY <1>1, <1>2, <1>3
<1> QED BY <1>1, <1>4 DEF Conn, NameOf, Keys

\* The reference count, by the map C and the queues Q.
AliveIn(C, Q, c) ==
    \/ \E k \in Keys : C[k] = c
    \/ \E l \in Loops : \E e \in ToSet(Q[l]) : e.conn = c

\* What keeps a connection alive, now and after a step.
LEMMA AliveMeans ==
    ASSUME NEW C \in [Keys -> Ids \cup {None}], NEW Q \in [Loops -> Seq(Functions)],
           NEW c
    PROVE  AliveIn(C, Q, c) <=>
             \/ c \in Range(C)
             \/ \E l \in Loops : c \in {Q[l][i].conn : i \in 1..Len(Q[l])}
<1>1. (\E k \in Keys : C[k] = c) <=> c \in Range(C)
  BY DEF Range
<1>2. ASSUME NEW l \in Loops
      PROVE  (\E e \in ToSet(Q[l]) : e.conn = c)
                <=> c \in {Q[l][i].conn : i \in 1..Len(Q[l])}
  <2>1. Q[l] \in Seq(Functions)
    OBVIOUS
  <2>2. /\ \A i \in 1..Len(Q[l]) : Q[l][i] \in ToSet(Q[l])
        /\ \A e \in ToSet(Q[l]) : \E i \in 1..Len(Q[l]) : Q[l][i] = e
    BY <2>1, InToSet
  <2> QED BY <2>2
<1> QED BY <1>1, <1>2 DEF AliveIn

\* In this state.
LEMMA AliveNow ==
    ASSUME TypeOK, NEW c
    PROVE  Alive(c) <=> AliveIn(connections, queue, c)
<1>1. connections \in [Keys -> Ids \cup {None}] /\ queue \in [Loops -> Seq(Functions)]
  BY DEF TypeOK, Functions
<1> QED BY <1>1, AliveMeans DEF Alive, QueuedIn

\* In the next state.
LEMMA AliveNext ==
    ASSUME connections' \in [Keys -> Ids \cup {None}],
           queue' \in [Loops -> Seq(Functions)], NEW c
    PROVE  Alive(c)' <=> AliveIn(connections', queue', c)
BY AliveMeans DEF Alive, QueuedIn

\* Until the loops are gone, a connection that was not destroyed is alive.
LEMMA StageAlive ==
    ASSUME IInv, server # "gone", NEW c \in Made, ~Destroyed(c)
    PROVE  Alive(c)
<1>1. c \in Ids /\ conns[c].loop \in Loops /\ NameOf(c) \in Keys
  BY MadeConn DEF IInv
<1>2. StageExact(c)
  BY DEF IInv, ConnsExact
<1>3. \/ connections[NameOf(c)] = c
      \/ \E op \in {"establish", "destroy", "remove"} : Queued(conns[c].loop, op, c)
  BY <1>2, Zenon DEF StageExact
<1>4. \A op \in {"establish", "destroy", "remove"} : Fn(op, c).conn = c
  BY <1>1, FnForm
<1>5. AliveIn(connections, queue, c)
  BY <1>1, <1>3, <1>4 DEF AliveIn, Queued
<1> QED BY <1>5, AliveNow DEF IInv

\* The same connection but for closed.
SameConn(c) ==
    /\ conns'[c].peer = conns[c].peer /\ conns'[c].fd = conns[c].fd
    /\ conns'[c].loop = conns[c].loop
    /\ conns'[c].state = conns[c].state /\ conns'[c].chan = conns[c].chan

\* A connection keeps its stage if its functions, its place in channelMap_ and
\* its key stay.
LEMMA StageKept ==
    ASSUME NEW c, StageExact(c), server' = server, SameConn(c),
           ups'[c] = ups[c], downs'[c] = downs[c],
           channelMap[conns[c].loop][conns[c].fd] = c
              => channelMap'[conns[c].loop][conns[c].fd] = c,
           connections[NameOf(c)] = c => connections'[NameOf(c)] = c,
           \A op \in {"establish", "destroy"} :
              Queued(conns[c].loop, op, c)
                 => Fn(op, c) \in ToSet(queue'[conns[c].loop]),
           c \in Owned' => c \in Owned
    PROVE  StageExact(c)'
<1>1. /\ Connecting(c)' <=> Connecting(c) 
      /\ Up(c)' <=> Up(c) 
      /\ Closing(c)' <=> Closing(c) 
      /\ Destroyed(c)' <=> Destroyed(c)
      /\ NameOf(c)' = NameOf(c)
  BY DEF SameConn, Connecting, Up, Closing, Destroyed, NameOf
<1>2. /\ Queued(conns[c].loop, "establish", c) => Queued(conns[c].loop, "establish", c)'
      /\ Queued(conns[c].loop, "destroy", c) => Queued(conns[c].loop, "destroy", c)'
  BY DEF Queued, SameConn
<1>3. conns'[c].loop = conns[c].loop /\ conns'[c].fd = conns[c].fd
  BY DEF SameConn
<1> QED BY <1>1, <1>2, <1>3 DEF StageExact

\* So does what a function is for.
LEMMA FitsKept ==
    ASSUME NEW l, NEW e, FunctionFits(l, e), server' = server, SameConn(e.conn),
           e.conn \in Made',
           connections[NameOf(e.conn)] = e.conn
              => connections'[NameOf(e.conn)] = e.conn,
           e.conn \in Owned' => e.conn \in Owned
    PROVE  FunctionFits(l, e)'
<1> DEFINE c == e.conn
<1> HIDE DEF c
<1>1. /\ Connecting(c)' <=> Connecting(c) 
      /\ Closing(c)' <=> Closing(c) 
      /\ Destroyed(c)' <=> Destroyed(c)
      /\ NameOf(c)' = NameOf(c)
      /\ conns'[c].loop = conns[c].loop /\ conns'[c].state = conns[c].state
  BY DEF SameConn, Connecting, Closing, Destroyed, NameOf, c
<1> QED BY <1>1 DEF FunctionFits, c

\* If nobody comes to life, the descriptors of the connections stay different.
LEMMA NoNewLife ==
    ASSUME IInv, Made' = Made,
           server = "gone" => server' = "gone",
           \A c \in Made : /\ conns'[c].peer = conns[c].peer
                           /\ conns'[c].fd = conns[c].fd
                           /\ Alive(c)' => Alive(c)
    PROVE  FdsDiffer'
BY DEF IInv, FdsDiffer

---------------------------------------------------------------------------
(* Steps that change no connection.                                        *)

coreVars == <<server, connections, conns, channelMap, ups, downs, queue>>

\* What a step keeps that makes, closes and queues nothing.
LEMMA CoreKept ==
    ASSUME IInv, UNCHANGED coreVars
    PROVE  /\ Made' = Made /\ (\A c : Alive(c)' <=> Alive(c))
           /\ QueuesExact' /\ ConnsExact' /\ MapExact' /\ OwnedExact' /\ FdsDiffer'
<1>1. UNCHANGED <<server, connections, conns, channelMap, ups, downs, queue>>
  BY DEF coreVars
<1>2. Made' = Made
  BY <1>1 DEF Made
<1>3. \A c : Alive(c)' <=> Alive(c)
  BY <1>1 DEF Alive, QueuedIn
<1>4. Owned' = Owned
  BY <1>1 DEF Owned
<1>5. QueuesExact'
  BY <1>1, <1>2, <1>4 DEF IInv, QueuesExact, FunctionFits, Connecting, Closing,
                          Destroyed, NameOf
<1>6. ConnsExact'
  <2> SUFFICES ASSUME NEW c \in Made PROVE StageExact(c)'
    BY <1>2 DEF ConnsExact
  <2>1. StageExact(c)
    BY DEF IInv, ConnsExact
  <2>2. SameConn(c)
    BY <1>1 DEF SameConn
  <2> QED BY <1>1, <1>4, <2>1, <2>2, StageKept DEF Queued
<1>7. MapExact' /\ OwnedExact'
  BY <1>1, <1>2 DEF IInv, MapExact, OwnedExact, Up, Closing, NameOf
<1>8. FdsDiffer'
  BY <1>1, <1>2, <1>3 DEF IInv, FdsDiffer
<1> QED BY <1>2, <1>3, <1>5, <1>6, <1>7, <1>8

\* The ids, if nobody is made and nobody waits anew.
LEMMA BacklogKept ==
    ASSUME IInv, UNCHANGED coreVars, backlog' = backlog
    PROVE  IdsInOrder'
<1>1. Made' = Made
  BY CoreKept
<1>2. UNCHANGED <<conns, ups, downs>>
  BY DEF coreVars
<1> QED BY <1>1, <1>2 DEF IInv, IdsInOrder

\* A channel that epoll reports is of a connection that is up, and where it
\* should be in channelMap_.
LEMMA ReadyUp ==
    ASSUME IInv, NEW l \in Loops, NEW c \in Ready(l), c # ListenChannel
    PROVE  /\ c \in Made /\ conns[c].loop = l /\ Up(c)
           /\ channelMap[l][conns[c].fd] = c
<1>1. c \in Made /\ conns[c].loop = l /\ conns[c].chan = "ADDED"
  BY DEF Ready
<1>2. StageExact(c)
  BY <1>1 DEF IInv, ConnsExact
<1> QED BY <1>1, <1>2 DEF StageExact, Connecting, Up, Closing, Destroyed

\* Epoll::select.
LEMMA SelectKeeps ==
    ASSUME IInv, NEW l \in Loops, Select(l)
    PROVE  IInv'
<1>1. /\ phase[l] = "select"
      /\ phase' = [phase EXCEPT ![l] = "events"]
      /\ active' = [active EXCEPT ![l] = Ready(l)]
      /\ aborted' = \E c \in Ready(l) \ {ListenChannel} :
                        channelMap[l][conns[c].fd] # c
      /\ UNCHANGED <<threadNums, nextLoop, server, backlog, emfile, idleFd, others,
                     connections, conns, channelMap, ups, downs, queue, batch, quit,
                     collided>>
  BY DEF Select, acceptorVars
<1>2. UNCHANGED coreVars
  BY <1>1 DEF coreVars
<1>3. aborted' = FALSE
  BY <1>1, ReadyUp
<1>4. Ready(l) \subseteq Ids \cup {ListenChannel}
      /\ (ListenChannel \in Ready(l) => l = Main /\ backlog # <<>>)
  BY Constants DEF Ready, Made
<1>5. phase \in [Loops -> {"out", "select", "events", "functions"}]
      /\ active \in [Loops -> SUBSET (Ids \cup {ListenChannel})]
  BY DEF IInv, TypeOK
<1>6. /\ phase' \in [Loops -> {"out", "select", "events", "functions"}]
      /\ active' \in [Loops -> SUBSET (Ids \cup {ListenChannel})]
      /\ phase'[l] = "events" /\ active'[l] = Ready(l)
      /\ \A k \in Loops : k # l => phase'[k] = phase[k] /\ active'[k] = active[k]
  BY <1>1, <1>4, <1>5
<1>7. TypeOK'
  BY <1>1, <1>3, <1>6 DEF IInv, TypeOK
<1>8. LoopsInPhase'
  <2>1. Made' = Made
    BY <1>2, CoreKept
  <2>2. l <= threadNums /\ server \notin {"new", "gone"}
        /\ (l = Main => server = "running") /\ batch[l] = 0
    BY <1>1 DEF IInv, LoopsInPhase
  <2>3. batch' = batch /\ queue' = queue /\ threadNums' = threadNums /\ server' = server
    BY <1>1
  <2>4. phase'[Main] # "out" => server' = "running"
    BY <1>6, <2>2, <2>3, Constants DEF IInv, LoopsInPhase
  <2> QED BY <1>6, <2>1, <2>2, <2>3, <2>4 DEF IInv, LoopsInPhase
<1>9. AcceptorExact'
  <2>1. CASE l = Main
    <3>1. emfile = "no"
      BY <1>1, <2>1, Constants DEF IInv, LoopsInPhase, AcceptorExact
    <3> QED BY <1>1, <1>4, <1>6, <2>1, <3>1 DEF AcceptorExact
  <2>2. CASE l # Main
    BY <1>1, <1>6, <2>2, Constants DEF IInv, AcceptorExact
  <2> QED BY <2>1, <2>2
<1>10. ActiveUp'
  <2>1. ASSUME NEW k \in Loops, NEW c \in active'[k] \cap Ids
        PROVE  c \in Made /\ conns[c].loop = k /\ Up(c)
    <3>1. CASE k = l
      BY <1>6, <2>1, <3>1, ReadyUp, Constants
    <3>2. CASE k # l
      BY <1>6, <2>1, <3>2 DEF IInv, ActiveUp
    <3> QED BY <3>1, <3>2
  <2>2. Made' = Made /\ conns' = conns
    BY <1>1, <1>2, CoreKept
  <2> QED BY <2>1, <2>2 DEF ActiveUp, Up
<1> QED BY <1>1, <1>2, <1>3, <1>7, <1>8, <1>9, <1>10, CoreKept, BacklogKept DEF IInv

\* The steps of a loop between its batches.
LEMMA BatchKeeps ==
    ASSUME IInv, NEW l \in Loops, Swap(l) \/ EndIteration(l)
    PROVE  IInv'
<1> DEFINE p == IF phase[l] = "events" THEN "functions"
                ELSE IF quit[l] THEN "out" ELSE "select"
<1>1. /\ phase[l] \in {"events", "functions"} /\ active[l] = {}
      /\ phase' = [phase EXCEPT ![l] = p]
      /\ \/ phase[l] = "events" /\ batch' = [batch EXCEPT ![l] = Len(queue[l])]
         \/ phase[l] = "functions" /\ batch' = batch /\ batch[l] = 0
      /\ UNCHANGED <<threadNums, nextLoop, server, backlog, emfile, idleFd, others,
                     connections, conns, channelMap, ups, downs, queue, active,
                     aborted, quit, collided>>
  BY DEF Swap, EndIteration, acceptorVars, connVars, IInv, LoopsInPhase
<1>2. UNCHANGED coreVars
  BY <1>1 DEF coreVars
<1>3. /\ phase \in [Loops -> {"out", "select", "events", "functions"}]
      /\ batch \in [Loops -> Nat] /\ queue[l] \in Seq(Functions)
  BY DEF IInv, TypeOK, Functions
<1>4. Len(queue[l]) \in Nat
  BY <1>3, InToSet
<1>5. /\ phase' \in [Loops -> {"out", "select", "events", "functions"}]
      /\ phase'[l] = p /\ \A k \in Loops : k # l => phase'[k] = phase[k]
  BY <1>1, <1>3
<1>6. /\ batch' \in [Loops -> Nat] /\ batch'[l] <= Len(queue[l])
      /\ p # "functions" => batch'[l] = 0
      /\ \A k \in Loops : k # l => batch'[k] = batch[k]
  BY <1>1, <1>3, <1>4
<1>7. TypeOK'
  BY <1>1, <1>5, <1>6 DEF IInv, TypeOK
<1>8. LoopsInPhase'
  <2>1. Made' = Made
    BY <1>2, CoreKept
  <2>2. l <= threadNums /\ server \notin {"new", "gone"}
        /\ (l = Main => server = "running")
    BY <1>1 DEF IInv, LoopsInPhase
  <2>3. queue' = queue /\ threadNums' = threadNums /\ server' = server
        /\ active' = active
    BY <1>1
  <2>4. phase'[Main] # "out" => server' = "running"
    BY <1>5, <2>2, <2>3, Constants DEF IInv, LoopsInPhase
  <2>5. p # "events"
    OBVIOUS
  <2> HIDE DEF p
  <2>6. ASSUME NEW k \in Loops
        PROVE  /\ phase'[k] # "out" => k <= threadNums'
               /\ phase'[k] # "events" => active'[k] = {}
               /\ phase'[k] # "functions" => batch'[k] = 0
               /\ batch'[k] <= Len(queue'[k])
    <3>1. CASE k = l
      BY <1>1, <1>5, <1>6, <2>2, <2>3, <3>1
    <3>2. CASE k # l
      BY <1>5, <1>6, <2>3, <3>2 DEF IInv, LoopsInPhase
    <3> QED BY <3>1, <3>2
  <2> QED BY <2>1, <2>2, <2>3, <2>4, <2>6 DEF IInv, LoopsInPhase
<1>9. AcceptorExact'
  BY <1>1 DEF IInv, AcceptorExact
<1>10. ActiveUp'
  <2>1. Made' = Made /\ conns' = conns
    BY <1>1, <1>2, CoreKept
  <2> QED BY <1>1, <2>1 DEF IInv, ActiveUp, Up
<1> QED BY <1>1, <1>2, <1>7, <1>8, <1>9, <1>10, CoreKept, BacklogKept DEF IInv

\* The lowest free descriptor.
LEMMA MinFree ==
    ASSUME FreeFds # {}
    PROVE  Min(FreeFds) \in FreeFds /\ Min(FreeFds) \in Fds
<1>1. FreeFds \subseteq Fds /\ Fds \subseteq Nat
  BY Constants DEF FreeFds
<1>2. PICK f \in FreeFds : \A g \in FreeFds : ~(<<g, f>> \in OpToRel(<, Nat))
  BY <1>1, WFMin, NatLessThanWellFounded
<1>3. \A g \in FreeFds : f <= g
  <2>1. \A g \in FreeFds : ~(g < f)
    BY <1>1, <1>2 DEF OpToRel
  <2>2. f \in Nat /\ \A g \in FreeFds : g \in Nat
    BY <1>1, <1>2
  <2> QED BY <2>1, <2>2
<1>4. Min(FreeFds) \in FreeFds
  BY <1>2, <1>3, Zenon DEF Min
<1> QED BY <1>1, <1>4

\* Steps of the Acceptor at EMFILE, of the peers, of other code and of the
\* destructor that touch no connection.
LEMMA CloseIdleKeeps ==
    ASSUME IInv, CloseIdle
    PROVE  IInv'
<1>1. /\ ListenChannel \in active[Main] /\ emfile = "no"
      /\ emfile' = "accept" /\ idleFd' = None
      /\ UNCHANGED <<threadNums, nextLoop, server, backlog, others, connections, conns,
                     channelMap, ups, downs, aborted, phase, active, queue, batch, quit,
                     collided>>
  BY DEF CloseIdle, Handles, connVars, loopVars
<1>2. UNCHANGED coreVars
  BY <1>1 DEF coreVars
<1>3. TypeOK'
  BY <1>1 DEF IInv, TypeOK
<1>4. AcceptorExact'
  BY <1>1 DEF IInv, AcceptorExact
<1>5. LoopsInPhase' /\ ActiveUp'
  <2>1. Made' = Made
    BY <1>2, CoreKept
  <2> QED BY <1>1, <2>1 DEF IInv, LoopsInPhase, ActiveUp, Up
<1> QED BY <1>1, <1>2, <1>3, <1>4, <1>5, CoreKept, BacklogKept DEF IInv

\* A shorter backlog is as good.
LEMMA BacklogShorter ==
    ASSUME IInv, UNCHANGED coreVars, backlog # <<>>, backlog' = Tail(backlog)
    PROVE  IdsInOrder' /\ backlog' \in Seq(Peers)
<1>1. Made' = Made
  BY CoreKept
<1>2. UNCHANGED <<conns, ups, downs>>
  BY DEF coreVars
<1>3. backlog \in Seq(Peers) /\ Len(backlog) \in Nat
  BY InToSet DEF IInv, TypeOK
<1>4. /\ backlog' \in Seq(Peers) /\ Len(backlog') = Len(backlog) - 1
  BY <1>3, HeadTailProperties
<1>5. IdsInOrder'
  <2>1. Cardinality(Made) \in Nat
    <3>1. Made \subseteq 1..MaxConns /\ IsFiniteSet(1..MaxConns)
      BY FS_Interval, Constants DEF Made, Ids
    <3> QED BY <3>1, FS_Subset, FS_CardinalityType
  <2>2. Cardinality(Made) + Len(backlog') <= MaxConns
    BY <1>3, <1>4, <2>1, Constants DEF IInv, IdsInOrder
  <2> QED BY <1>1, <1>2, <2>2 DEF IInv, IdsInOrder
<1> QED BY <1>4, <1>5

\* The second accept of handleRead.
LEMMA AcceptAndDropKeeps ==
    ASSUME IInv, AcceptAndDrop
    PROVE  IInv'
<1>1. /\ emfile = "accept" /\ emfile' = "open"
      /\ backlog' = Tail(backlog) \/ backlog' = backlog
      /\ UNCHANGED <<threadNums, nextLoop, server, idleFd, others, connections, conns,
                     channelMap, ups, downs, aborted, phase, active, queue, batch, quit,
                     collided>>
  BY DEF AcceptAndDrop, connVars, loopVars
<1>2. UNCHANGED coreVars
  BY <1>1 DEF coreVars
<1>3. ListenChannel \in active[Main] /\ backlog # <<>>
  BY <1>1 DEF IInv, AcceptorExact
<1>4. IdsInOrder' /\ backlog' \in Seq(Peers)
  <2>1. CASE backlog' = Tail(backlog)
    BY <1>2, <1>3, <2>1, BacklogShorter
  <2>2. CASE backlog' = backlog
    BY <1>2, <2>2, BacklogKept DEF IInv, TypeOK
  <2> QED BY <1>1, <2>1, <2>2
<1>5. TypeOK'
  BY <1>1, <1>4 DEF IInv, TypeOK
<1>6. AcceptorExact'
  BY <1>1, <1>3 DEF AcceptorExact
<1>7. LoopsInPhase' /\ ActiveUp'
  <2>1. Made' = Made
    BY <1>2, CoreKept
  <2> QED BY <1>1, <2>1 DEF IInv, LoopsInPhase, ActiveUp, Up
<1> QED BY <1>1, <1>2, <1>4, <1>5, <1>6, <1>7, CoreKept DEF IInv

\* The end of handleRead at EMFILE.
LEMMA ReopenIdleKeeps ==
    ASSUME IInv, ReopenIdle
    PROVE  IInv'
<1>1. /\ emfile = "open" /\ emfile' = "no"
      /\ idleFd' = IF FreeFds # {} THEN Min(FreeFds) ELSE None
      /\ active' = [active EXCEPT ![Main] = @ \ {ListenChannel}]
      /\ UNCHANGED <<threadNums, nextLoop, server, backlog, others, connections, conns,
                     channelMap, ups, downs, aborted, phase, queue, batch, quit,
                     collided>>
  BY DEF ReopenIdle, connVars, EventDone
<1>2. UNCHANGED coreVars
  BY <1>1 DEF coreVars
<1>3. idleFd' \in Fds \cup {None}
  BY <1>1, MinFree
<1>4. active \in [Loops -> SUBSET (Ids \cup {ListenChannel})]
  BY DEF IInv, TypeOK
<1>5. /\ active' \in [Loops -> SUBSET (Ids \cup {ListenChannel})]
      /\ ListenChannel \notin active'[Main]
      /\ \A l \in Loops : active'[l] \subseteq active[l]
  BY <1>1, <1>4, Constants
<1>6. TypeOK'
  BY <1>1, <1>3, <1>5 DEF IInv, TypeOK
<1>7. AcceptorExact'
  BY <1>1, <1>5 DEF AcceptorExact
<1>8. LoopsInPhase' /\ ActiveUp'
  <2>1. Made' = Made
    BY <1>2, CoreKept
  <2> QED BY <1>1, <1>5, <2>1 DEF IInv, LoopsInPhase, ActiveUp, Up
<1> QED BY <1>1, <1>2, <1>6, <1>7, <1>8, CoreKept, BacklogKept DEF IInv

\* A peer connects.
LEMMA ConnectKeeps ==
    ASSUME IInv, NEW p \in Peers, Connect(p)
    PROVE  IInv'
<1>1. /\ Cardinality(Made) + Len(backlog) < MaxConns
      /\ backlog' = Append(backlog, p)
      /\ UNCHANGED <<threadNums, nextLoop, server, emfile, idleFd, others, connections,
                     conns, channelMap, ups, downs, aborted, phase, active, queue,
                     batch, quit, collided>>
  BY DEF Connect, connVars, loopVars
<1>2. UNCHANGED coreVars
  BY <1>1 DEF coreVars
<1>3. Made' = Made
  BY <1>2, CoreKept
<1>4. backlog \in Seq(Peers) /\ Len(backlog) \in Nat
  BY InToSet DEF IInv, TypeOK
<1>5. /\ backlog' \in Seq(Peers) /\ Len(backlog') = Len(backlog) + 1
  BY <1>1, <1>4, AppendProperties
<1>6. IdsInOrder'
  <2>1. Cardinality(Made) \in Nat
    <3>1. Made \subseteq 1..MaxConns /\ IsFiniteSet(1..MaxConns)
      BY FS_Interval, Constants DEF Made, Ids
    <3> QED BY <3>1, FS_Subset, FS_CardinalityType
  <2>2. Cardinality(Made) + Len(backlog') <= MaxConns
    BY <1>1, <1>4, <1>5, <2>1, Constants
  <2> QED BY <1>1, <1>3, <2>2 DEF IInv, IdsInOrder
<1>7. TypeOK'
  BY <1>1, <1>5 DEF IInv, TypeOK
<1>8. AcceptorExact'
  <2>1. backlog' # <<>>
    BY <1>4, <1>5, EmptySeq
  <2> QED BY <1>1, <2>1 DEF IInv, AcceptorExact
<1>9. LoopsInPhase' /\ ActiveUp'
  BY <1>1, <1>3 DEF IInv, LoopsInPhase, ActiveUp, Up
<1> QED BY <1>1, <1>2, <1>6, <1>7, <1>8, <1>9, CoreKept DEF IInv

\* Descriptors of other code, and the quit() calls.
LEMMA OthersKeep ==
    ASSUME IInv, OtherOpens \/ QuitMain \/ \E l \in Loops : QuitThread(l)
    PROVE  IInv'
<1>1. /\ others' \subseteq Fds
      /\ quit' \in [Loops -> BOOLEAN]
      /\ UNCHANGED <<threadNums, nextLoop, server, backlog, emfile, idleFd, connections,
                     conns, channelMap, ups, downs, aborted, phase, active, queue, batch,
                     collided>>
  <2>1. quit \in [Loops -> BOOLEAN] /\ others \subseteq Fds
    BY DEF IInv, TypeOK
  <2>2. CASE OtherOpens
    BY <2>1, <2>2, MinFree DEF OtherOpens, acceptorVars, connVars, loopVars
  <2>3. CASE QuitMain
    BY <2>1, <2>3 DEF QuitMain, acceptorVars, connVars, loopVars
  <2>4. ASSUME NEW l \in Loops, QuitThread(l)
        PROVE  /\ others' = others /\ quit' \in [Loops -> BOOLEAN]
               /\ UNCHANGED <<threadNums, nextLoop, server, backlog, emfile, idleFd,
                     connections, conns, channelMap, ups, downs, aborted, phase,
                     active, queue, batch, collided>>
    BY <2>1, <2>4 DEF QuitThread, acceptorVars, connVars, loopVars
  <2> QED BY <2>1, <2>2, <2>3, <2>4
<1>2. UNCHANGED coreVars
  BY <1>1 DEF coreVars
<1>3. Made' = Made
  BY <1>2, CoreKept
<1>4. TypeOK'
  BY <1>1 DEF IInv, TypeOK
<1>5. LoopsInPhase' /\ ActiveUp' /\ AcceptorExact'
  BY <1>1, <1>3 DEF IInv, LoopsInPhase, ActiveUp, Up, AcceptorExact
<1> QED BY <1>1, <1>2, <1>4, <1>5, CoreKept, BacklogKept DEF IInv

\* TcpServer::start.
LEMMA StartKeeps ==
    ASSUME IInv, Start
    PROVE  IInv'
<1>1. /\ server = "new" /\ server' = "running"
      /\ phase' = [l \in Loops |-> IF l <= threadNums THEN "select" ELSE "out"]
      /\ UNCHANGED <<threadNums, nextLoop, backlog, emfile, idleFd, others, connections,
                     conns, channelMap, ups, downs, aborted, active, queue, batch, quit,
                     collided>>
  BY DEF Start, PoolStart, acceptorVars, connVars
<1>2. Made = {} /\ Made' = {}
  BY <1>1 DEF IInv, LoopsInPhase, Made
<1>3. \A l \in Loops : active[l] = {} /\ batch[l] = 0
  BY <1>1 DEF IInv, LoopsInPhase
<1>4. \A l \in Loops : ToSet(queue[l]) = {}
  BY <1>2 DEF IInv, QueuesExact, FunctionFits
<1>5. TypeOK'
  <2>1. phase' \in [Loops -> {"out", "select", "events", "functions"}]
    BY <1>1
  <2> QED BY <1>1, <2>1 DEF IInv, TypeOK
<1>6. LoopsInPhase'
  BY <1>1, <1>2, <1>3, Constants DEF IInv, LoopsInPhase
<1>7. QueuesExact' /\ ConnsExact' /\ FdsDiffer'
  BY <1>1, <1>2, <1>4 DEF IInv, QueuesExact, ConnsExact, FdsDiffer
<1>8. MapExact' /\ OwnedExact'
  BY <1>1, <1>2 DEF IInv, MapExact, OwnedExact
<1>9. IdsInOrder'
  BY <1>1, <1>2 DEF IInv, IdsInOrder
<1>10. AcceptorExact' /\ ActiveUp'
  BY <1>1, <1>3 DEF IInv, AcceptorExact, ActiveUp
<1> QED BY <1>1, <1>5, <1>6, <1>7, <1>8, <1>9, <1>10 DEF IInv

\* The peer closes: only closed changes.
LEMMA PeerClosesKeeps ==
    ASSUME IInv, NEW c \in Ids, PeerCloses(c)
    PROVE  IInv'
<1>1. /\ c \in Made
      /\ conns' = [conns EXCEPT ![c] = [conns[c] EXCEPT !.closed = TRUE]]
      /\ UNCHANGED <<threadNums, nextLoop, server, backlog, emfile, idleFd, others,
                     connections, channelMap, ups, downs, aborted, phase, active,
                     queue, batch, quit, collided>>
  BY DEF PeerCloses, acceptorVars, loopVars
<1>2. conns[c] \in Conn /\ conns \in [Ids -> Conn \cup {NoConn}]
  BY <1>1, MadeConn DEF IInv, TypeOK, Conn
<1>3. /\ conns' \in [Ids -> Conn \cup {NoConn}]
      /\ \A d \in Ids : SameConn(d)
  <2>1. [conns[c] EXCEPT !.closed = TRUE] \in Conn
    BY <1>2 DEF Conn
  <2>2. conns' \in [Ids -> Conn \cup {NoConn}]
    BY <1>1, <1>2, <2>1
  <2>3. ASSUME NEW d \in Ids PROVE SameConn(d)
    <3>1. CASE d = c
      BY <1>1, <1>2, <3>1 DEF SameConn, Conn
    <3>2. CASE d # c
      BY <1>1, <1>2, <3>2 DEF SameConn
    <3> QED BY <3>1, <3>2
  <2> QED BY <2>2, <2>3
<1>4. Made' = Made /\ Made \subseteq Ids
  BY <1>3 DEF Made, SameConn
<1>5. Owned' = Owned /\ \A d : Alive(d)' <=> Alive(d)
  BY <1>1 DEF Owned, Alive, QueuedIn
<1>6. TypeOK'
  BY <1>1, <1>3 DEF IInv, TypeOK, Conn
<1>7. QueuesExact'
  <2> SUFFICES ASSUME NEW l \in Loops, NEW e \in ToSet(queue[l])
               PROVE  FunctionFits(l, e)'
    BY <1>1 DEF IInv, QueuesExact
  <2>1. FunctionFits(l, e) /\ e.conn \in Made /\ SameConn(e.conn)
    BY <1>3, <1>4 DEF IInv, QueuesExact, FunctionFits
  <2> QED BY <1>1, <1>4, <1>5, <2>1, FitsKept
<1>8. ConnsExact'
  <2> SUFFICES ASSUME NEW d \in Made PROVE StageExact(d)'
    BY <1>4 DEF ConnsExact
  <2>1. StageExact(d) /\ SameConn(d)
    BY <1>3, <1>4 DEF IInv, ConnsExact
  <2> QED BY <1>1, <1>5, <2>1, StageKept DEF Queued
<1>9. MapExact' /\ OwnedExact' /\ ActiveUp'
  <2>1. \A d \in Made : /\ conns'[d].loop = conns[d].loop /\ conns'[d].fd = conns[d].fd
                        /\ Up(d)' <=> Up(d)
                        /\ Closing(d)' <=> Closing(d)
                        /\ NameOf(d)' = NameOf(d)
    BY <1>3, <1>4 DEF SameConn, Up, Closing, NameOf
  <2> QED BY <1>1, <1>4, <2>1 DEF IInv, MapExact, OwnedExact, ActiveUp
<1>10. FdsDiffer'
  <2>1. \A d \in Made : /\ conns'[d].peer = conns[d].peer /\ conns'[d].fd = conns[d].fd
                        /\ Alive(d)' => Alive(d)
    BY <1>3, <1>4, <1>5 DEF SameConn
  <2> QED BY <1>1, <1>4, <2>1, NoNewLife
<1>11. IdsInOrder' /\ LoopsInPhase' /\ AcceptorExact'
  BY <1>1, <1>4 DEF IInv, IdsInOrder, LoopsInPhase, AcceptorExact
<1> QED BY <1>1, <1>6, <1>7, <1>8, <1>9, <1>10, <1>11 DEF IInv

---------------------------------------------------------------------------
(* Steps of a connection's life.                                           *)

\* The function a loop is about to run.
LEMMA RunsHead ==
    ASSUME IInv, NEW l \in Loops, NEW op \in {"establish", "destroy", "remove"},
           Runs(l, op)
    PROVE  /\ phase[l] = "functions" /\ server \notin {"new", "gone"}
           /\ active[l] = {} /\ batch[l] \in Nat /\ batch[l] > 0
           /\ Len(queue[l]) > 0 /\ queue[l] \in Seq(Functions)
           /\ Head(queue[l]) = Fn(op, Head(queue[l]).conn)
           /\ Head(queue[l]).conn \in Made
           /\ FunctionFits(l, Head(queue[l]))
           /\ Tail(queue[l]) \in Seq(Functions)
           /\ Len(Tail(queue[l])) = Len(queue[l]) - 1
           /\ ToSet(Tail(queue[l])) = ToSet(queue[l]) \ {Head(queue[l])}
           /\ InOrder(Tail(queue[l]))
<1> DEFINE s == queue[l]
<1>1. phase[l] = "functions" /\ batch[l] > 0 /\ Head(s).op = op
  BY DEF Runs
<1>2. server \notin {"new", "gone"} /\ active[l] = {} /\ batch[l] <= Len(s)
  BY <1>1 DEF IInv, LoopsInPhase
<1>3. batch[l] \in Nat /\ s \in Seq(Functions)
  BY DEF IInv, TypeOK, Functions
<1>4. Len(s) > 0
  BY <1>1, <1>2, <1>3, InToSet
<1>5. InOrder(s)
  BY DEF IInv, QueuesExact
<1> HIDE DEF s
<1>6. /\ Tail(s) \in Seq(Functions) /\ Len(Tail(s)) = Len(s) - 1
      /\ Head(s) \in ToSet(s) /\ ToSet(Tail(s)) = ToSet(s) \ {Head(s)}
      /\ InOrder(Tail(s))
  BY <1>3, <1>4, <1>5, TailOrder
<1>7. Head(s) \in Functions
  BY <1>3, <1>6, InToSet
<1>8. Head(s) = Fn(op, Head(s).conn)
  BY <1>1, <1>7, FnForm
<1>9. FunctionFits(l, Head(s)) /\ Head(s).conn \in Made
  BY <1>6 DEF IInv, QueuesExact, FunctionFits, s
<1> QED BY <1>1, <1>2, <1>3, <1>4, <1>6, <1>8, <1>9 DEF s

\* The loops while a function of loop l runs, which may queue others.
LEMMA RunPhases ==
    ASSUME IInv, NEW l \in Loops, batch[l] > 0, phase[l] = "functions",
           batch' = [batch EXCEPT ![l] = @ - 1], Made # {}, Made' = Made,
           UNCHANGED <<threadNums, server, phase, active>>,
           queue' \in [Loops -> Seq(Functions)],
           \A k \in Loops : k # l => Len(queue'[k]) >= Len(queue[k]),
           Len(queue'[l]) >= Len(queue[l]) - 1
    PROVE  LoopsInPhase' /\ batch' \in [Loops -> Nat]
<1>1. batch \in [Loops -> Nat] /\ queue \in [Loops -> Seq(Functions)]
  BY DEF IInv, TypeOK, Functions
<1>2. /\ batch' \in [Loops -> Nat] /\ batch'[l] = batch[l] - 1
      /\ \A k \in Loops : k # l => batch'[k] = batch[k]
  BY <1>1
<1>3. \A k \in Loops : Len(queue[k]) \in Nat /\ Len(queue'[k]) \in Nat
  BY <1>1, InToSet
<1>4. ASSUME NEW k \in Loops
      PROVE  batch'[k] <= Len(queue'[k]) /\ (phase[k] # "functions" => batch'[k] = 0)
  <2>1. batch[k] <= Len(queue[k]) /\ (phase[k] # "functions" => batch[k] = 0)
    BY DEF IInv, LoopsInPhase
  <2>2. batch[k] \in Nat /\ Len(queue[k]) \in Nat /\ Len(queue'[k]) \in Nat
    BY <1>1, <1>3
  <2>3. CASE k = l
    BY <1>2, <2>1, <2>2, <2>3
  <2>4. CASE k # l
    BY <1>2, <2>1, <2>2, <2>4
  <2> QED BY <2>3, <2>4
<1> QED BY <1>2, <1>4 DEF IInv, LoopsInPhase

\* A step in the life of connection c, old or new: the other connections keep
\* their stages, functions, keys and places.
LEMMA OneChanges ==
    ASSUME IInv, NEW c \in Ids, server' = server, Made' = Made \cup {c},
           \A d \in Ids : d # c => /\ conns'[d] = conns[d]
                                   /\ ups'[d] = ups[d] /\ downs'[d] = downs[d],
           connections' \in [Keys -> Ids \cup {None}],
           \A k \in Keys : /\ connections'[k] # connections[k] =>
                                 {connections[k], connections'[k]} \subseteq {c, None}
                           /\ connections'[k] = c => NameOf(c)' = k /\ server = "running",
           \A l \in Loops, f \in Fds :
              /\ channelMap'[l][f] # channelMap[l][f] =>
                    {channelMap[l][f], channelMap'[l][f]} \subseteq {c, None}
              /\ channelMap'[l][f] = c => /\ conns'[c].loop = l /\ conns'[c].fd = f
                                          /\ Up(c)' \/ Closing(c)',
           queue' \in [Loops -> Seq(Functions)],
           \A l \in Loops : InOrder(queue'[l]),
           \A l \in Loops : \A e \in Functions :
              e.conn # c => (e \in ToSet(queue'[l]) <=> e \in ToSet(queue[l])),
           \A l \in Loops : \A e \in ToSet(queue'[l]) : e.conn = c => FunctionFits(l, e)',
           StageExact(c)'
    PROVE  /\ QueuesExact' /\ ConnsExact' /\ MapExact' /\ OwnedExact'
           /\ \A d \in Made : d # c => SameConn(d) /\ (Alive(d)' => Alive(d))
<1>1. /\ queue \in [Loops -> Seq(Functions)] /\ connections \in [Keys -> Ids \cup {None}]
      /\ Made \subseteq Ids /\ None \notin Ids
  BY Constants DEF IInv, TypeOK, Functions, Made
<1>2. \A d \in Ids : d # c => SameConn(d)
  BY DEF SameConn
<1>3. \A d \in Ids : d # c => (\A k \in Keys : connections'[k] = d <=> connections[k] = d)
  BY <1>1
<1>4. \A d \in Ids : d # c => (d \in Owned' <=> d \in Owned)
  <2>1. DOMAIN connections = Keys /\ DOMAIN connections' = Keys
    BY <1>1
  <2> QED BY <1>3, <2>1 DEF Owned, Range
<1>5. ASSUME NEW l \in Loops, NEW e \in ToSet(queue'[l]), e.conn # c
      PROVE  e \in Functions /\ e \in ToSet(queue[l]) /\ e.conn \in Made
  <2>1. e \in Functions
    BY InToSet
  <2>2. e \in ToSet(queue[l])
    BY <1>5, <2>1
  <2> QED BY <2>1, <2>2 DEF IInv, QueuesExact, FunctionFits
<1>6. QueuesExact'
  <2> SUFFICES ASSUME NEW l \in Loops, NEW e \in ToSet(queue'[l]), e.conn # c
               PROVE  FunctionFits(l, e)'
    BY DEF QueuesExact
  <2> DEFINE d == e.conn
  <2>1. d \in Made /\ d \in Ids /\ d # c /\ FunctionFits(l, e)
    BY <1>1, <1>5 DEF IInv, QueuesExact
  <2>2. NameOf(d) \in Keys
    BY <2>1, MadeConn DEF IInv
  <2> QED BY <1>2, <1>3, <1>4, <2>1, <2>2, FitsKept
<1>7. ASSUME NEW d \in Made, d # c PROVE StageExact(d)'
  <2>1. d \in Ids /\ StageExact(d) /\ SameConn(d)
    BY <1>1, <1>2, <1>7 DEF IInv, ConnsExact
  <2>2. NameOf(d) \in Keys /\ conns[d].loop \in Loops /\ conns[d].fd \in Fds
    BY MadeConn DEF IInv
  <2>3. channelMap[conns[d].loop][conns[d].fd] = d
           => channelMap'[conns[d].loop][conns[d].fd] = d
    <3> DEFINE l == conns[d].loop
               f == conns[d].fd
    <3>1. channelMap'[l][f] # channelMap[l][f]
             => {channelMap[l][f], channelMap'[l][f]} \subseteq {c, None}
      BY <2>2
    <3>2. d # None
      BY <1>1, <2>1
    <3> QED BY <1>7, <3>1, <3>2
  <2>4. connections[NameOf(d)] = d => connections'[NameOf(d)] = d
    BY <1>3, <1>7, <2>1, <2>2
  <2>5. \A op \in {"establish", "destroy"} :
           Queued(conns[d].loop, op, d) => Fn(op, d) \in ToSet(queue'[conns[d].loop])
    BY <1>7, <2>1, <2>2, FnForm DEF Queued
  <2>6. ups'[d] = ups[d] /\ downs'[d] = downs[d] /\ (d \in Owned' => d \in Owned)
    BY <1>4, <1>7, <2>1
  <2> QED BY <2>1, <2>3, <2>4, <2>5, <2>6, StageKept
<1>8. ConnsExact'
  BY <1>7 DEF ConnsExact
<1>9. MapExact'
  <2> SUFFICES ASSUME NEW l \in Loops, NEW f \in Fds, channelMap'[l][f] # None,
                      NEW d, d = channelMap'[l][f], d # c
               PROVE  /\ d \in Made' /\ conns'[d].loop = l /\ conns'[d].fd = f
                      /\ Up(d)' \/ Closing(d)'
    BY DEF MapExact
  <2>1. channelMap[l][f] = d
    OBVIOUS
  <2>2. d \in Made /\ conns[d].loop = l /\ conns[d].fd = f /\ (Up(d) \/ Closing(d))
    BY <2>1 DEF IInv, MapExact
  <2>3. conns'[d] = conns[d]
    BY <1>1, <2>2
  <2> QED BY <2>2, <2>3 DEF Up, Closing
<1>10. OwnedExact'
  <2> SUFFICES ASSUME NEW k \in Keys, connections'[k] # None, connections'[k] # c
               PROVE  /\ connections'[k] \in Made' /\ server' = "running"
                      /\ ConnectionName(conns'[connections'[k]].peer) = k
    BY DEF OwnedExact, NameOf
  <2>1. connections'[k] = connections[k]
    OBVIOUS
  <2>2. connections[k] \in Made /\ NameOf(connections[k]) = k /\ server = "running"
    BY <2>1 DEF IInv, OwnedExact
  <2>3. conns'[connections[k]] = conns[connections[k]]
    BY <1>1, <2>1, <2>2
  <2> QED BY <2>1, <2>2, <2>3 DEF NameOf
<1>11. ASSUME NEW d \in Made, d # c, Alive(d)' PROVE Alive(d)
  <2>1. AliveIn(connections', queue', d)
    BY <1>11, AliveNext
  <2>2. d \in Ids
    BY <1>1
  <2>3. AliveIn(connections, queue, d)
    BY <1>3, <1>5, <1>11, <2>1, <2>2 DEF AliveIn
  <2> QED BY <2>3, AliveNow DEF IInv
<1> QED BY <1>1, <1>2, <1>6, <1>8, <1>9, <1>10, <1>11

\* The place in channelMap_ of a connection that was not destroyed is its own.
LEMMA PlaceIsOwn ==
    ASSUME IInv, server # "gone", NEW c \in Made, ~Destroyed(c)
    PROVE  channelMap[conns[c].loop][conns[c].fd] \in {c, None}
<1> DEFINE d == channelMap[conns[c].loop][conns[c].fd]
<1> SUFFICES ASSUME d # c, d # None PROVE FALSE
  OBVIOUS
<1>1. conns[c].loop \in Loops /\ conns[c].fd \in Fds
  BY MadeConn DEF IInv
<1>2. d \in Made /\ conns[d].fd = conns[c].fd /\ (Up(d) \/ Closing(d))
  BY <1>1 DEF IInv, MapExact
<1> HIDE DEF d
<1>3. ~Destroyed(d)
  BY <1>2 DEF Up, Closing, Destroyed
<1>4. Alive(c) /\ Alive(d)
  BY <1>2, <1>3, StageAlive
<1> QED BY <1>2, <1>4 DEF IInv, FdsDiffer

\* The queues once the function at the head has run.
LEMMA PoppedQueues ==
    ASSUME IInv, NEW l \in Loops, NEW op \in {"establish", "destroy", "remove"},
           Runs(l, op)
    PROVE  /\ Popped(l) \in [Loops -> Seq(Functions)]
           /\ \A k \in Loops : InOrder(Popped(l)[k])
           /\ ToSet(Popped(l)[l]) = ToSet(queue[l]) \ {Fn(op, Head(queue[l]).conn)}
           /\ \A k \in Loops : k # l => Popped(l)[k] = queue[k]
           /\ Len(Popped(l)[l]) = Len(queue[l]) - 1
<1>1. queue \in [Loops -> Seq(Functions)]
  BY DEF IInv, TypeOK, Functions
<1>2. /\ Tail(queue[l]) \in Seq(Functions) /\ InOrder(Tail(queue[l]))
      /\ ToSet(Tail(queue[l])) = ToSet(queue[l]) \ {Fn(op, Head(queue[l]).conn)}
      /\ Len(Tail(queue[l])) = Len(queue[l]) - 1
  BY RunsHead
<1>3. \A k \in Loops : InOrder(queue[k])
  BY DEF IInv, QueuesExact
<1>4. Popped(l)[l] = Tail(queue[l]) /\ \A k \in Loops : k # l => Popped(l)[k] = queue[k]
  BY <1>1 DEF Popped
<1>5. Popped(l) \in [Loops -> Seq(Functions)]
  BY <1>1, <1>2 DEF Popped
<1> QED BY <1>2, <1>3, <1>4, <1>5

\* connectionEstablish in the connection's loop.
LEMMA RunEstablishKeeps ==
    ASSUME IInv, NEW l \in Loops, RunEstablish(l)
    PROVE  IInv'
<1>0. PICK c : c = Head(queue[l]).conn
  OBVIOUS
<1> DEFINE f == conns[c].fd
<1>1. /\ Runs(l, "establish") /\ queue' = Popped(l)
      /\ Establish(c, conns[c])
      /\ batch' = [batch EXCEPT ![l] = @ - 1]
      /\ UNCHANGED <<threadNums, nextLoop, server, backlog, emfile, idleFd, others,
                     connections, downs, phase, active, quit, collided>>
  BY <1>0 DEF RunEstablish, Establish, Runs, acceptorVars
<1>2. /\ phase[l] = "functions" /\ server \notin {"new", "gone"} /\ batch[l] > 0
      /\ Head(queue[l]) = Fn("establish", c)
      /\ c \in Made /\ FunctionFits(l, Head(queue[l]))
  BY <1>0, <1>1, RunsHead
<1>3. /\ queue' \in [Loops -> Seq(Functions)] /\ \A k \in Loops : InOrder(queue'[k])
      /\ ToSet(queue'[l]) = ToSet(queue[l]) \ {Fn("establish", c)}
      /\ \A k \in Loops : k # l => queue'[k] = queue[k]
      /\ Len(queue'[l]) = Len(queue[l]) - 1
  BY <1>0, <1>1, PoppedQueues
<1>4. /\ c \in Ids /\ conns[c] \in Conn /\ f \in Fds /\ NameOf(c) \in Keys
      /\ None \notin Ids
  BY <1>2, MadeConn, Constants DEF IInv
<1>5. Connecting(c) /\ conns[c].loop = l
  <2>1. Head(queue[l]).op = "establish"
    BY <1>1 DEF Runs
  <2> QED BY <1>0, <1>2, <2>1 DEF FunctionFits
<1>6. ~Destroyed(c) /\ ~Up(c) /\ ~Closing(c)
  BY <1>5 DEF Connecting, Destroyed, Up, Closing
<1>7. channelMap[l][f] = None
  <2>1. channelMap[l][f] \in {c, None}
    BY <1>2, <1>5, <1>6, PlaceIsOwn
  <2>2. channelMap[l][f] # c
    BY <1>4, <1>6 DEF IInv, MapExact
  <2> QED BY <2>1, <2>2
<1>8. StageExact(c) /\ Alive(c)
  BY <1>2, <1>6, StageAlive DEF IInv, ConnsExact
<1>9. /\ ups[c] = 0 /\ downs[c] = 0 /\ l # Main
      /\ \/ server = "running" /\ connections[NameOf(c)] = c
         \/ server \in {"destroying", "gone"} /\ Queued(l, "destroy", c)
  BY <1>2, <1>5, <1>6, <1>8 DEF StageExact
<1>10. /\ conns \in [Ids -> Conn \cup {NoConn}] /\ ups \in [Ids -> Nat]
       /\ channelMap \in [Loops -> [Fds -> Ids \cup {None}]]
  BY DEF IInv, TypeOK, Conn
<1>11. /\ conns' = [conns EXCEPT ![c] =
                       [conns[c] EXCEPT !.state = "CONNECTED", !.chan = "ADDED"]]
       /\ channelMap' = [channelMap EXCEPT ![l][f] = c]
       /\ ups' = [ups EXCEPT ![c] = ups[c] + 1]
       /\ aborted' = FALSE
  BY <1>1, <1>5, <1>7 DEF Establish, Connecting
<1>12. /\ conns' \in [Ids -> Conn \cup {NoConn}]
       /\ conns'[c].state = "CONNECTED" /\ conns'[c].chan = "ADDED"
       /\ conns'[c].peer = conns[c].peer /\ conns'[c].fd = f /\ conns'[c].loop = l
       /\ \A d \in Ids : d # c => conns'[d] = conns[d]
  <2>1. [conns[c] EXCEPT !.state = "CONNECTED", !.chan = "ADDED"] \in Conn
    BY <1>4 DEF Conn
  <2>2. conns' \in [Ids -> Conn \cup {NoConn}]
    BY <1>4, <1>10, <1>11, <2>1
  <2> QED BY <1>4, <1>5, <1>10, <1>11, <2>2 DEF Conn
<1>13. /\ channelMap' \in [Loops -> [Fds -> Ids \cup {None}]]
       /\ channelMap'[l][f] = c
       /\ \A k \in Loops, g \in Fds :
             k # l \/ g # f => channelMap'[k][g] = channelMap[k][g]
  BY <1>4, <1>10, <1>11
<1>14. ups' \in [Ids -> Nat] /\ ups'[c] = 1 /\ \A d \in Ids : d # c => ups'[d] = ups[d]
  BY <1>4, <1>9, <1>10, <1>11
<1>15. Up(c)' /\ NameOf(c)' = NameOf(c)
  BY <1>12 DEF Up, NameOf
<1>16. Made' = Made \cup {c} /\ Made' = Made /\ Made # {}
  <2>1. \A d \in Ids : conns'[d].loop = conns[d].loop
    BY <1>5, <1>12
  <2> QED BY <1>2, <2>1 DEF Made
<1>17. ASSUME NEW k \in Loops, NEW e \in ToSet(queue'[k]), e.conn = c
       PROVE  FunctionFits(k, e)'
  <2>1. e \in Functions /\ e = Fn(e.op, c) /\ e.op \in {"establish", "destroy", "remove"}
    BY <1>3, <1>17, InToSet, FnForm
  <2>2. e \in ToSet(queue[k])
    BY <1>3
  <2>3. FunctionFits(k, e)
    BY <2>2 DEF IInv, QueuesExact
  <2>4. e.op # "establish"
    BY <1>3, <1>5, <1>17, <2>1, <2>3 DEF FunctionFits
  <2>5. e.op # "remove"
    BY <1>5, <1>17, <2>3 DEF FunctionFits, Connecting
  <2>6. e.op = "destroy" /\ conns[c].loop = k /\ c \notin Owned
    BY <1>17, <2>1, <2>3, <2>4, <2>5 DEF FunctionFits
  <2>7. ~Destroyed(c)' /\ conns'[c].loop = k /\ c \notin Owned'
    BY <1>1, <1>5, <1>12, <2>6 DEF Destroyed, Owned
  <2> QED BY <1>2, <1>16, <1>17, <2>6, <2>7 DEF FunctionFits
<1>18. StageExact(c)'
  <2>1. Queued(l, "destroy", c) => Queued(l, "destroy", c)'
    BY <1>3, <1>4, FnForm DEF Queued
  <2>2. \/ server' = "running" /\ connections'[NameOf(c)'] = c
        \/ server' \in {"destroying", "gone"} /\ Queued(l, "destroy", c)'
    BY <1>1, <1>9, <1>15, <2>1
  <2> QED BY <1>1, <1>9, <1>12, <1>13, <1>14, <1>15, <2>2 DEF StageExact
<1>19. /\ QueuesExact' /\ ConnsExact' /\ MapExact' /\ OwnedExact'
       /\ \A d \in Made : d # c => SameConn(d) /\ (Alive(d)' => Alive(d))
  <2>1. connections \in [Keys -> Ids \cup {None}]
    BY DEF IInv, TypeOK
  <2>2. \A k \in Keys : connections[k] = c => NameOf(c)' = k /\ server = "running"
    BY <1>4, <1>15 DEF IInv, OwnedExact
  <2>3. \A k \in Loops, g \in Fds :
           /\ channelMap'[k][g] # channelMap[k][g] =>
                 {channelMap[k][g], channelMap'[k][g]} \subseteq {c, None}
           /\ channelMap'[k][g] = c => /\ conns'[c].loop = k /\ conns'[c].fd = g
                                       /\ Up(c)' \/ Closing(c)'
    <3>1. \A k \in Loops, g \in Fds : channelMap[k][g] # c
      BY <1>4, <1>6 DEF IInv, MapExact
    <3> QED BY <1>7, <1>12, <1>13, <1>15, <3>1
  <2>4. \A k \in Loops : \A e \in Functions :
           e.conn # c => (e \in ToSet(queue'[k]) <=> e \in ToSet(queue[k]))
    BY <1>3, <1>4, FnForm
  <2>5. \A d \in Ids : d # c => /\ conns'[d] = conns[d]
                                /\ ups'[d] = ups[d] /\ downs'[d] = downs[d]
    BY <1>1, <1>12, <1>14
  <2>6. connections' = connections /\ server' = server
    BY <1>1
  <2> QED BY <1>3, <1>4, <1>16, <1>17, <1>18, <2>1, <2>2, <2>3, <2>4, <2>5, <2>6, OneChanges
<1>20. FdsDiffer'
  BY <1>1, <1>8, <1>12, <1>16, <1>19, NoNewLife DEF SameConn
<1>21. LoopsInPhase' /\ batch' \in [Loops -> Nat]
  <2>1. \A k \in Loops : Len(queue[k]) \in Nat
    BY InToSet DEF IInv, TypeOK
  <2>2. /\ \A k \in Loops : k # l => Len(queue'[k]) >= Len(queue[k])
        /\ Len(queue'[l]) >= Len(queue[l]) - 1
    BY <1>3, <2>1
  <2> QED BY <1>1, <1>2, <1>3, <1>16, <2>2, RunPhases
<1>22. TypeOK'
  BY <1>1, <1>3, <1>11, <1>12, <1>13, <1>14, <1>21 DEF IInv, TypeOK, Functions, Conn
<1>23. ActiveUp'
  <2> SUFFICES ASSUME NEW k \in Loops, NEW d \in active[k] \cap Ids
               PROVE  d \in Made' /\ conns'[d].loop = k /\ Up(d)'
    BY <1>1 DEF ActiveUp
  <2>1. d \in Made /\ conns[d].loop = k /\ Up(d)
    BY DEF IInv, ActiveUp
  <2> QED BY <1>6, <1>12, <1>16, <2>1 DEF Up
<1>24. IdsInOrder' /\ AcceptorExact'
  BY <1>1, <1>2, <1>14, <1>16 DEF IInv, IdsInOrder, AcceptorExact
<1> QED BY <1>11, <1>19, <1>20, <1>21, <1>22, <1>23, <1>24 DEF IInv

\* connectionDestory in the connection's loop.
LEMMA RunDestroyKeeps ==
    ASSUME IInv, NEW l \in Loops, RunDestroy(l)
    PROVE  IInv'
<1>0. PICK c : c = Head(queue[l]).conn
  OBVIOUS
<1> DEFINE f == conns[c].fd
<1>1. /\ Runs(l, "destroy") /\ queue' = Popped(l)
      /\ Destroy({c})
      /\ batch' = [batch EXCEPT ![l] = @ - 1]
      /\ UNCHANGED <<threadNums, nextLoop, server, backlog, emfile, idleFd, others,
                     connections, ups, phase, active, quit, collided>>
  BY <1>0 DEF RunDestroy, Runs, acceptorVars
<1>2. /\ phase[l] = "functions" /\ server \notin {"new", "gone"} /\ batch[l] > 0
      /\ Head(queue[l]) = Fn("destroy", c) /\ active[l] = {}
      /\ c \in Made /\ FunctionFits(l, Head(queue[l]))
      /\ queue[l] \in Seq(Functions) /\ Len(queue[l]) > 0
  BY <1>0, <1>1, RunsHead
<1>3. /\ queue' \in [Loops -> Seq(Functions)] /\ \A k \in Loops : InOrder(queue'[k])
      /\ ToSet(queue'[l]) = ToSet(queue[l]) \ {Fn("destroy", c)}
      /\ \A k \in Loops : k # l => queue'[k] = queue[k]
      /\ Len(queue'[l]) = Len(queue[l]) - 1
  BY <1>0, <1>1, PoppedQueues
<1>4. /\ c \in Ids /\ conns[c] \in Conn /\ f \in Fds /\ NameOf(c) \in Keys
      /\ None \notin Ids
  BY <1>2, MadeConn, Constants DEF IInv
<1>5. conns[c].loop = l /\ c \notin Owned /\ ~Destroyed(c)
  <2>1. Head(queue[l]).op = "destroy"
    BY <1>1 DEF Runs
  <2> QED BY <1>0, <1>2, <2>1 DEF FunctionFits
<1>6. connections \in [Keys -> Ids \cup {None}] /\ \A k \in Keys : connections[k] # c
  <2>1. connections \in [Keys -> Ids \cup {None}]
    BY DEF IInv, TypeOK
  <2> QED BY <1>4, <1>5, <2>1 DEF Owned, Range
<1>7. StageExact(c) /\ Alive(c)
  BY <1>2, <1>5, StageAlive DEF IInv, ConnsExact
<1>8. ~Queued(l, "establish", c)
  <2>1. InOrder(queue[l])
    BY DEF IInv, QueuesExact
  <2> QED BY <1>2, <1>4, <2>1, TailOrder DEF Queued
<1>9. /\ ~Connecting(c) /\ ups[c] = 1 /\ channelMap[l][f] = c
      /\ (Up(c) /\ downs[c] = 0) \/ (Closing(c) /\ downs[c] = 1)
  BY <1>2, <1>5, <1>7, <1>8 DEF StageExact, Connecting, Up, Closing
<1>10. /\ conns \in [Ids -> Conn \cup {NoConn}] /\ downs \in [Ids -> Nat]
       /\ channelMap \in [Loops -> [Fds -> Ids \cup {None}]]
  BY DEF IInv, TypeOK, Conn
<1>11. /\ conns'[c] = [conns[c] EXCEPT !.chan = "NEW", !.state = "DISCONNECTED"]
       /\ conns' \in [Ids -> Conn \cup {NoConn}]
       /\ \A d \in Ids : d # c => conns'[d] = conns[d]
  <2>1. conns' = [d \in Ids |-> IF d = c
                    THEN [conns[c] EXCEPT !.chan = "NEW", !.state =
                            IF conns[c].state = "CONNECTED" THEN "DISCONNECTED"
                            ELSE conns[c].state]
                    ELSE conns[d]]
    BY <1>1 DEF Destroy, Conn
  <2>2. (IF conns[c].state = "CONNECTED" THEN "DISCONNECTED" ELSE conns[c].state)
           = "DISCONNECTED"
    BY <1>9 DEF Up, Closing
  <2>3. [conns[c] EXCEPT !.chan = "NEW", !.state = "DISCONNECTED"] \in Conn
    BY <1>4 DEF Conn
  <2> QED BY <1>4, <1>10, <2>1, <2>2, <2>3
<1>12. /\ conns'[c].state = "DISCONNECTED" /\ conns'[c].chan = "NEW"
       /\ conns'[c].peer = conns[c].peer /\ conns'[c].fd = f /\ conns'[c].loop = l
  BY <1>4, <1>5, <1>11 DEF Conn
<1>13. /\ channelMap' \in [Loops -> [Fds -> Ids \cup {None}]]
       /\ channelMap'[l][f] = None
       /\ \A k \in Loops, g \in Fds :
             k # l \/ g # f => channelMap'[k][g] = channelMap[k][g]
  <2>1. channelMap' = [k \in Loops |-> [g \in Fds |->
                         IF k = l /\ g = f THEN None ELSE channelMap[k][g]]]
    BY <1>1, <1>5 DEF Destroy
  <2> QED BY <1>4, <1>10, <2>1
<1>14. /\ downs' \in [Ids -> Nat] /\ downs'[c] = 1
       /\ \A d \in Ids : d # c => downs'[d] = downs[d]
  <2>1. downs' = [d \in Ids |-> IF d = c /\ conns[c].state = "CONNECTED"
                                THEN downs[d] + 1 ELSE downs[d]]
    BY <1>1 DEF Destroy
  <2>2. \/ downs[c] = 0 /\ conns[c].state = "CONNECTED"
        \/ downs[c] = 1 /\ conns[c].state # "CONNECTED"
    BY <1>9 DEF Up, Closing
  <2> QED BY <1>4, <1>10, <2>1, <2>2
<1>15. aborted' = FALSE
  BY <1>1, <1>5, <1>9 DEF Destroy
<1>16. Destroyed(c)' /\ NameOf(c)' = NameOf(c) /\ Owned' = Owned
  BY <1>1, <1>12 DEF Destroyed, NameOf, Owned
<1>17. Made' = Made \cup {c} /\ Made' = Made /\ Made # {}
  <2>1. \A d \in Ids : conns'[d].loop = conns[d].loop
    BY <1>5, <1>11, <1>12
  <2> QED BY <1>2, <2>1 DEF Made
<1>18. ASSUME NEW k \in Loops, NEW e \in ToSet(queue'[k]), e.conn = c
       PROVE  FunctionFits(k, e)'
  <2>1. e \in Functions /\ e = Fn(e.op, c) /\ e.op \in {"establish", "destroy", "remove"}
    BY <1>3, <1>18, InToSet, FnForm
  <2>2. e \in ToSet(queue[k])
    BY <1>3
  <2>3. FunctionFits(k, e)
    BY <2>2 DEF IInv, QueuesExact
  <2>4. e.op # "destroy"
    BY <1>3, <1>5, <1>18, <2>1, <2>3 DEF FunctionFits
  <2>5. e.op # "establish"
    BY <1>9, <1>18, <2>3 DEF FunctionFits
  <2>6. e.op = "remove" /\ k = Main /\ conns[c].loop # Main /\ server # "running"
    BY <1>4, <1>6, <1>18, <2>1, <2>3, <2>4, <2>5 DEF FunctionFits
  <2> QED BY <1>1, <1>2, <1>5, <1>12, <1>17, <1>18, <2>6 DEF FunctionFits
<1>19. StageExact(c)'
  BY <1>1, <1>5, <1>9, <1>14, <1>16 DEF StageExact
<1>20. /\ QueuesExact' /\ ConnsExact' /\ MapExact' /\ OwnedExact'
       /\ \A d \in Made : d # c => SameConn(d) /\ (Alive(d)' => Alive(d))
  <2>1. \A k \in Keys : connections[k] = c => NameOf(c)' = k /\ server = "running"
    BY <1>6
  <2>2. \A k \in Loops, g \in Fds :
           /\ channelMap'[k][g] # channelMap[k][g] =>
                 {channelMap[k][g], channelMap'[k][g]} \subseteq {c, None}
           /\ channelMap'[k][g] = c => /\ conns'[c].loop = k /\ conns'[c].fd = g
                                       /\ Up(c)' \/ Closing(c)'
    <3>1. \A k \in Loops, g \in Fds : channelMap[k][g] = c => k = l /\ g = f
      BY <1>4, <1>5 DEF IInv, MapExact
    <3> QED BY <1>4, <1>9, <1>13, <3>1
  <2>3. \A k \in Loops : \A e \in Functions :
           e.conn # c => (e \in ToSet(queue'[k]) <=> e \in ToSet(queue[k]))
    BY <1>3, <1>4, FnForm
  <2>4. \A d \in Ids : d # c => /\ conns'[d] = conns[d]
                                /\ ups'[d] = ups[d] /\ downs'[d] = downs[d]
    BY <1>1, <1>11, <1>14
  <2>5. connections' = connections /\ server' = server
    BY <1>1
  <2> QED BY <1>3, <1>4, <1>6, <1>17, <1>18, <1>19, <2>1, <2>2, <2>3, <2>4, <2>5, OneChanges
<1>21. FdsDiffer'
  BY <1>1, <1>7, <1>12, <1>17, <1>20, NoNewLife DEF SameConn
<1>22. LoopsInPhase' /\ batch' \in [Loops -> Nat]
  <2>1. \A k \in Loops : Len(queue[k]) \in Nat
    BY InToSet DEF IInv, TypeOK
  <2>2. /\ \A k \in Loops : k # l => Len(queue'[k]) >= Len(queue[k])
        /\ Len(queue'[l]) >= Len(queue[l]) - 1
    BY <1>3, <2>1
  <2> QED BY <1>1, <1>2, <1>3, <1>17, <2>2, RunPhases
<1>23. TypeOK'
  BY <1>1, <1>3, <1>11, <1>13, <1>14, <1>15, <1>22 DEF IInv, TypeOK, Functions, Conn
<1>24. ActiveUp'
  <2> SUFFICES ASSUME NEW k \in Loops, NEW d \in active[k] \cap Ids
               PROVE  d \in Made' /\ conns'[d].loop = k /\ Up(d)'
    BY <1>1 DEF ActiveUp
  <2>1. d \in Made /\ conns[d].loop = k /\ Up(d)
    BY DEF IInv, ActiveUp
  <2>2. d # c
    BY <1>2, <1>5, <2>1
  <2> QED BY <1>11, <1>17, <2>1, <2>2 DEF Up
<1>25. IdsInOrder' /\ AcceptorExact'
  BY <1>1, <1>2, <1>14, <1>17 DEF IInv, IdsInOrder, AcceptorExact
<1> QED BY <1>15, <1>20, <1>21, <1>22, <1>23, <1>24, <1>25 DEF IInv

\* The queues R are Q with one more function e, at the end of that of loop l.
Grown(Q, R, l, e) ==
    /\ R \in [Loops -> Seq(Functions)]
    /\ \A k \in Loops : InOrder(R[k])
    /\ ToSet(R[l]) = ToSet(Q[l]) \cup {e}
    /\ \A k \in Loops : k # l => R[k] = Q[k]
    /\ \A k \in Loops : Len(R[k]) >= Len(Q[k])

\* What queueInLoop does to the queues.
LEMMA QueuedMore ==
    ASSUME NEW Q \in [Loops -> Seq(Functions)], \A k \in Loops : InOrder(Q[k]),
           NEW l \in Loops, NEW op \in {"establish", "destroy", "remove"}, NEW c \in Ids,
           Fn(op, c) \notin ToSet(Q[l]),
           op = "establish" => Fn("destroy", c) \notin ToSet(Q[l])
    PROVE  Grown(Q, QueueInLoop(Q, l, op, c), l, Fn(op, c))
<1> DEFINE s == Q[l]
           e == Fn(op, c)
           R == QueueInLoop(Q, l, op, c)
<1>1. e \in Functions /\ \A d \in Ids : e = Fn("establish", d) => d = c /\ op = "establish"
  BY FnForm
<1>2. R = [Q EXCEPT ![l] = Append(s, e)]
  BY DEF QueueInLoop, Fn
<1>3. s \in Seq(Functions) /\ InOrder(s) /\ e \notin ToSet(s)
      /\ \A d \in Ids : e = Fn("establish", d) => Fn("destroy", d) \notin ToSet(s)
  BY <1>1
<1> HIDE DEF s, e, R
<1>4. /\ Append(s, e) \in Seq(Functions) /\ Len(Append(s, e)) = Len(s) + 1
      /\ ToSet(Append(s, e)) = ToSet(s) \cup {e} /\ InOrder(Append(s, e))
  BY <1>1, <1>3, AppendOrder
<1>5. /\ R \in [Loops -> Seq(Functions)] /\ R[l] = Append(s, e)
      /\ \A k \in Loops : k # l => R[k] = Q[k]
  BY <1>2, <1>4
<1>6. \A k \in Loops : InOrder(R[k])
  BY <1>4, <1>5
<1>7. \A k \in Loops : Len(R[k]) >= Len(Q[k])
  <2>1. \A k \in Loops : Len(Q[k]) \in Nat
    BY InToSet
  <2>2. Len(R[l]) >= Len(Q[l])
    BY <1>4, <1>5, <2>1 DEF s
  <2> QED BY <1>5, <2>1, <2>2
<1> QED BY <1>4, <1>5, <1>6, <1>7 DEF s, e, R, Grown

\* removeConnectionInLoop for a connection of another loop.
LEMMA RunRemoveKeeps ==
    ASSUME IInv, RunRemove
    PROVE  IInv'
<1>0. PICK c : c = Head(queue[Main]).conn
  OBVIOUS
<1>1. /\ Runs(Main, "remove")
      /\ connections' = [connections EXCEPT ![NameOf(c)] = None]
      /\ queue' = QueueInLoop(Popped(Main), conns[c].loop, "destroy", c)
      /\ batch' = [batch EXCEPT ![Main] = @ - 1]
      /\ UNCHANGED <<threadNums, nextLoop, server, backlog, emfile, idleFd, others, conns,
                     channelMap, ups, downs, aborted, phase, active, quit, collided>>
  BY <1>0 DEF RunRemove, RemoveConnectionInLoop, Runs, acceptorVars, NameOf
<1>2. /\ phase[Main] = "functions" /\ batch[Main] > 0 /\ c \in Made
      /\ FunctionFits(Main, Head(queue[Main])) /\ Main \in Loops
  BY <1>0, <1>1, RunsHead, Constants
<1>3. server = "running"
  BY <1>2 DEF IInv, LoopsInPhase
<1>4. Closing(c) /\ connections[NameOf(c)] = c /\ conns[c].loop # Main
  <2>1. Head(queue[Main]).op = "remove"
    BY <1>1 DEF Runs
  <2> QED BY <1>0, <1>2, <1>3, <2>1 DEF FunctionFits
<1>5. PICK m \in Loops : m = conns[c].loop /\ m # Main
  BY <1>2, <1>4, MadeConn DEF IInv
<1>6. c \in Ids /\ NameOf(c) \in Keys /\ None \notin Ids
  BY <1>2, MadeConn, Constants DEF IInv
<1>7. connections \in [Keys -> Ids \cup {None}] /\ c \in Owned
  <2>1. connections \in [Keys -> Ids \cup {None}]
    BY DEF IInv, TypeOK
  <2> QED BY <1>4, <1>6, <2>1 DEF Owned, Range
<1>8. /\ Popped(Main) \in [Loops -> Seq(Functions)]
      /\ \A k \in Loops : InOrder(Popped(Main)[k])
      /\ ToSet(Popped(Main)[Main]) = ToSet(queue[Main]) \ {Fn("remove", c)}
      /\ \A k \in Loops : k # Main => Popped(Main)[k] = queue[k]
      /\ Len(Popped(Main)[Main]) = Len(queue[Main]) - 1
  BY <1>0, <1>1, <1>2, PoppedQueues
<1>9. ASSUME NEW k \in Loops PROVE Fn("destroy", c) \notin ToSet(queue[k])
  <2>1. Fn("destroy", c).op = "destroy" /\ Fn("destroy", c).conn = c
    BY <1>6, FnForm
  <2> QED BY <1>7, <2>1 DEF IInv, QueuesExact, FunctionFits
<1>10. /\ queue' \in [Loops -> Seq(Functions)] /\ \A k \in Loops : InOrder(queue'[k])
       /\ ToSet(queue'[m]) = ToSet(queue[m]) \cup {Fn("destroy", c)}
       /\ ToSet(queue'[Main]) = ToSet(queue[Main]) \ {Fn("remove", c)}
       /\ \A k \in Loops \ {m, Main} : queue'[k] = queue[k]
       /\ \A k \in Loops : k # Main => Len(queue'[k]) >= Len(queue[k])
       /\ Len(queue'[Main]) >= Len(queue[Main]) - 1
  <2> DEFINE Q == Popped(Main)
  <2>1. Fn("destroy", c) \notin ToSet(Q[m]) /\ queue' = QueueInLoop(Q, m, "destroy", c)
    BY <1>1, <1>5, <1>8, <1>9
  <2>2. \A k \in Loops : Len(queue[k]) \in Nat
    BY InToSet DEF IInv, TypeOK
  <2>0. Q \in [Loops -> Seq(Functions)] /\ \A k \in Loops : InOrder(Q[k])
    BY <1>8
  <2> HIDE DEF Q
  <2>3. /\ queue' \in [Loops -> Seq(Functions)] /\ \A k \in Loops : InOrder(queue'[k])
        /\ ToSet(queue'[m]) = ToSet(Q[m]) \cup {Fn("destroy", c)}
        /\ \A k \in Loops : k # m => queue'[k] = Q[k]
        /\ \A k \in Loops : Len(queue'[k]) >= Len(Q[k])
    <3>1. "destroy" \in {"establish", "destroy", "remove"} /\ "destroy" # "establish"
      OBVIOUS
    <3>2. Grown(Q, QueueInLoop(Q, m, "destroy", c), m, Fn("destroy", c))
      BY <1>6, <2>0, <2>1, <3>1, QueuedMore
    <3> QED BY <2>1, <3>2 DEF Grown
  <2> QED BY <1>2, <1>5, <1>8, <2>2, <2>3 DEF Q
<1>11. /\ connections' \in [Keys -> Ids \cup {None}]
       /\ \A k \in Keys : connections'[k] # c
       /\ \A k \in Keys : connections'[k] # connections[k]
                             => {connections[k], connections'[k]} \subseteq {c, None}
  <2>1. connections'[NameOf(c)] = None
        /\ \A k \in Keys : k # NameOf(c) => connections'[k] = connections[k]
    BY <1>1, <1>6, <1>7
  <2>2. \A k \in Keys : connections[k] = c => k = NameOf(c)
    BY <1>6 DEF IInv, OwnedExact
  <2>3. connections' \in [Keys -> Ids \cup {None}]
    BY <1>1, <1>7
  <2> QED BY <1>4, <1>6, <2>1, <2>2, <2>3
<1>12. c \notin Owned'
  BY <1>11 DEF Owned, Range
<1>13. Made' = Made \cup {c} /\ Made' = Made /\ Made # {}
  BY <1>1, <1>2 DEF Made
<1>14. ASSUME NEW k \in Loops, NEW e \in ToSet(queue'[k]), e.conn = c
       PROVE  FunctionFits(k, e)'
  <2>1. e \in Functions /\ e = Fn(e.op, c) /\ e.op \in {"establish", "destroy", "remove"}
    BY <1>10, <1>14, InToSet, FnForm
  <2>2. CASE e = Fn("destroy", c) /\ k = m
    <3>1. e.op = "destroy" /\ c \notin Owned' /\ conns'[c].loop = k /\ ~Destroyed(c)'
      BY <1>1, <1>4, <1>5, <1>6, <1>12, <2>2, FnForm DEF Closing, Destroyed
    <3> QED BY <1>2, <1>13, <1>14, <3>1 DEF FunctionFits
  <2>3. CASE ~(e = Fn("destroy", c) /\ k = m)
    <3>1. e \in ToSet(queue[k]) /\ ~(k = Main /\ e = Fn("remove", c))
      BY <1>2, <1>5, <1>10, <2>3
    <3>2. FunctionFits(k, e)
      BY <3>1 DEF IInv, QueuesExact
    <3>3. e.op # "establish"
      BY <1>4, <1>14, <3>2 DEF FunctionFits, Closing, Connecting
    <3>4. e.op # "remove"
      BY <1>14, <2>1, <3>1, <3>2 DEF FunctionFits
    <3>5. e.op # "destroy"
      BY <1>9, <2>1, <3>1
    <3> QED BY <2>1, <3>3, <3>4, <3>5
  <2> QED BY <2>2, <2>3
<1>15. StageExact(c)'
  <2>1. StageExact(c)
    BY <1>2 DEF IInv, ConnsExact
  <2>2. ups[c] = 1 /\ downs[c] = 1 /\ channelMap[m][conns[c].fd] = c
    BY <1>4, <1>5, <2>1 DEF StageExact, Connecting, Up, Closing, Destroyed
  <2>3. Closing(c)' /\ Queued(m, "destroy", c)'
    BY <1>1, <1>4, <1>10 DEF Closing, Queued
  <2> QED BY <1>1, <1>5, <2>2, <2>3 DEF StageExact
<1>16. /\ QueuesExact' /\ ConnsExact' /\ MapExact' /\ OwnedExact'
       /\ \A d \in Made : d # c => SameConn(d) /\ (Alive(d)' => Alive(d))
  <2>1. \A k \in Keys : connections'[k] = c => NameOf(c)' = k /\ server = "running"
    BY <1>11
  <2>2. \A k \in Loops, g \in Fds :
           /\ channelMap'[k][g] # channelMap[k][g] =>
                 {channelMap[k][g], channelMap'[k][g]} \subseteq {c, None}
           /\ channelMap'[k][g] = c => /\ conns'[c].loop = k /\ conns'[c].fd = g
                                       /\ Up(c)' \/ Closing(c)'
    BY <1>1, <1>6 DEF IInv, MapExact, Up, Closing
  <2>3. \A k \in Loops : \A e \in Functions :
           e.conn # c => (e \in ToSet(queue'[k]) <=> e \in ToSet(queue[k]))
    <3>1. Fn("destroy", c).conn = c /\ Fn("remove", c).conn = c
      BY <1>6, FnForm
    <3>2. ASSUME NEW k \in Loops, NEW e \in Functions, e.conn # c
          PROVE  e \in ToSet(queue'[k]) <=> e \in ToSet(queue[k])
      <4>1. e # Fn("destroy", c) /\ e # Fn("remove", c)
        BY <3>1, <3>2
      <4> QED BY <1>10, <4>1
    <3> QED BY <3>2
  <2>4. \A d \in Ids : d # c => /\ conns'[d] = conns[d]
                                /\ ups'[d] = ups[d] /\ downs'[d] = downs[d]
    BY <1>1
  <2>5. server' = server
    BY <1>1
  <2> QED BY <1>6, <1>10, <1>11, <1>13, <1>14, <1>15, <2>1, <2>2, <2>3, <2>4, <2>5, OneChanges
<1>17. Alive(c)
  BY <1>2, <1>3, <1>4, StageAlive DEF Closing, Destroyed
<1>18. FdsDiffer'
  BY <1>1, <1>13, <1>16, <1>17, NoNewLife
<1>19. LoopsInPhase' /\ batch' \in [Loops -> Nat]
  BY <1>1, <1>2, <1>10, <1>13, RunPhases
<1>20. TypeOK'
  BY <1>1, <1>10, <1>11, <1>19 DEF IInv, TypeOK, Functions
<1>21. ActiveUp'
  BY <1>1, <1>13 DEF IInv, ActiveUp, Up
<1>22. IdsInOrder' /\ AcceptorExact'
  BY <1>1, <1>13 DEF IInv, IdsInOrder, AcceptorExact
<1> QED BY <1>1, <1>16, <1>18, <1>19, <1>20, <1>21, <1>22 DEF IInv

\* handleClose, in the main loop with removeConnectionInLoop.
LEMMA HandleCloseKeeps ==
    ASSUME IInv, NEW l \in Loops, NEW c \in Ids, HandleClose(l, c)
    PROVE  IInv'
<1> DEFINE f == conns[c].fd
<1>1. /\ phase[l] = "events" /\ c \in active[l]
      /\ aborted' = (conns[c].state # "CONNECTED" \/ channelMap[l][f] # c)
      /\ conns' = [conns EXCEPT ![c] =
                      [conns[c] EXCEPT !.state = "DISCONNECTED", !.chan = "DELETED"]]
      /\ downs' = [downs EXCEPT ![c] = downs[c] + 1]
      /\ active' = [active EXCEPT ![l] = active[l] \ {c}]
      /\ UNCHANGED <<threadNums, nextLoop, server, backlog, emfile, idleFd, others,
                     channelMap, ups, phase, batch, quit, collided>>
  BY DEF HandleClose, Handles, EventDone, acceptorVars
<1>2. \/ /\ l = Main /\ connections' = [connections EXCEPT ![NameOf(c)] = None]
         /\ queue' = QueueInLoop(queue, conns[c].loop, "destroy", c)
      \/ /\ l # Main /\ connections' = connections
         /\ queue' = QueueInLoop(queue, Main, "remove", c)
  BY DEF HandleClose, RemoveConnectionInLoop, NameOf
<1>3. c \in Made /\ conns[c].loop = l /\ Up(c)
  BY <1>1 DEF IInv, ActiveUp
<1>4. /\ conns[c] \in Conn /\ f \in Fds /\ NameOf(c) \in Keys /\ None \notin Ids
      /\ Main \in Loops
  BY <1>3, MadeConn, Constants DEF IInv
<1>5. server \notin {"new", "gone"}
  BY <1>1 DEF IInv, LoopsInPhase
<1>6. /\ ups[c] = 1 /\ downs[c] = 0 /\ channelMap[l][f] = c
      /\ \/ server = "running" /\ connections[NameOf(c)] = c
         \/ server = "destroying" /\ l # Main /\ Queued(l, "destroy", c)
  <2>1. StageExact(c)
    BY <1>3 DEF IInv, ConnsExact
  <2>2. ~Connecting(c) /\ ~Closing(c) /\ ~Destroyed(c)
    BY <1>3 DEF Up, Connecting, Closing, Destroyed
  <2> QED BY <1>3, <1>5, <2>1, <2>2 DEF StageExact
<1>7. aborted' = FALSE
  BY <1>1, <1>3, <1>6 DEF Up
<1>8. /\ conns \in [Ids -> Conn \cup {NoConn}] /\ downs \in [Ids -> Nat]
      /\ active \in [Loops -> SUBSET (Ids \cup {ListenChannel})]
      /\ connections \in [Keys -> Ids \cup {None}]
      /\ queue \in [Loops -> Seq(Functions)] /\ \A k \in Loops : InOrder(queue[k])
  BY DEF IInv, TypeOK, Conn, Functions, QueuesExact
<1>9. /\ conns' \in [Ids -> Conn \cup {NoConn}]
      /\ conns'[c].state = "DISCONNECTED" /\ conns'[c].chan = "DELETED"
      /\ conns'[c].peer = conns[c].peer /\ conns'[c].fd = f /\ conns'[c].loop = l
      /\ \A d \in Ids : d # c => conns'[d] = conns[d]
  <2>1. [conns[c] EXCEPT !.state = "DISCONNECTED", !.chan = "DELETED"] \in Conn
    BY <1>4 DEF Conn
  <2>2. conns' \in [Ids -> Conn \cup {NoConn}]
    BY <1>1, <1>8, <2>1
  <2> QED BY <1>1, <1>3, <1>4, <1>8, <2>2 DEF Conn
<1>10. /\ downs' \in [Ids -> Nat] /\ downs'[c] = 1
       /\ \A d \in Ids : d # c => downs'[d] = downs[d]
  BY <1>1, <1>6, <1>8
<1>11. Closing(c)' /\ NameOf(c)' = NameOf(c) /\ ~Destroyed(c)'
  BY <1>9 DEF Closing, NameOf, Destroyed
<1>12. Made' = Made \cup {c} /\ Made' = Made /\ Made # {}
  <2>1. \A d \in Ids : conns'[d].loop = conns[d].loop
    BY <1>3, <1>9
  <2> QED BY <1>3, <2>1 DEF Made
<1>13. ASSUME NEW k \in Loops, NEW e \in ToSet(queue[k]), e.conn = c
       PROVE  /\ e = Fn("destroy", c) /\ e.op = "destroy" /\ k = l
              /\ server = "destroying" /\ c \notin Owned
  <2>1. e \in Functions /\ e = Fn(e.op, c) /\ e.op \in {"establish", "destroy", "remove"}
    BY <1>8, <1>13, InToSet, FnForm
  <2>2. FunctionFits(k, e)
    BY DEF IInv, QueuesExact
  <2>3. e.op \notin {"establish", "remove"}
    BY <1>3, <1>13, <2>2 DEF FunctionFits, Connecting, Up
  <2>4. e.op = "destroy" /\ k = l /\ c \notin Owned
    BY <1>3, <1>13, <2>1, <2>2, <2>3 DEF FunctionFits
  <2>5. connections[NameOf(c)] # c
    BY <1>4, <1>8, <2>4 DEF Owned, Range
  <2> QED BY <1>6, <2>1, <2>4, <2>5
<1>14. /\ Fn("destroy", c).conn = c /\ Fn("destroy", c).op = "destroy"
       /\ Fn("remove", c).conn = c /\ Fn("remove", c).op = "remove"
  BY FnForm
<1>15. /\ \E q \in {Fn("destroy", c), Fn("remove", c)}, k \in Loops :
             Grown(queue, queue', k, q)
       /\ \A k \in Loops : \A e \in ToSet(queue'[k]) : e.conn = c => FunctionFits(k, e)'
       /\ StageExact(c)'
       /\ connections' \in [Keys -> Ids \cup {None}]
       /\ \A k \in Keys : /\ connections'[k] # connections[k] =>
                                {connections[k], connections'[k]} \subseteq {c, None}
                          /\ connections'[k] = c => NameOf(c) = k /\ server = "running"
  <2>0. \A k \in Keys : connections[k] = c => k = NameOf(c) /\ server = "running"
    BY <1>4 DEF IInv, OwnedExact
  <2>1. CASE l = Main
    <3>1. server = "running" /\ connections[NameOf(c)] = c
      BY <1>6, <2>1
    <3>2. connections' = [connections EXCEPT ![NameOf(c)] = None]
          /\ queue' = QueueInLoop(queue, Main, "destroy", c)
      BY <1>2, <1>3, <2>1
    <3>3. \A k \in Loops : \A e \in ToSet(queue[k]) : e.conn # c
      BY <1>13, <3>1
    <3>4. Fn("destroy", c) \notin ToSet(queue[Main])
      BY <1>4, <1>14, <3>3
    <3>5. "destroy" \in {"establish", "destroy", "remove"} /\ "destroy" # "establish"
      OBVIOUS
    <3>6. Grown(queue, QueueInLoop(queue, Main, "destroy", c), Main, Fn("destroy", c))
      BY <1>4, <1>8, <3>4, <3>5, QueuedMore
    <3>7. Grown(queue, queue', Main, Fn("destroy", c))
      BY <3>2, <3>6
    <3>8. /\ connections' \in [Keys -> Ids \cup {None}]
          /\ connections'[NameOf(c)] = None
          /\ \A k \in Keys : k # NameOf(c) => connections'[k] = connections[k]
      BY <1>4, <1>8, <3>2
    <3>9. \A k \in Keys : connections'[k] # c
      BY <1>4, <2>0, <3>8
    <3>10. c \notin Owned'
      BY <3>8, <3>9 DEF Owned, Range
    <3>11. ASSUME NEW k \in Loops, NEW e \in ToSet(queue'[k]), e.conn = c
           PROVE  FunctionFits(k, e)'
      <4>1. k = Main /\ e = Fn("destroy", c)
        BY <1>4, <3>3, <3>7, <3>11 DEF Grown
      <4>2. e.op = "destroy" /\ conns'[c].loop = k
        BY <1>9, <1>14, <2>1, <4>1
      <4> QED BY <1>3, <1>11, <1>12, <3>10, <3>11, <4>2 DEF FunctionFits
    <3>12. StageExact(c)'
      <4>1. Queued(l, "destroy", c)'
        BY <1>4, <2>1, <3>7 DEF Queued, Grown
      <4> QED BY <1>1, <1>6, <1>9, <1>10, <1>11, <4>1 DEF StageExact
    <3> QED BY <1>4, <2>1, <3>1, <3>7, <3>8, <3>9, <3>11, <3>12
  <2>2. CASE l # Main
    <3>1. connections' = connections /\ queue' = QueueInLoop(queue, Main, "remove", c)
      BY <1>2, <2>2
    <3>2. Fn("remove", c) \notin ToSet(queue[Main])
      BY <1>4, <1>13, <1>14
    <3>3. "remove" \in {"establish", "destroy", "remove"} /\ "remove" # "establish"
      OBVIOUS
    <3>4. Grown(queue, QueueInLoop(queue, Main, "remove", c), Main, Fn("remove", c))
      BY <1>4, <1>8, <3>2, <3>3, QueuedMore
    <3>5. Grown(queue, queue', Main, Fn("remove", c))
      BY <3>1, <3>4
    <3>6. ASSUME NEW k \in Loops, NEW e \in ToSet(queue'[k]), e.conn = c
          PROVE  FunctionFits(k, e)'
      <4>1. CASE e \in ToSet(queue[k])
        <5>1. e.op = "destroy" /\ k = l /\ c \notin Owned
          BY <1>13, <3>6, <4>1
        <5>2. c \notin Owned'
          BY <3>1, <5>1 DEF Owned
        <5> QED BY <1>3, <1>9, <1>11, <1>12, <3>6, <5>1, <5>2 DEF FunctionFits
      <4>2. CASE e = Fn("remove", c) /\ k = Main
        <5>1. e.op = "remove" /\ k = Main /\ conns'[c].loop # Main
              /\ conns'[c].state = "DISCONNECTED"
          BY <1>9, <1>14, <2>2, <4>2
        <5>2. server' = "running" => connections'[NameOf(c)'] = c
          BY <1>1, <1>6, <1>11, <3>1
        <5> QED BY <1>3, <1>11, <1>12, <3>6, <5>1, <5>2 DEF FunctionFits
      <4> QED BY <1>4, <3>5, <4>1, <4>2 DEF Grown
    <3>7. StageExact(c)'
      <4>1. Queued(l, "destroy", c) => Queued(l, "destroy", c)'
        BY <2>2, <3>5 DEF Queued, Grown
      <4>2. \/ server' = "running" /\ connections'[NameOf(c)'] = c
            \/ Queued(l, "destroy", c)'
        BY <1>1, <1>6, <1>11, <3>1, <4>1
      <4> QED BY <1>1, <1>6, <1>9, <1>10, <1>11, <2>2, <4>2 DEF StageExact
    <3> QED BY <1>4, <1>8, <2>0, <3>1, <3>5, <3>6, <3>7
  <2> QED BY <2>1, <2>2
<1>16. /\ queue' \in [Loops -> Seq(Functions)]
       /\ \A k \in Loops : InOrder(queue'[k]) /\ Len(queue'[k]) >= Len(queue[k])
       /\ \A k \in Loops : \A e \in Functions :
             e.conn # c => (e \in ToSet(queue'[k]) <=> e \in ToSet(queue[k]))
  <2>1. PICK q \in {Fn("destroy", c), Fn("remove", c)}, m \in Loops :
               Grown(queue, queue', m, q)
    BY <1>15
  <2>2. \A k \in Loops : \A e \in Functions :
             e.conn # c => (e \in ToSet(queue'[k]) <=> e \in ToSet(queue[k]))
    <3> SUFFICES ASSUME NEW k \in Loops, NEW e \in Functions, e.conn # c
                 PROVE  e \in ToSet(queue'[k]) <=> e \in ToSet(queue[k])
      OBVIOUS
    <3>1. e # q
      BY <1>14, <2>1
    <3>2. CASE k = m
      BY <2>1, <3>1, <3>2 DEF Grown
    <3>3. CASE k # m
      BY <2>1, <3>3 DEF Grown
    <3> QED BY <3>2, <3>3
  <2> QED BY <2>1, <2>2 DEF Grown
<1>17. /\ QueuesExact' /\ ConnsExact' /\ MapExact' /\ OwnedExact'
       /\ \A d \in Made : d # c => SameConn(d) /\ (Alive(d)' => Alive(d))
  <2>1. \A k \in Keys : /\ connections'[k] # connections[k] =>
                              {connections[k], connections'[k]} \subseteq {c, None}
                        /\ connections'[k] = c => NameOf(c)' = k /\ server = "running"
    BY <1>11, <1>15
  <2>2. \A k \in Loops, g \in Fds :
           /\ channelMap'[k][g] # channelMap[k][g] =>
                 {channelMap[k][g], channelMap'[k][g]} \subseteq {c, None}
           /\ channelMap'[k][g] = c => /\ conns'[c].loop = k /\ conns'[c].fd = g
                                       /\ Up(c)' \/ Closing(c)'
    <3>1. \A k \in Loops, g \in Fds : channelMap[k][g] = c => k = l /\ g = f
      BY <1>3, <1>4 DEF IInv, MapExact
    <3> QED BY <1>1, <1>9, <1>11, <3>1
  <2>3. \A d \in Ids : d # c => /\ conns'[d] = conns[d]
                                /\ ups'[d] = ups[d] /\ downs'[d] = downs[d]
    BY <1>1, <1>9, <1>10
  <2>4. server' = server
    BY <1>1
  <2> QED BY <1>12, <1>15, <1>16, <2>1, <2>2, <2>3, <2>4, OneChanges
<1>18. FdsDiffer'
  <2>1. Alive(c)
    BY <1>3, <1>5, StageAlive DEF Up, Destroyed
  <2> QED BY <1>1, <1>9, <1>12, <1>17, <2>1, NoNewLife DEF SameConn
<1>19. /\ active' \in [Loops -> SUBSET (Ids \cup {ListenChannel})]
       /\ c \notin active'[l] /\ \A k \in Loops : active'[k] \subseteq active[k]
       /\ \A k \in Loops : ListenChannel \in active'[k] <=> ListenChannel \in active[k]
  BY <1>1, <1>8, Constants
<1>20. TypeOK'
  BY <1>1, <1>7, <1>9, <1>10, <1>15, <1>16, <1>19 DEF IInv, TypeOK, Functions, Conn
<1>21. LoopsInPhase'
  <2>1. \A k \in Loops : batch[k] \in Nat /\ Len(queue[k]) \in Nat /\ Len(queue'[k]) \in Nat
    BY <1>8, <1>16, InToSet DEF IInv, TypeOK
  <2>2. \A k \in Loops : batch'[k] <= Len(queue'[k])
    BY <1>1, <1>16, <2>1 DEF IInv, LoopsInPhase
  <2>3. server # "new"
    BY <1>5
  <2> QED BY <1>1, <1>12, <1>19, <2>2, <2>3 DEF IInv, LoopsInPhase
<1>22. ActiveUp'
  <2> SUFFICES ASSUME NEW k \in Loops, NEW d \in active'[k] \cap Ids
               PROVE  d \in Made' /\ conns'[d].loop = k /\ Up(d)'
    BY DEF ActiveUp
  <2>1. d \in Made /\ conns[d].loop = k /\ Up(d)
    BY <1>19 DEF IInv, ActiveUp
  <2>2. d # c
    BY <1>3, <1>19, <2>1
  <2> QED BY <1>9, <1>12, <2>1, <2>2 DEF Up
<1>23. IdsInOrder' /\ AcceptorExact'
  BY <1>1, <1>3, <1>4, <1>10, <1>12, <1>19 DEF IInv, IdsInOrder, AcceptorExact
<1> QED BY <1>7, <1>17, <1>18, <1>20, <1>21, <1>22, <1>23 DEF IInv

\* The bound of nextLoopIndex_.
LEMMA MaxOfTwo ==
    ASSUME NEW t \in Nat
    PROVE  Max({1, t}) = IF t = 0 THEN 1 ELSE t
<1> DEFINE m == IF t = 0 THEN 1 ELSE t
<1>1. m \in {1, t} /\ \A y \in {1, t} : m >= y
  OBVIOUS
<1>2. \A x \in {1, t} : (\A y \in {1, t} : x >= y) => x = m
  OBVIOUS
<1> HIDE DEF m
<1>3. Max({1, t}) \in {1, t} /\ \A y \in {1, t} : Max({1, t}) >= y
  BY <1>1, Zenon DEF Max
<1>4. Max({1, t}) = m
  BY <1>2, <1>3
<1> QED BY <1>4 DEF m

\* A loop for the next connection, in turn.
LEMMA NextLoopOk ==
    ASSUME TypeOK
    PROVE  /\ GetNextLoop \in Loops
           /\ (IF threadNums = 0 THEN nextLoop ELSE NextLoopIndex)
                 \in 1..Max({1, threadNums})
<1>1. threadNums \in 0..MaxThreads /\ nextLoop \in 1..Max({1, threadNums})
  BY DEF TypeOK
<1>2. Max({1, threadNums}) = IF threadNums = 0 THEN 1 ELSE threadNums
  BY <1>1, MaxOfTwo, Constants
<1>3. MaxThreads \in Nat
  BY Constants
<1>4. GetNextLoop \in Loops
  BY <1>1, <1>2, <1>3 DEF GetNextLoop, Loops, Main
<1>5. (IF threadNums = 0 THEN nextLoop ELSE NextLoopIndex)
         \in 1..(IF threadNums = 0 THEN 1 ELSE threadNums)
  BY <1>1, <1>2, <1>3 DEF NextLoopIndex
<1> QED BY <1>2, <1>4, <1>5

\* The next id is one that no connection has, and nothing refers to it.
LEMMA NextIdFresh ==
    ASSUME IInv, backlog # <<>>, NEW c, c = Cardinality(Made) + 1
    PROVE  /\ c \in Ids /\ c \notin Made /\ ups[c] = 0 /\ downs[c] = 0
           /\ Cardinality(Made) \in Nat /\ IsFiniteSet(Made)
           /\ \A k \in Keys : connections[k] # c
           /\ \A l \in Loops : \A e \in ToSet(queue[l]) : e.conn # c
           /\ \A l \in Loops, f \in Fds : channelMap[l][f] # c
<1> DEFINE n == Cardinality(Made)
<1>1. IsFiniteSet(Made) /\ n \in Nat
  <2>1. Made \subseteq 1..MaxConns /\ IsFiniteSet(1..MaxConns)
    BY FS_Interval, Constants DEF Made, Ids
  <2> QED BY <2>1, FS_Subset, FS_CardinalityType
<1>2. backlog \in Seq(Peers) /\ Len(backlog) \in Nat
  BY InToSet DEF IInv, TypeOK
<1>3. Len(backlog) >= 1
  BY <1>2, EmptySeq
<1>4. Made = 1..n /\ n + Len(backlog) <= MaxConns
  BY DEF IInv, IdsInOrder
<1> HIDE DEF n
<1>5. c = n + 1
  BY DEF n
<1>6. c \in Ids /\ c \notin Made /\ c # None
  BY <1>1, <1>2, <1>3, <1>4, <1>5, Constants DEF Ids, None
<1>7. ups[c] = 0 /\ downs[c] = 0
  BY <1>6 DEF IInv, IdsInOrder
<1>8. \A k \in Keys : connections[k] # c
  BY <1>6 DEF IInv, OwnedExact
<1>9. \A l \in Loops : \A e \in ToSet(queue[l]) : e.conn # c
  BY <1>6 DEF IInv, QueuesExact, FunctionFits
<1>10. \A l \in Loops, f \in Fds : channelMap[l][f] # c
  BY <1>6 DEF IInv, MapExact
<1> QED BY <1>1, <1>6, <1>7, <1>8, <1>9, <1>10 DEF n

\* A free descriptor is of no connection, and has no channel.
LEMMA FreeFdUnused ==
    ASSUME IInv, server # "gone", NEW f \in FreeFds
    PROVE  /\ \A d \in Made : Alive(d) => conns[d].fd # f
           /\ \A l \in Loops : channelMap[l][f] = None
<1>1. f \in Fds /\ \A d \in Made : Alive(d) => conns[d].fd # f
  BY DEF FreeFds
<1>2. ASSUME NEW l \in Loops, channelMap[l][f] # None PROVE FALSE
  <2> DEFINE d == channelMap[l][f]
  <2>1. d \in Made /\ conns[d].fd = f /\ (Up(d) \/ Closing(d))
    BY <1>1, <1>2 DEF IInv, MapExact
  <2> HIDE DEF d
  <2>2. Alive(d)
    BY <2>1, StageAlive DEF Up, Closing, Destroyed
  <2> QED BY <1>1, <2>1, <2>2
<1> QED BY <1>1, <1>2

\* The backlog without the peer that was accepted.
LEMMA BacklogTail ==
    ASSUME IInv, backlog # <<>>
    PROVE  /\ Tail(backlog) \in Seq(Peers) /\ Len(Tail(backlog)) = Len(backlog) - 1
           /\ Len(backlog) \in Nat /\ 1 \in DOMAIN backlog /\ Head(backlog) = backlog[1]
           /\ Head(backlog) \in Peers
<1>1. backlog \in Seq(Peers) /\ Len(backlog) \in Nat /\ DOMAIN backlog = 1..Len(backlog)
  BY InToSet DEF IInv, TypeOK
<1>2. /\ Tail(backlog) \in Seq(Peers) /\ Len(Tail(backlog)) = Len(backlog) - 1
      /\ Head(backlog) = backlog[1] /\ Head(backlog) \in Peers
  BY <1>1, HeadTailProperties
<1>3. Len(backlog) >= 1
  BY <1>1, EmptySeq
<1> QED BY <1>1, <1>2, <1>3

\* Acceptor::handleRead and newConnectionCallback, for a name that is free.
LEMMA AcceptKeeps ==
    ASSUME IInv, Accept, ~collided'
    PROVE  IInv'
<1>0. PICK c, l, f, p : /\ c = Cardinality(Made) + 1 /\ l = GetNextLoop
                        /\ f = Min(FreeFds) /\ p = Head(backlog)
  OBVIOUS
<1> DEFINE r == [peer |-> p, fd |-> f, loop |-> l, state |-> "CONNECTING",
                 chan |-> "NEW", closed |-> FALSE]
           ru == [r EXCEPT !.state = "CONNECTED", !.chan = "ADDED"]
           name == ConnectionName(p)
<1>1. /\ phase[Main] = "events" /\ ListenChannel \in active[Main] /\ emfile = "no"
      /\ FreeFds # {} /\ backlog # <<>> /\ backlog' = Tail(backlog)
      /\ nextLoop' = IF threadNums = 0 THEN nextLoop ELSE NextLoopIndex
      /\ connections' = [connections EXCEPT ![name] = c]
      /\ active' = [active EXCEPT ![Main] = active[Main] \ {ListenChannel}]
      /\ UNCHANGED <<threadNums, server, emfile, idleFd, others, phase, batch, quit>>
  BY <1>0 DEF Accept, Handles, EventDone, NewConnection
<1>2. \/ l = Main /\ Establish(c, r) /\ queue' = queue
      \/ /\ l # Main /\ conns' = [conns EXCEPT ![c] = r]
         /\ queue' = QueueInLoop(queue, l, "establish", c)
         /\ UNCHANGED <<channelMap, ups, downs, aborted>>
  BY <1>0 DEF Accept, NewConnection
<1>3. server = "running"
  BY <1>1 DEF IInv, LoopsInPhase
<1>4. /\ c \in Ids /\ c \notin Made /\ ups[c] = 0 /\ downs[c] = 0
      /\ Cardinality(Made) \in Nat /\ IsFiniteSet(Made)
      /\ \A k \in Keys : connections[k] # c
      /\ \A k \in Loops : \A e \in ToSet(queue[k]) : e.conn # c
      /\ \A k \in Loops, g \in Fds : channelMap[k][g] # c
  BY <1>0, <1>1, NextIdFresh
<1>5. /\ l \in Loops /\ nextLoop' \in 1..Max({1, threadNums})
      /\ Main \in Loops /\ None \notin Ids /\ ListenChannel \notin Ids
  BY <1>0, <1>1, NextLoopOk, Constants DEF IInv
<1>6. /\ f \in Fds /\ (\A d \in Made : Alive(d) => conns[d].fd # f)
      /\ \A k \in Loops : channelMap[k][f] = None
  BY <1>0, <1>1, <1>3, MinFree, FreeFdUnused
<1>7. /\ p \in Peers /\ p = backlog[1] /\ 1 \in DOMAIN backlog /\ name \in Keys
      /\ connections[name] = None
  <2>1. p \in Peers /\ p = backlog[1] /\ 1 \in DOMAIN backlog
    BY <1>0, <1>1, BacklogTail
  <2>2. name \in Keys
    BY <2>1 DEF Keys
  <2>3. connections[name] = None
    BY <1>0 DEF Accept, NewConnection
  <2> QED BY <2>1, <2>2, <2>3
<1>8. /\ r \in Conn /\ ru \in Conn
      /\ ru.peer = p /\ ru.fd = f /\ ru.loop = l
      /\ ru.state = "CONNECTED" /\ ru.chan = "ADDED"
  BY <1>5, <1>6, <1>7 DEF Conn
<1>9. /\ r.peer = p /\ r.fd = f /\ r.loop = l
      /\ r.state = "CONNECTING" /\ r.chan = "NEW"
  OBVIOUS
<1>10. /\ conns \in [Ids -> Conn \cup {NoConn}] /\ ups \in [Ids -> Nat]
       /\ downs \in [Ids -> Nat]
       /\ channelMap \in [Loops -> [Fds -> Ids \cup {None}]]
       /\ active \in [Loops -> SUBSET (Ids \cup {ListenChannel})]
       /\ connections \in [Keys -> Ids \cup {None}]
       /\ queue \in [Loops -> Seq(Functions)] /\ \A k \in Loops : InOrder(queue[k])
  BY DEF IInv, TypeOK, Conn, Functions, QueuesExact
<1>11. /\ connections' \in [Keys -> Ids \cup {None}] /\ connections'[name] = c
       /\ \A k \in Keys : k # name => connections'[k] = connections[k]
  BY <1>1, <1>4, <1>7, <1>10
<1>12. \/ /\ l = Main /\ conns' = [conns EXCEPT ![c] = ru] /\ queue' = queue
          /\ channelMap' = [channelMap EXCEPT ![l][f] = c]
          /\ ups' = [ups EXCEPT ![c] = 1] /\ aborted' = FALSE /\ downs' = downs
       \/ /\ l # Main /\ conns' = [conns EXCEPT ![c] = r]
          /\ queue' = QueueInLoop(queue, l, "establish", c)
          /\ UNCHANGED <<channelMap, ups, downs, aborted>>
  <2>1. CASE l = Main /\ Establish(c, r) /\ queue' = queue
    <3>1. /\ conns' = [conns EXCEPT ![c] = ru]
          /\ channelMap' = [channelMap EXCEPT ![r.loop][r.fd] = c]
          /\ ups' = [ups EXCEPT ![c] = ups[c] + 1] /\ downs' = downs
          /\ aborted' = (r.state # "CONNECTING" \/ channelMap[r.loop][r.fd] # None)
      BY <2>1 DEF Establish
    <3> HIDE DEF r, ru
    <3>2. aborted' = FALSE /\ ups[c] + 1 = 1
      <4>1. r.state = "CONNECTING" /\ channelMap[r.loop][r.fd] = None
        BY <1>5, <1>6, <1>9
      <4>2. aborted' = FALSE
        BY <3>1, <4>1
      <4> QED BY <1>4, <4>2
    <3> QED BY <1>9, <2>1, <3>1, <3>2
  <2> QED BY <1>2, <2>1
<1> HIDE DEF r, ru, name
<1>13. /\ conns' \in [Ids -> Conn \cup {NoConn}]
       /\ conns'[c].peer = p /\ conns'[c].fd = f /\ conns'[c].loop = l
       /\ \A d \in Ids : d # c => conns'[d] = conns[d]
       /\ l = Main => conns'[c] = ru
       /\ l # Main => conns'[c] = r
  <2>1. \E x \in {r, ru} : /\ conns' = [conns EXCEPT ![c] = x]
                           /\ (l = Main => x = ru) /\ (l # Main => x = r)
    BY <1>12
  <2>2. PICK x \in {r, ru} : /\ conns' = [conns EXCEPT ![c] = x]
                             /\ (l = Main => x = ru) /\ (l # Main => x = r)
    BY <2>1
  <2>3. x \in Conn /\ x.peer = p /\ x.fd = f /\ x.loop = l
    BY <1>8, <1>9, <2>2
  <2>4. conns' \in [Ids -> Conn \cup {NoConn}] /\ conns'[c] = x
        /\ \A d \in Ids : d # c => conns'[d] = conns[d]
    BY <1>4, <1>10, <2>2, <2>3
  <2> QED BY <2>2, <2>3, <2>4
<1>14. NameOf(c)' = name /\ (l = Main => Up(c)') /\ (l # Main => Connecting(c)')
  BY <1>8, <1>9, <1>13 DEF NameOf, Up, Connecting, name
<1>15. Made' = Made \cup {c}
  <2>1. \A d \in Ids : d # c => conns'[d].loop = conns[d].loop
    BY <1>13
  <2> QED BY <1>4, <1>5, <1>13, <2>1 DEF Made
<1>16. /\ queue' \in [Loops -> Seq(Functions)]
       /\ \A k \in Loops : InOrder(queue'[k]) /\ Len(queue'[k]) >= Len(queue[k])
       /\ \A k \in Loops : \A e \in ToSet(queue'[k]) :
             e \in ToSet(queue[k]) \/ (e = Fn("establish", c) /\ k = l /\ l # Main)
       /\ \A k \in Loops : ToSet(queue[k]) \subseteq ToSet(queue'[k])
       /\ l # Main => Queued(l, "establish", c)'
  <2>1. CASE l = Main
    <3>1. queue' = queue
      BY <1>12, <2>1
    <3>2. \A k \in Loops : Len(queue[k]) \in Nat
      BY <1>10, InToSet
    <3> QED BY <1>10, <2>1, <3>1, <3>2
  <2>2. CASE l # Main
    <3>1. Fn("establish", c).conn = c /\ Fn("destroy", c).conn = c
      BY <1>4, FnForm
    <3>2. Fn("establish", c) \notin ToSet(queue[l]) /\ Fn("destroy", c) \notin ToSet(queue[l])
      BY <1>4, <1>5, <3>1
    <3>3. "establish" \in {"establish", "destroy", "remove"}
      OBVIOUS
    <3>4. Grown(queue, QueueInLoop(queue, l, "establish", c), l, Fn("establish", c))
      BY <1>4, <1>5, <1>10, <3>2, <3>3, QueuedMore
    <3>5. Grown(queue, queue', l, Fn("establish", c))
      BY <1>12, <2>2, <3>4
    <3> QED BY <1>5, <2>2, <3>5 DEF Grown, Queued
  <2> QED BY <2>1, <2>2
<1>17. /\ channelMap' \in [Loops -> [Fds -> Ids \cup {None}]]
       /\ l = Main => channelMap'[l][f] = c
       /\ \A k \in Loops, g \in Fds :
             \/ channelMap'[k][g] = channelMap[k][g]
             \/ channelMap'[k][g] = c /\ k = l /\ g = f /\ l = Main
  <2>1. CASE l = Main
    <3>1. channelMap' = [channelMap EXCEPT ![l][f] = c]
      BY <1>12, <2>1
    <3> QED BY <1>4, <1>5, <1>6, <1>10, <2>1, <3>1
  <2>2. CASE l # Main
    BY <1>10, <1>12, <2>2
  <2> QED BY <2>1, <2>2
<1>18. /\ ups' \in [Ids -> Nat] /\ downs' = downs /\ aborted' = FALSE
       /\ ups'[c] = (IF l = Main THEN 1 ELSE 0) /\ \A d \in Ids : d # c => ups'[d] = ups[d]
  <2>1. aborted = FALSE
    BY DEF IInv, TypeOK
  <2>2. CASE l = Main
    BY <1>4, <1>10, <1>12, <2>2
  <2>3. CASE l # Main
    BY <1>4, <1>10, <1>12, <2>1, <2>3
  <2> QED BY <2>2, <2>3
<1>19. ASSUME NEW k \in Loops, NEW e \in ToSet(queue'[k]), e.conn = c
       PROVE  FunctionFits(k, e)'
  <2>1. e = Fn("establish", c) /\ k = l /\ l # Main
    BY <1>4, <1>16, <1>19
  <2>2. e.op = "establish"
    BY <1>4, <2>1, FnForm
  <2> QED BY <1>13, <1>14, <1>15, <1>19, <2>1, <2>2 DEF FunctionFits
<1>20. StageExact(c)'
  <2>1. server' = "running" /\ connections'[NameOf(c)'] = c
    BY <1>1, <1>3, <1>11, <1>14
  <2>2. CASE l = Main
    BY <1>4, <1>13, <1>14, <1>17, <1>18, <2>1, <2>2 DEF StageExact
  <2>3. CASE l # Main
    BY <1>4, <1>13, <1>14, <1>16, <1>18, <2>1, <2>3 DEF StageExact
  <2> QED BY <2>2, <2>3
<1>21. /\ QueuesExact' /\ ConnsExact' /\ MapExact' /\ OwnedExact'
       /\ \A d \in Made : d # c => SameConn(d) /\ (Alive(d)' => Alive(d))
  <2>1. \A k \in Keys : /\ connections'[k] # connections[k] =>
                              {connections[k], connections'[k]} \subseteq {c, None}
                        /\ connections'[k] = c => NameOf(c)' = k /\ server = "running"
    BY <1>3, <1>4, <1>7, <1>11, <1>14
  <2>2. \A k \in Loops, g \in Fds :
           /\ channelMap'[k][g] # channelMap[k][g] =>
                 {channelMap[k][g], channelMap'[k][g]} \subseteq {c, None}
           /\ channelMap'[k][g] = c => /\ conns'[c].loop = k /\ conns'[c].fd = g
                                       /\ Up(c)' \/ Closing(c)'
    BY <1>4, <1>6, <1>13, <1>14, <1>17
  <2>3. \A d \in Ids : d # c => /\ conns'[d] = conns[d]
                                /\ ups'[d] = ups[d] /\ downs'[d] = downs[d]
    BY <1>13, <1>18
  <2>4. server' = server
    BY <1>1
  <2>5. \A k \in Loops : \A e \in Functions :
           e.conn # c => (e \in ToSet(queue'[k]) <=> e \in ToSet(queue[k]))
    <3>1. Fn("establish", c).conn = c
      BY <1>4, FnForm
    <3> QED BY <1>16, <3>1
  <2>6. \A k \in Loops : InOrder(queue'[k])
    BY <1>16
  <2> QED BY <1>4, <1>11, <1>15, <1>16, <1>19, <1>20, <2>1, <2>2, <2>3, <2>4, <2>5,
             <2>6, OneChanges
<1>22. FdsDiffer'
  <2> SUFFICES ASSUME NEW d \in Made', NEW e \in Made', d # e, Alive(d)', Alive(e)'
               PROVE  conns'[d].fd # conns'[e].fd
    BY DEF FdsDiffer
  <2>1. CASE d # c /\ e # c
    BY <1>3, <1>15, <1>21, <2>1 DEF IInv, FdsDiffer, SameConn
  <2>2. CASE d = c
    BY <1>6, <1>13, <1>15, <1>21, <2>2 DEF SameConn
  <2>3. CASE e = c
    BY <1>6, <1>13, <1>15, <1>21, <2>3 DEF SameConn
  <2> QED BY <2>1, <2>2, <2>3
<1>23. backlog' \in Seq(Peers) /\ Len(backlog') = Len(backlog) - 1
  BY <1>1, BacklogTail
<1>24. IdsInOrder'
  <2> DEFINE n == Cardinality(Made)
  <2>1. Made = 1..n /\ n \in Nat /\ c = n + 1 /\ n + Len(backlog) <= MaxConns
    BY <1>0, <1>4 DEF IInv, IdsInOrder
  <2>2. Cardinality(Made') = n + 1
    BY <1>4, <1>15, FS_AddElement
  <2> HIDE DEF n
  <2>3. Made' = 1..(n + 1)
    BY <1>15, <2>1
  <2>4. (n + 1) + Len(backlog') <= MaxConns
    <3>1. Len(backlog) \in Nat
      BY <1>1, BacklogTail
    <3> QED BY <1>23, <2>1, <3>1, Constants
  <2>5. \A d \in Ids \ Made' : ups'[d] = 0 /\ downs'[d] = 0
    BY <1>15, <1>18 DEF IInv, IdsInOrder
  <2> QED BY <2>2, <2>3, <2>4, <2>5 DEF IdsInOrder
<1>25. /\ active' \in [Loops -> SUBSET (Ids \cup {ListenChannel})]
       /\ ListenChannel \notin active'[Main] /\ \A k \in Loops : active'[k] \subseteq active[k]
  BY <1>1, <1>5, <1>10
<1>26. collided' = FALSE
  BY DEF Accept, NewConnection
<1>27. TypeOK'
  BY <1>1, <1>5, <1>11, <1>13, <1>16, <1>17, <1>18, <1>23, <1>25, <1>26
     DEF IInv, TypeOK, Functions, Conn
<1>28. LoopsInPhase'
  <2>1. \A k \in Loops : batch[k] \in Nat /\ Len(queue[k]) \in Nat /\ Len(queue'[k]) \in Nat
    BY <1>10, <1>16, InToSet DEF IInv, TypeOK
  <2>2. \A k \in Loops : batch'[k] <= Len(queue'[k])
    BY <1>1, <1>16, <2>1 DEF IInv, LoopsInPhase
  <2> QED BY <1>1, <1>3, <1>25, <2>2 DEF IInv, LoopsInPhase
<1>29. ActiveUp' /\ AcceptorExact'
  <2>1. AcceptorExact'
    BY <1>1, <1>25 DEF AcceptorExact
  <2>2. ASSUME NEW k \in Loops, NEW d \in active'[k] \cap Ids
        PROVE  d \in Made' /\ conns'[d].loop = k /\ Up(d)'
    <3>1. d \in Made /\ conns[d].loop = k /\ Up(d)
      BY <1>25, <2>2 DEF IInv, ActiveUp
    <3>2. d # c
      BY <1>4, <3>1
    <3> QED BY <1>13, <1>15, <3>1, <3>2 DEF Up
  <2> QED BY <2>1, <2>2 DEF ActiveUp
<1> QED BY <1>18, <1>21, <1>22, <1>23, <1>24, <1>27, <1>28, <1>29 DEF IInv

---------------------------------------------------------------------------
(* The end of the server.                                                  *)

\* The functions ~TcpServer queues to loop l.
LastFunctions(l) == {Fn("destroy", c) : c \in {d \in Owned : conns[d].loop = l /\ l # Main}}

\* What is in connections_ is of this server, under its name and not destroyed.
LEMMA OwnedConn ==
    ASSUME IInv, NEW c \in Owned
    PROVE  /\ c \in Made /\ c \in Ids /\ connections[NameOf(c)] = c /\ ~Destroyed(c)
           /\ server = "running"
           /\ \A l \in Loops : Fn("destroy", c) \notin ToSet(queue[l])
<1>1. connections \in [Keys -> Ids \cup {None}]
  BY DEF IInv, TypeOK
<1>2. PICK k \in Keys : connections[k] = c /\ c # None
  BY <1>1 DEF Owned, Range
<1>3. c \in Made /\ connections[NameOf(c)] = c /\ server = "running"
  BY <1>2 DEF IInv, OwnedExact
<1>4. c \in Ids /\ StageExact(c)
  BY <1>3 DEF IInv, ConnsExact, Made
<1>5. ~Destroyed(c)
  BY <1>4 DEF StageExact, Connecting, Up, Closing, Destroyed
<1>6. Fn("destroy", c).op = "destroy" /\ Fn("destroy", c).conn = c
  BY <1>4, FnForm
<1>7. \A l \in Loops : Fn("destroy", c) \notin ToSet(queue[l])
  BY <1>6 DEF IInv, QueuesExact, FunctionFits
<1> QED BY <1>3, <1>4, <1>5, <1>7

\* A queue with the functions of ~TcpServer behind it.
LEMMA LastQueue ==
    ASSUME IInv, NEW l \in Loops,
           NEW s, s = queue[l] \o SetToSeq(LastFunctions(l))
    PROVE  /\ s \in Seq(Functions) /\ InOrder(s) /\ Len(s) >= Len(queue[l])
           /\ ToSet(s) = ToSet(queue[l]) \cup LastFunctions(l)
<1>0. PICK F : F = LastFunctions(l)
  OBVIOUS
<1>1. F \subseteq Functions /\ \A e \in F : e.op = "destroy"
  BY <1>0, OwnedConn, FnForm DEF LastFunctions
<1>2. IsFiniteSet(F)
  <2>1. IsFiniteSet(Ids)
    BY FS_Interval, Constants DEF Ids
  <2>2. Owned \subseteq Ids
    BY OwnedConn
  <2>3. IsFiniteSet({d \in Owned : conns[d].loop = l /\ l # Main})
    BY <2>1, <2>2, FS_Subset
  <2>4. PICK G : G = {d \in Owned : conns[d].loop = l /\ l # Main}
    OBVIOUS
  <2>5. PICK h : h = [d \in G |-> Fn("destroy", d)]
    OBVIOUS
  <2>6. \A x \in F : \E d \in G : h[d] = x
    BY <1>0, <2>4, <2>5 DEF LastFunctions
  <2>7. h \in [G -> F]
    BY <1>0, <2>4, <2>5 DEF LastFunctions
  <2>8. h \in Surjection(G, F)
    BY <2>6, <2>7 DEF Surjection
  <2> QED BY <2>3, <2>4, <2>8, FS_Surjection
<1>3. PICK t : t = SetToSeq(F)
  OBVIOUS
<1>4. /\ t \in Seq(F) /\ ToSet(t) = F
      /\ \A i, j \in DOMAIN t : t[i] = t[j] => i = j
  BY <1>2, <1>3, SetAsSequence
<1>5. t \in Seq(Functions)
  BY <1>1, <1>4
<1>6. InOrder(t)
  <2>1. ASSUME NEW i \in DOMAIN t, NEW c \in Ids, t[i] = Fn("establish", c) PROVE FALSE
    <3>1. t[i] \in F
      BY <1>4 DEF ToSet
    <3>2. Fn("establish", c).op = "establish"
      BY FnForm
    <3> QED BY <1>1, <2>1, <3>1, <3>2
  <2> QED BY <1>4, <2>1 DEF InOrder
<1>7. queue[l] \in Seq(Functions) /\ InOrder(queue[l])
  BY DEF IInv, TypeOK, Functions, QueuesExact
<1>8. ToSet(queue[l]) \cap ToSet(t) = {}
  BY <1>0, <1>4, OwnedConn DEF LastFunctions
<1>9. \A c \in Ids : Fn("establish", c) \notin ToSet(t)
  <2>1. \A c \in Ids : Fn("establish", c).op = "establish"
    BY FnForm
  <2> QED BY <1>1, <1>4, <2>1
<1>10. PICK q : q = queue[l]
  OBVIOUS
<1>11. q \in Seq(Functions) /\ InOrder(q) /\ ToSet(q) \cap ToSet(t) = {}
  BY <1>7, <1>8, <1>10
<1>12. /\ q \o t \in Seq(Functions) /\ Len(q \o t) = Len(q) + Len(t)
       /\ ToSet(q \o t) = ToSet(q) \cup ToSet(t) /\ InOrder(q \o t)
  BY <1>5, <1>6, <1>9, <1>11, ConcatOrder
<1>13. Len(q) \in Nat /\ Len(t) \in Nat
  BY <1>5, <1>11, InToSet
<1>14. Len(q \o t) >= Len(q)
  BY <1>12, <1>13
<1> QED BY <1>0, <1>3, <1>4, <1>10, <1>12, <1>14

\* ~TcpServer: the connections of the main loop, and the queues of the others.
LEMMA DestroyServerKeeps ==
    ASSUME IInv, DestroyServer
    PROVE  IInv'
<1>0. PICK D : D = {c \in Owned : conns[c].loop = Main}
  OBVIOUS
<1>1. /\ server = "running" /\ phase[Main] = "out" /\ server' = "destroying"
      /\ connections' = [k \in Keys |-> None] /\ Destroy(D)
      /\ queue' = [l \in Loops |-> queue[l] \o SetToSeq(LastFunctions(l))]
      /\ backlog' = <<>> /\ idleFd' = None
      /\ UNCHANGED <<threadNums, nextLoop, emfile, others, ups, phase, active, batch, quit,
                     collided>>
  BY <1>0 DEF DestroyServer, AcceptorGone, LastFunctions, Fn
<1>2. \A c \in Owned : /\ c \in Made /\ c \in Ids /\ connections[NameOf(c)] = c
                       /\ ~Destroyed(c)
                       /\ \A l \in Loops : Fn("destroy", c) \notin ToSet(queue[l])
  BY OwnedConn
<1>3. /\ queue' \in [Loops -> Seq(Functions)]
      /\ \A l \in Loops : /\ InOrder(queue'[l]) /\ Len(queue'[l]) >= Len(queue[l])
                          /\ ToSet(queue'[l]) = ToSet(queue[l]) \cup LastFunctions(l)
  <2>1. ASSUME NEW l \in Loops
        PROVE  /\ queue'[l] \in Seq(Functions)
               /\ InOrder(queue'[l]) /\ Len(queue'[l]) >= Len(queue[l])
               /\ ToSet(queue'[l]) = ToSet(queue[l]) \cup LastFunctions(l)
    BY <1>1, LastQueue
  <2> QED BY <1>1, <2>1
<1>4. ASSUME NEW c \in D
      PROVE  /\ c \in Made /\ c \in Ids /\ conns[c].loop = Main /\ Up(c) /\ ups[c] = 1
             /\ downs[c] = 0 /\ channelMap[Main][conns[c].fd] = c
             /\ conns[c] \in Conn
  <2>1. c \in Owned /\ conns[c].loop = Main /\ c \in Made /\ c \in Ids /\ ~Destroyed(c)
        /\ Fn("destroy", c) \notin ToSet(queue[Main])
    BY <1>0, <1>2, Constants
  <2>2. StageExact(c) /\ conns[c] \in Conn
    BY <2>1, MadeConn DEF IInv, ConnsExact
  <2> QED BY <1>1, <2>1, <2>2 DEF StageExact, Queued
<1>5. /\ conns \in [Ids -> Conn \cup {NoConn}] /\ downs \in [Ids -> Nat]
      /\ channelMap \in [Loops -> [Fds -> Ids \cup {None}]]
  BY DEF IInv, TypeOK, Conn
<1>6. /\ conns' \in [Ids -> Conn \cup {NoConn}]
      /\ \A c \in D : /\ Destroyed(c)' /\ conns'[c].loop = Main
                      /\ conns'[c].peer = conns[c].peer /\ conns'[c].fd = conns[c].fd
      /\ \A c \in Ids \ D : conns'[c] = conns[c]
  <2>1. conns' = [c \in Ids |-> IF c \in D
                    THEN [conns[c] EXCEPT !.chan = "NEW", !.state =
                            IF conns[c].state = "CONNECTED" THEN "DISCONNECTED"
                            ELSE conns[c].state]
                    ELSE conns[c]]
    BY <1>1 DEF Destroy
  <2>2. ASSUME NEW c \in D
        PROVE  conns'[c] = [conns[c] EXCEPT !.chan = "NEW", !.state = "DISCONNECTED"]
    <3>1. c \in Ids /\ conns[c].state = "CONNECTED"
      BY <1>4 DEF Up
    <3> QED BY <2>1, <3>1
  <2>0. ASSUME NEW x \in Conn,
               NEW y, y = [x EXCEPT !.chan = "NEW", !.state = "DISCONNECTED"]
        PROVE  /\ y \in Conn /\ y.chan = "NEW" /\ y.state = "DISCONNECTED"
               /\ y.loop = x.loop /\ y.peer = x.peer /\ y.fd = x.fd
    BY <2>0 DEF Conn
  <2>3. \A c \in D : conns'[c] \in Conn
    BY <1>4, <2>2, <2>0
  <2>4. \A c \in Ids \ D : conns'[c] = conns[c]
    BY <2>1
  <2>5. conns' \in [Ids -> Conn \cup {NoConn}]
    BY <1>5, <2>1, <2>3, <2>4
  <2>6. ASSUME NEW c \in D
        PROVE  /\ Destroyed(c)' /\ conns'[c].loop = Main
               /\ conns'[c].peer = conns[c].peer /\ conns'[c].fd = conns[c].fd
    <3>1. conns[c] \in Conn /\ conns[c].loop = Main
      BY <1>4
    <3>2. /\ conns'[c].chan = "NEW" /\ conns'[c].state = "DISCONNECTED"
          /\ conns'[c].loop = conns[c].loop /\ conns'[c].peer = conns[c].peer
          /\ conns'[c].fd = conns[c].fd
      BY <2>0, <2>2, <3>1
    <3> QED BY <3>1, <3>2 DEF Destroyed
  <2> QED BY <2>4, <2>5, <2>6
<1>7. /\ downs' \in [Ids -> Nat] /\ (\A c \in D : downs'[c] = 1)
      /\ \A c \in Ids \ D : downs'[c] = downs[c]
  <2>1. downs' = [c \in Ids |-> IF c \in D /\ conns[c].state = "CONNECTED"
                                THEN downs[c] + 1 ELSE downs[c]]
    BY <1>1 DEF Destroy
  <2>2. \A c \in D : c \in Ids /\ downs[c] = 0 /\ conns[c].state = "CONNECTED"
    BY <1>4 DEF Up
  <2> QED BY <1>5, <2>1, <2>2
<1>8. aborted' = FALSE
  BY <1>1, <1>4 DEF Destroy
<1>9. /\ channelMap' \in [Loops -> [Fds -> Ids \cup {None}]]
      /\ \A l \in Loops, f \in Fds : channelMap'[l][f] =
            IF \E c \in D : conns[c].loop = l /\ conns[c].fd = f
            THEN None ELSE channelMap[l][f]
  <2>1. channelMap' = [l \in Loops |-> [f \in Fds |->
                         IF \E c \in D : conns[c].loop = l /\ conns[c].fd = f
                         THEN None ELSE channelMap[l][f]]]
    BY <1>1 DEF Destroy
  <2> QED BY <1>5, <2>1
<1>10. /\ Made' = Made /\ Made \subseteq Ids /\ None \notin Ids
       /\ \A c \in Made : conns'[c].fd = conns[c].fd /\ conns'[c].peer = conns[c].peer
                          /\ conns'[c].loop = conns[c].loop
  <2>1. \A c \in Ids : conns'[c].loop = conns[c].loop
    BY <1>4, <1>6
  <2> QED BY <1>6, <2>1, Constants DEF Made
<1>11. /\ connections' \in [Keys -> Ids \cup {None}] /\ (\A c \in Ids : c \notin Owned')
       /\ \A k \in Keys : connections'[k] = None
  BY <1>1 DEF Owned, Range
<1>12. QueuesExact'
  <2> SUFFICES ASSUME NEW l \in Loops, NEW e \in ToSet(queue'[l]) PROVE FunctionFits(l, e)'
    BY <1>3 DEF QueuesExact
  <2>1. CASE e \in ToSet(queue[l])
    <3>1. FunctionFits(l, e) /\ e.conn \in Made /\ e.conn \in Ids
      BY <1>10, <2>1 DEF IInv, QueuesExact, FunctionFits
    <3>2. e.op \in {"establish", "destroy", "remove"}
      <4>1. e \in Functions
        BY <1>3, InToSet
      <4> QED BY <4>1, FnForm
    <3>3. e.conn \notin D
      BY <1>0, <1>4, <3>1, <3>2 DEF FunctionFits, Connecting, Up
    <3>4. conns'[e.conn] = conns[e.conn] /\ e.conn \notin Owned'
      BY <1>6, <1>11, <3>1, <3>3
    <3> QED BY <1>1, <1>10, <3>1, <3>4 DEF FunctionFits, Connecting, Destroyed, Closing
  <2>2. CASE e \in LastFunctions(l)
    <3>1. PICK c \in Owned : e = Fn("destroy", c) /\ conns[c].loop = l /\ l # Main
      BY <2>2 DEF LastFunctions
    <3>2. c \in Made /\ c \in Ids /\ ~Destroyed(c) /\ c \notin D
      BY <1>0, <1>2, <3>1
    <3>3. e.op = "destroy" /\ e.conn = c
      BY <3>1, <3>2, FnForm
    <3>4. conns'[c].loop = l /\ ~Destroyed(c)' /\ c \notin Owned'
      BY <1>6, <1>11, <3>1, <3>2 DEF Destroyed
    <3> QED BY <1>10, <3>2, <3>3, <3>4 DEF FunctionFits
  <2> QED BY <1>3, <2>1, <2>2
<1>13. ASSUME NEW c \in Made, c \notin D, ~Destroyed(c)
       PROVE  channelMap'[conns[c].loop][conns[c].fd] = channelMap[conns[c].loop][conns[c].fd]
  <2>1. conns[c].loop \in Loops /\ conns[c].fd \in Fds
    BY MadeConn DEF IInv
  <2>2. ASSUME NEW d \in D, conns[d].fd = conns[c].fd PROVE FALSE
    <3>1. d # c /\ d \in Made /\ ~Destroyed(d)
      BY <1>4, <1>13 DEF Up, Destroyed
    <3>2. Alive(c) /\ Alive(d)
      BY <1>1, <1>13, <3>1, StageAlive
    <3> QED BY <1>1, <2>2, <3>1, <3>2 DEF IInv, FdsDiffer
  <2> QED BY <1>9, <2>1, <2>2
<1>14. ConnsExact'
  <2> SUFFICES ASSUME NEW c \in Made PROVE StageExact(c)'
    BY <1>10 DEF ConnsExact
  <2>1. StageExact(c) /\ c \in Ids /\ conns[c].loop \in Loops /\ NameOf(c) \in Keys
    BY MadeConn DEF IInv, ConnsExact
  <2>2. CASE c \in D
    BY <1>1, <1>4, <1>6, <1>7, <1>11, <2>1, <2>2 DEF StageExact
  <2>3. CASE c \notin D
    <3>1. /\ conns'[c] = conns[c] /\ downs'[c] = downs[c] /\ ups'[c] = ups[c]
          /\ c \notin Owned' /\ server' = "destroying"
      BY <1>1, <1>6, <1>7, <1>11, <2>1, <2>3
    <3>2. /\ Connecting(c)' <=> Connecting(c)
          /\ Up(c)' <=> Up(c)
          /\ Closing(c)' <=> Closing(c)
          /\ Destroyed(c)' <=> Destroyed(c)
      BY <3>1 DEF Connecting, Up, Closing, Destroyed
    <3>3. connections[NameOf(c)] = c
             => conns[c].loop # Main /\ Queued(conns[c].loop, "destroy", c)'
      <4> SUFFICES ASSUME connections[NameOf(c)] = c
                   PROVE  conns[c].loop # Main /\ Queued(conns[c].loop, "destroy", c)'
        OBVIOUS
      <4>1. connections \in [Keys -> Ids \cup {None}]
        BY DEF IInv, TypeOK
      <4>2. c \in Owned
        BY <1>10, <2>1, <4>1 DEF Owned, Range
      <4>3. conns[c].loop # Main
        BY <1>0, <2>3, <4>2
      <4>4. Fn("destroy", c) \in LastFunctions(conns[c].loop)
        BY <4>2, <4>3 DEF LastFunctions
      <4> QED BY <1>3, <2>1, <3>1, <4>3, <4>4 DEF Queued
    <3>4. /\ Queued(conns[c].loop, "establish", c) => Queued(conns[c].loop, "establish", c)'
          /\ Queued(conns[c].loop, "destroy", c) => Queued(conns[c].loop, "destroy", c)'
      BY <1>3, <2>1, <3>1 DEF Queued
    <3>5. ~Destroyed(c) => channelMap'[conns[c].loop][conns[c].fd]
                              = channelMap[conns[c].loop][conns[c].fd]
      BY <1>13, <2>3
    <3>6. CASE Connecting(c)
      BY <1>1, <2>1, <3>1, <3>2, <3>3, <3>4, <3>6
         DEF StageExact, Connecting, Up, Closing, Destroyed
    <3>7. CASE Up(c)
      <4>1. ~Destroyed(c) /\ ~Connecting(c) /\ ~Closing(c)
        BY <3>7 DEF Connecting, Up, Closing, Destroyed
      <4>2. /\ ups[c] = 1 /\ downs[c] = 0 /\ channelMap[conns[c].loop][conns[c].fd] = c
            /\ connections[NameOf(c)] = c
        BY <1>1, <2>1, <4>1 DEF StageExact
      <4> QED BY <3>1, <3>2, <3>3, <3>5, <3>7, <4>1, <4>2 DEF StageExact
    <3>8. CASE Closing(c)
      <4>1. ~Destroyed(c) /\ ~Connecting(c) /\ ~Up(c)
        BY <3>8 DEF Connecting, Up, Closing, Destroyed
      <4>2. /\ ups[c] = 1 /\ downs[c] = 1 /\ channelMap[conns[c].loop][conns[c].fd] = c
            /\ connections[NameOf(c)] = c \/ Queued(conns[c].loop, "destroy", c)
        BY <1>1, <2>1, <4>1 DEF StageExact
      <4> QED BY <3>1, <3>2, <3>3, <3>4, <3>5, <3>8, <4>1, <4>2 DEF StageExact
    <3>9. CASE Destroyed(c)
      <4>1. ups[c] = 1 /\ downs[c] = 1
        BY <2>1, <3>9 DEF StageExact, Connecting, Up, Closing, Destroyed
      <4> QED BY <3>1, <3>2, <3>9, <4>1 DEF StageExact
    <3> QED BY <2>1, <3>6, <3>7, <3>8, <3>9 DEF StageExact
  <2> QED BY <2>2, <2>3
<1>15. MapExact'
  <2> SUFFICES ASSUME NEW l \in Loops, NEW f \in Fds, channelMap'[l][f] # None,
                      NEW d, d = channelMap'[l][f]
               PROVE  /\ d \in Made' /\ conns'[d].loop = l /\ conns'[d].fd = f
                      /\ Up(d)' \/ Closing(d)'
    BY DEF MapExact
  <2>1. d = channelMap[l][f] /\ ~\E c \in D : conns[c].loop = l /\ conns[c].fd = f
    BY <1>9
  <2>2. d \in Made /\ conns[d].loop = l /\ conns[d].fd = f /\ (Up(d) \/ Closing(d))
    BY <2>1 DEF IInv, MapExact
  <2>3. conns'[d] = conns[d]
    BY <1>6, <1>10, <2>1, <2>2
  <2> QED BY <1>10, <2>2, <2>3 DEF Up, Closing
<1>16. OwnedExact'
  BY <1>11 DEF OwnedExact
<1>17. FdsDiffer'
  <2>1. ASSUME NEW c \in Made, Alive(c)' PROVE Alive(c)
    <3>1. AliveIn(connections', queue', c) /\ c \in Ids
      BY <1>3, <1>10, <1>11, <2>1, AliveNext
    <3>0. PICK l \in Loops : \E e \in ToSet(queue'[l]) : e.conn = c
      BY <1>10, <1>11, <3>1 DEF AliveIn
    <3>2. PICK e \in ToSet(queue'[l]) : e.conn = c
      BY <3>0
    <3>3. CASE e \in ToSet(queue[l])
      <4>1. AliveIn(connections, queue, c)
        BY <3>2, <3>3 DEF AliveIn
      <4> QED BY <4>1, AliveNow DEF IInv
    <3>4. CASE e \in LastFunctions(l)
      <4>1. PICK d \in Owned : e = Fn("destroy", d)
        BY <3>4 DEF LastFunctions
      <4>2. d = c
        BY <1>2, <3>2, <4>1, FnForm
      <4> QED BY <4>1, <4>2 DEF Owned, Alive
    <3> QED BY <1>3, <3>2, <3>3, <3>4
  <2> QED BY <1>1, <1>10, <2>1 DEF IInv, FdsDiffer
<1>18. backlog' \in Seq(Peers)
  BY <1>1
<1>19. IdsInOrder'
  <2>1. Cardinality(Made) \in Nat
    <3>1. Made \subseteq 1..MaxConns /\ IsFiniteSet(1..MaxConns)
      BY FS_Interval, Constants DEF Made, Ids
    <3> QED BY <3>1, FS_Subset, FS_CardinalityType
  <2>2. Len(backlog) \in Nat /\ Len(backlog') = 0
    BY <1>1, InToSet DEF IInv, TypeOK
  <2>3. Cardinality(Made) + Len(backlog') <= MaxConns
    BY <2>1, <2>2, Constants DEF IInv, IdsInOrder
  <2>4. \A c \in Ids \ Made : ups'[c] = 0 /\ downs'[c] = 0
    BY <1>1, <1>4, <1>7 DEF IInv, IdsInOrder
  <2> QED BY <1>10, <2>3, <2>4 DEF IInv, IdsInOrder
<1>20. TypeOK'
  BY <1>1, <1>3, <1>6, <1>7, <1>8, <1>9, <1>11, <1>18 DEF IInv, TypeOK, Functions, Conn
<1>21. LoopsInPhase'
  <2>1. \A k \in Loops : batch[k] \in Nat /\ Len(queue[k]) \in Nat /\ Len(queue'[k]) \in Nat
    BY <1>3, InToSet DEF IInv, TypeOK
  <2>2. \A k \in Loops : batch'[k] <= Len(queue'[k])
    BY <1>1, <1>3, <2>1 DEF IInv, LoopsInPhase
  <2> QED BY <1>1, <2>2 DEF IInv, LoopsInPhase
<1>22. active[Main] = {}
  BY <1>1, Constants DEF IInv, LoopsInPhase
<1>23. AcceptorExact'
  BY <1>1, <1>22 DEF IInv, AcceptorExact
<1>24. ActiveUp'
  <2> SUFFICES ASSUME NEW k \in Loops, NEW d \in active[k] \cap Ids
               PROVE  d \in Made' /\ conns'[d].loop = k /\ Up(d)'
    BY <1>1 DEF ActiveUp
  <2>1. d \in Made /\ conns[d].loop = k /\ Up(d)
    BY DEF IInv, ActiveUp
  <2>2. d \notin D
    BY <1>4, <1>22, <2>1
  <2> QED BY <1>6, <1>10, <2>1, <2>2 DEF Up
<1> QED BY <1>8, <1>12, <1>14, <1>15, <1>16, <1>17, <1>18, <1>19, <1>20, <1>21, <1>23,
           <1>24 DEF IInv

\* The loops are gone with their queues.
LEMMA ServerGoneKeeps ==
    ASSUME IInv, ServerGone
    PROVE  IInv'
<1>1. /\ server = "destroying" /\ server' = "gone"
      /\ \A l \in 1..threadNums : phase[l] = "out"
      /\ queue' = [l \in Loops |-> <<>>]
      /\ UNCHANGED <<threadNums, nextLoop, backlog, emfile, idleFd, others, connections,
                     conns, channelMap, ups, downs, aborted, phase, active, batch, quit,
                     collided>>
  BY DEF ServerGone, acceptorVars, connVars
<1>2. Made' = Made /\ Owned' = Owned
  BY <1>1 DEF Made, Owned
<1>3. /\ queue' \in [Loops -> Seq(Functions)]
      /\ \A l \in Loops : ToSet(queue'[l]) = {} /\ Len(queue'[l]) = 0 /\ InOrder(queue'[l])
  BY <1>1 DEF ToSet, InOrder
<1>4. \A l \in Loops : phase[l] = "out"
  <2>1. phase[Main] = "out" /\ \A l \in Loops : phase[l] # "out" => l <= threadNums
    BY <1>1 DEF IInv, LoopsInPhase
  <2>2. threadNums \in Nat
    BY Constants DEF IInv, TypeOK
  <2>3. \A l \in Loops : l = Main \/ l \in 1..threadNums \/ ~(l <= threadNums)
    BY <2>2, Constants DEF Loops, Main
  <2> QED BY <1>1, <2>1, <2>3
<1>5. TypeOK'
  BY <1>1, <1>3 DEF IInv, TypeOK, Functions
<1>6. LoopsInPhase'
  BY <1>1, <1>3, <1>4 DEF IInv, LoopsInPhase
<1>7. QueuesExact'
  BY <1>3 DEF QueuesExact
<1>8. ConnsExact'
  <2> SUFFICES ASSUME NEW c \in Made PROVE StageExact(c)'
    BY <1>2 DEF ConnsExact
  <2>1. StageExact(c)
    BY DEF IInv, ConnsExact
  <2>2. /\ Connecting(c)' <=> Connecting(c)
        /\ Up(c)' <=> Up(c)
        /\ Closing(c)' <=> Closing(c)
        /\ Destroyed(c)' <=> Destroyed(c)
    BY <1>1 DEF Connecting, Up, Closing, Destroyed
  <2> QED BY <1>1, <1>2, <2>1, <2>2 DEF StageExact
<1>9. MapExact' /\ ActiveUp'
  BY <1>1, <1>2 DEF IInv, MapExact, ActiveUp, Up, Closing
<1>10. OwnedExact'
  <2>1. \A k \in Keys : connections[k] = None
    BY <1>1 DEF IInv, OwnedExact
  <2> QED BY <1>1, <2>1 DEF OwnedExact
<1>11. FdsDiffer'
  BY <1>1 DEF FdsDiffer
<1>12. IdsInOrder' /\ AcceptorExact'
  BY <1>1, <1>2 DEF IInv, IdsInOrder, AcceptorExact
<1> QED BY <1>1, <1>5, <1>6, <1>7, <1>8, <1>9, <1>10, <1>11, <1>12 DEF IInv

---------------------------------------------------------------------------
(* The invariant and what follows from it.                                 *)

\* The constructors.
LEMMA InitInv ==
    ASSUME Init
    PROVE  IInv
<1>1. Made = {}
  BY Constants DEF Init, Made, NoConn
<1>2. Cardinality(Made) = 0 /\ 1..0 = {}
  BY <1>1, FS_EmptySet
<1>3. \A l \in Loops : queue[l] = <<>> /\ ToSet(queue[l]) = {} /\ InOrder(queue[l])
  BY DEF Init, ToSet, InOrder
<1>4. TypeOK
  <2>1. NumFds >= 1 /\ NumFds \in Nat
    BY TcpServerAssumption
  <2>2. 1 \in Fds /\ 0 \in Nat
    BY <2>1 DEF Fds
  <2>3. threadNums \in 0..MaxThreads /\ nextLoop = 1 /\ MaxThreads \in Nat
    BY Constants DEF Init
  <2>4. nextLoop \in 1..Max({1, threadNums})
    <3>1. Max({1, threadNums}) = IF threadNums = 0 THEN 1 ELSE threadNums
      BY <2>3, MaxOfTwo
    <3> QED BY <2>3, <3>1
  <2>5. backlog \in Seq(Peers) /\ queue \in [Loops -> Seq([op : {"establish", "destroy",
                                                           "remove"}, conn : Ids])]
    BY DEF Init
  <2> QED BY <2>2, <2>4, <2>5 DEF Init, TypeOK
<1>5. IdsInOrder
  <2>1. Len(backlog) = 0 /\ \A c \in Ids : ups[c] = 0 /\ downs[c] = 0
    BY DEF Init
  <2> QED BY <1>1, <1>2, <2>1, Constants DEF IdsInOrder
<1>6. LoopsInPhase
  <2>1. Len(<<>>) = 0
    OBVIOUS
  <2> QED BY <1>1, <1>3, <2>1, Constants DEF Init, LoopsInPhase
<1>7. AcceptorExact
  BY <1>1, Constants DEF Init, AcceptorExact
<1>8. QueuesExact /\ ConnsExact /\ FdsDiffer
  BY <1>1, <1>3 DEF QueuesExact, ConnsExact, FdsDiffer
<1>9. MapExact /\ OwnedExact /\ ActiveUp
  BY DEF Init, MapExact, OwnedExact, ActiveUp
<1>10. ~aborted
  BY DEF Init
<1> QED BY <1>4, <1>5, <1>6, <1>7, <1>8, <1>9, <1>10 DEF IInv

\* Every step.
LEMMA NextInv ==
    ASSUME IInv, [Next]_vars, ~collided'
    PROVE  IInv'
<1>1. CASE Start
  BY <1>1, StartKeeps
<1>2. ASSUME NEW l \in Loops, LoopStep(l) PROVE IInv'
  <2>1. CASE Select(l)
    BY <2>1, SelectKeeps
  <2>2. CASE Swap(l) \/ EndIteration(l)
    BY <2>2, BatchKeeps
  <2>3. CASE RunEstablish(l)
    BY <2>3, RunEstablishKeeps
  <2>4. CASE RunDestroy(l)
    BY <2>4, RunDestroyKeeps
  <2>5. ASSUME NEW c \in Ids, HandleClose(l, c) PROVE IInv'
    BY <2>5, HandleCloseKeeps
  <2> QED BY <1>2, <2>1, <2>2, <2>3, <2>4, <2>5 DEF LoopStep
<1>3. CASE MainStep
  <2>1. CASE LoopStep(Main)
    BY <1>2, <2>1, Constants
  <2>2. CASE RunRemove
    BY <2>2, RunRemoveKeeps
  <2>3. CASE Accept
    BY <2>3, AcceptKeeps
  <2>4. CASE CloseIdle
    BY <2>4, CloseIdleKeeps
  <2>5. CASE AcceptAndDrop
    BY <2>5, AcceptAndDropKeeps
  <2>6. CASE ReopenIdle
    BY <2>6, ReopenIdleKeeps
  <2> QED BY <1>3, <2>1, <2>2, <2>3, <2>4, <2>5, <2>6 DEF MainStep
<1>4. ASSUME NEW p \in Peers, Connect(p) PROVE IInv'
  BY <1>4, ConnectKeeps
<1>5. ASSUME NEW c \in Ids, PeerCloses(c) PROVE IInv'
  BY <1>5, PeerClosesKeeps
<1>6. CASE OtherOpens \/ QuitMain
  BY <1>6, OthersKeep
<1>7. CASE DestroyServer
  BY <1>7, DestroyServerKeeps
<1>8. CASE DestructorStep
  <2>1. CASE ServerGone
    BY <2>1, ServerGoneKeeps
  <2>2. CASE \E l \in Loops : QuitThread(l)
    BY <2>2, OthersKeep
  <2> QED BY <1>8, <2>1, <2>2 DEF DestructorStep
<1>9. CASE UNCHANGED vars
  <2>1. UNCHANGED <<threadNums, nextLoop, server, backlog, emfile, idleFd, others,
                    connections, conns, channelMap, ups, downs, aborted, phase, active,
                    queue, batch, quit, collided>>
    BY <1>9 DEF vars, acceptorVars, connVars, loopVars
  <2>2. UNCHANGED coreVars
    BY <2>1 DEF coreVars
  <2>3. Made' = Made
    BY <2>2, CoreKept
  <2>4. TypeOK'
    BY <2>1 DEF IInv, TypeOK
  <2>5. LoopsInPhase' /\ ActiveUp' /\ AcceptorExact'
    BY <2>1, <2>3 DEF IInv, LoopsInPhase, ActiveUp, Up, AcceptorExact
  <2> QED BY <2>1, <2>2, <2>4, <2>5, CoreKept, BacklogKept DEF IInv
<1> QED BY <1>1, <1>2, <1>3, <1>4, <1>5, <1>6, <1>7, <1>8, <1>9 DEF Next

\* A collision is remembered.
LEMMA CollidedStays ==
    ASSUME collided, [Next]_vars
    PROVE  collided'
<1>1. ASSUME NEW l \in Loops, LoopStep(l) PROVE collided'
  BY <1>1 DEF LoopStep, Select, Swap, EndIteration, RunEstablish, RunDestroy,
              HandleClose, connVars
<1>2. CASE MainStep
  <2>1. CASE LoopStep(Main)
    BY <1>1, <2>1, Constants
  <2>2. CASE Accept
    BY <2>2 DEF Accept, NewConnection
  <2>3. CASE RunRemove \/ CloseIdle \/ AcceptAndDrop \/ ReopenIdle
    BY <2>3 DEF RunRemove, CloseIdle, AcceptAndDrop, ReopenIdle, connVars
  <2> QED BY <1>2, <2>1, <2>2, <2>3 DEF MainStep
<1>3. CASE Start \/ DestroyServer \/ DestructorStep
  BY <1>3 DEF Start, DestroyServer, DestructorStep, ServerGone, QuitThread, connVars
<1>4. CASE OtherOpens \/ QuitMain
  BY <1>4 DEF OtherOpens, QuitMain, connVars
<1>5. CASE (\E p \in Peers : Connect(p)) \/ (\E c \in Ids : PeerCloses(c))
  BY <1>5 DEF Connect, PeerCloses, connVars
<1>6. CASE UNCHANGED vars
  BY <1>6 DEF vars, connVars
<1> QED BY <1>1, <1>2, <1>3, <1>4, <1>5, <1>6 DEF Next

\* The invariant holds until two connections have had one name.
LEMMA Invariant == Spec => [](collided \/ IInv)
<1>1. Init => collided \/ IInv
  BY InitInv
<1>2. (collided \/ IInv) /\ [Next]_vars => (collided \/ IInv)'
  BY NextInv, CollidedStays
<1> QED BY <1>1, <1>2, PTL DEF Spec

\* The asserts of Epoll, connectionEstablish and handleClose hold for any
\* number of loops, peers and descriptors, although descriptors are given out
\* again at once, until two connections have one name.
THEOREM TcpServerNoAssertFails == Spec => []NoAssertFails
<1>1. collided \/ IInv => NoAssertFails
  BY DEF IInv, NoAssertFails
<1> QED BY <1>1, Invariant, PTL

\* A collision of names in newConnectionCallback is the only way for the server
\* to lose a connection that is up before ~TcpServer.
THEOREM TcpServerOwnedWhileUp == Spec => []OwnedWhileUp
<1>1. collided \/ IInv => OwnedWhileUp
  <2> SUFFICES ASSUME IInv, server = "running", NEW c \in Made,
                      conns[c].state = "CONNECTED"
               PROVE  connections[ConnectionName(conns[c].peer)] = c
    BY DEF OwnedWhileUp
  <2>1. StageExact(c)
    BY DEF IInv, ConnsExact
  <2> QED BY <2>1 DEF StageExact, Connecting, Closing, Destroyed, NameOf
<1> QED BY <1>1, Invariant, PTL

\* connectionDestory is queued or run once for a connection, and ~TcpServer
\* forgets none, until two connections have one name.
THEOREM TcpServerDestroyedOnce == Spec => []DestroyedOnce
<1>1. collided \/ IInv => DestroyedOnce
  <2> SUFFICES ASSUME IInv, NEW c \in Made
               PROVE  /\ Destructions(c) <= 1
                      /\ server = "destroying" => ups[c] = downs[c] \/ Alive(c)
    BY DEF DestroyedOnce
  <2>1. c \in Ids /\ conns[c].loop \in Loops /\ StageExact(c)
    BY MadeConn DEF IInv, ConnsExact
  <2>2. PICK s : s = queue[conns[c].loop]
    OBVIOUS
  <2>3. PICK S : S = {i \in 1..Len(s) : s[i] = [op |-> "destroy", conn |-> c]}
    OBVIOUS
  <2>4. s \in Seq(Functions) /\ InOrder(s) /\ DOMAIN s = 1..Len(s)
    <3>1. s \in Seq(Functions) /\ InOrder(s)
      BY <2>1, <2>2 DEF IInv, TypeOK, Functions, QueuesExact
    <3> QED BY <3>1, InToSet
  <2>5. \A i, j \in S : i = j
    BY <2>3, <2>4 DEF InOrder
  <2>6. Cardinality(S) \in {0, 1} /\ (S = {} => Cardinality(S) = 0)
    <3>1. CASE S = {}
      BY <3>1, FS_EmptySet
    <3>2. CASE S # {}
      <4>1. PICK i \in S : TRUE
        BY <3>2
      <4>2. S = {i}
        BY <2>5, <4>1
      <4> QED BY <4>2, FS_Singleton
    <3> QED BY <3>1, <3>2
  <2>7. Destroyed(c) => S = {}
    <3> SUFFICES ASSUME Destroyed(c), NEW i \in S PROVE FALSE
      OBVIOUS
    <3>1. s[i] = Fn("destroy", c) /\ s[i] \in ToSet(queue[conns[c].loop])
      BY <2>2, <2>3, <2>4 DEF Fn, ToSet
    <3>2. s[i].op = "destroy" /\ s[i].conn = c
      BY <2>1, <3>1, FnForm
    <3> QED BY <2>1, <3>1, <3>2 DEF IInv, QueuesExact, FunctionFits
  <2>8. Destructions(c) = Cardinality(S) + (IF Destroyed(c) THEN 1 ELSE 0)
    BY <2>2, <2>3 DEF Destructions, Destroyed
  <2>9. Destructions(c) <= 1
    BY <2>6, <2>7, <2>8
  <2>10. CASE ~Destroyed(c)
    BY <2>9, <2>10, StageAlive
  <2>11. CASE Destroyed(c)
    BY <2>1, <2>9, <2>11 DEF StageExact, Connecting, Up, Closing, Destroyed
  <2> QED BY <2>10, <2>11
<1> QED BY <1>1, Invariant, PTL

\* No step destroys a connection whose channel is active in its loop.
LEMMA ActiveNotDestroyed ==
    ASSUME IInv, [Next]_vars, NEW l \in Loops, NEW c \in active[l] \cap Ids
    PROVE  /\ c \in Made' /\ conns'[c].chan # "NEW" /\ server' # "gone"
<1>1. c \in Made /\ conns[c].loop = l /\ Up(c) /\ c \in Ids
  BY DEF IInv, ActiveUp
<1>2. phase[l] = "events" /\ server \notin {"new", "gone"}
  BY DEF IInv, LoopsInPhase
<1>3. conns[c].chan = "ADDED" /\ conns \in [Ids -> Conn \cup {NoConn}] /\ conns[c] \in Conn
  BY <1>1, MadeConn DEF IInv, TypeOK, Up, Conn
<1>4. ASSUME conns' = conns, server' # "gone"
      PROVE  c \in Made' /\ conns'[c].chan # "NEW" /\ server' # "gone"
  BY <1>1, <1>3, <1>4 DEF Made
<1>5. ASSUME conns'[c] = conns[c], server' # "gone"
      PROVE  c \in Made' /\ conns'[c].chan # "NEW" /\ server' # "gone"
  BY <1>1, <1>3, <1>5 DEF Made
<1>6. CASE Start
  BY <1>2, <1>6 DEF Start
<1>7. ASSUME NEW k \in Loops, LoopStep(k)
      PROVE  c \in Made' /\ conns'[c].chan # "NEW" /\ server' # "gone"
  <2>1. CASE Select(k) \/ Swap(k) \/ EndIteration(k)
    BY <1>2, <1>4, <2>1 DEF Select, Swap, EndIteration, connVars
  <2>2. CASE RunEstablish(k)
    <3>1. PICK d : d = Head(queue[k]).conn
      OBVIOUS
    <3>2. Establish(d, conns[d]) /\ server' = server
      BY <2>2, <3>1 DEF RunEstablish
    <3>3. Runs(k, "establish") /\ "establish" \in {"establish", "destroy", "remove"}
      BY <2>2 DEF RunEstablish
    <3>4. FunctionFits(k, Head(queue[k]))
      BY <3>3, RunsHead
    <3>5. Connecting(d)
      BY <3>1, <3>3, <3>4 DEF FunctionFits, Runs
    <3>6. d # c
      BY <1>1, <3>5 DEF Connecting, Up
    <3>7. conns'[c] = conns[c]
      BY <1>1, <1>3, <3>2, <3>6 DEF Establish
    <3> QED BY <1>2, <1>5, <3>2, <3>7
  <2>3. CASE RunDestroy(k)
    <3>1. PICK d : d = Head(queue[k]).conn
      OBVIOUS
    <3>2. Destroy({d}) /\ server' = server
      BY <2>3, <3>1 DEF RunDestroy
    <3>3. Runs(k, "destroy") /\ "destroy" \in {"establish", "destroy", "remove"}
      BY <2>3 DEF RunDestroy
    <3>4. FunctionFits(k, Head(queue[k])) /\ active[k] = {}
      BY <3>3, RunsHead
    <3>5. conns[d].loop = k
      BY <3>1, <3>3, <3>4 DEF FunctionFits, Runs
    <3>6. d # c
      BY <1>1, <3>4, <3>5
    <3>7. conns'[c] = conns[c]
      BY <1>1, <3>2, <3>6 DEF Destroy
    <3> QED BY <1>2, <1>5, <3>2, <3>7
  <2>4. ASSUME NEW d \in Ids, HandleClose(k, d)
        PROVE  c \in Made' /\ conns'[c].chan # "NEW" /\ server' # "gone"
    <3>1. /\ conns' = [conns EXCEPT ![d] =
                          [conns[d] EXCEPT !.state = "DISCONNECTED", !.chan = "DELETED"]]
          /\ server' = server
      BY <2>4 DEF HandleClose
    <3>2. CASE d # c
      BY <1>1, <1>2, <1>3, <1>5, <3>1, <3>2
    <3>3. CASE d = c
      <4>1. conns'[c].loop = conns[c].loop /\ conns'[c].chan = "DELETED"
        BY <1>1, <1>3, <3>1, <3>3 DEF Conn
      <4> QED BY <1>1, <1>2, <3>1, <4>1 DEF Made
    <3> QED BY <3>2, <3>3
  <2> QED BY <1>7, <2>1, <2>2, <2>3, <2>4 DEF LoopStep
<1>8. CASE MainStep
  <2>1. CASE LoopStep(Main)
    BY <1>7, <2>1, Constants
  <2>2. CASE Accept
    <3>1. PICK d : d = Cardinality(Made) + 1
      OBVIOUS
    <3>2. d \notin Made
      BY <2>2, <3>1, NextIdFresh DEF Accept
    <3>3. /\ server' = server
          /\ conns'[c] = conns[c]
      <4>1. \E r : conns' = [conns EXCEPT ![d] = r] /\ server' = server
        BY <2>2, <3>1 DEF Accept, NewConnection, Establish
      <4> QED BY <1>1, <1>3, <3>2, <4>1
    <3> QED BY <1>2, <1>5, <3>3
  <2>3. CASE RunRemove \/ CloseIdle \/ AcceptAndDrop \/ ReopenIdle
    BY <1>2, <1>4, <2>3 DEF RunRemove, CloseIdle, AcceptAndDrop, ReopenIdle, connVars
  <2> QED BY <1>8, <2>1, <2>2, <2>3 DEF MainStep
<1>9. ASSUME NEW p \in Peers, Connect(p)
      PROVE  c \in Made' /\ conns'[c].chan # "NEW" /\ server' # "gone"
  BY <1>2, <1>4, <1>9 DEF Connect, connVars
<1>10. ASSUME NEW d \in Ids, PeerCloses(d)
       PROVE  c \in Made' /\ conns'[c].chan # "NEW" /\ server' # "gone"
  <2>1. conns' = [conns EXCEPT ![d] = [conns[d] EXCEPT !.closed = TRUE]]
        /\ server' = server
    BY <1>10 DEF PeerCloses
  <2>2. conns'[c].loop = conns[c].loop /\ conns'[c].chan = "ADDED"
    <3>1. CASE d # c
      BY <1>1, <1>3, <2>1, <3>1
    <3>2. CASE d = c
      BY <1>1, <1>3, <2>1, <3>2 DEF Conn
    <3> QED BY <3>1, <3>2
  <2> QED BY <1>1, <1>2, <2>1, <2>2 DEF Made
<1>11. CASE OtherOpens \/ QuitMain \/ \E k \in Loops : QuitThread(k)
  BY <1>2, <1>4, <1>11 DEF OtherOpens, QuitMain, QuitThread, connVars
<1>12. CASE DestroyServer
  <2>1. phase[Main] = "out" /\ server' = "destroying"
        /\ Destroy({d \in Owned : conns[d].loop = Main})
    BY <1>12 DEF DestroyServer
  <2>2. conns[c].loop # Main
    BY <1>1, <1>2, <2>1
  <2>3. conns'[c] = conns[c]
    BY <1>1, <2>1, <2>2 DEF Destroy
  <2> QED BY <1>5, <2>1, <2>3
<1>13. CASE ServerGone
  <2>1. /\ server = "destroying" /\ \A k \in 1..threadNums : phase[k] = "out"
    BY <1>13 DEF ServerGone
  <2>2. phase[Main] = "out" /\ l <= threadNums /\ threadNums \in Nat
    BY <1>2, <2>1, Constants DEF IInv, LoopsInPhase, TypeOK
  <2>3. l \in 1..threadNums
    BY <1>2, <2>2, Constants DEF Loops, Main
  <2> QED BY <1>2, <2>1, <2>3
<1>14. CASE UNCHANGED vars
  BY <1>2, <1>4, <1>14 DEF vars, connVars
<1> QED BY <1>6, <1>7, <1>8, <1>9, <1>10, <1>11, <1>12, <1>13, <1>14
        DEF Next, DestructorStep

\* No step frees a connection whose channel epoll has handed to a loop and
\* that the loop has yet to handle or is handling, until two connections have
\* one name.
THEOREM TcpServerActiveAlive == Spec => ActiveAlive
<1>1. (collided \/ IInv) /\ (collided \/ IInv)' /\ [Next]_vars
         => [collided' \/ \A l \in Loops : \A c \in active[l] \cap Ids : Alive(c)']_vars
  <2> SUFFICES ASSUME IInv, IInv', [Next]_vars, NEW l \in Loops,
                      NEW c \in active[l] \cap Ids
               PROVE  Alive(c)'
    BY CollidedStays
  <2>1. c \in Made' /\ conns'[c].chan # "NEW" /\ server' # "gone"
    BY ActiveNotDestroyed
  <2>2. StageExact(c)' /\ c \in Ids /\ conns'[c].loop \in Loops
    BY <2>1 DEF IInv, ConnsExact, Made
  <2>3. /\ connections' \in [Keys -> Ids \cup {None}]
        /\ queue' \in [Loops -> Seq(Functions)]
        /\ conns' \in [Ids -> Conn \cup {NoConn}]
    BY DEF IInv, TypeOK, Functions, Conn
  <2>4. NameOf(c)' \in Keys
    <3>1. NoConn.loop \notin Loops
      BY Constants DEF NoConn
    <3>2. conns'[c] \in Conn
      BY <2>2, <2>3, <3>1
    <3> QED BY <3>2 DEF Conn, NameOf, Keys
  <2>5. \/ connections'[NameOf(c)'] = c
        \/ Fn("destroy", c) \in ToSet(queue'[conns'[c].loop])
    BY <2>1, <2>2 DEF StageExact, Connecting, Destroyed, Queued
  <2>6. Fn("destroy", c).conn = c
    BY <2>2, FnForm
  <2>7. AliveIn(connections', queue', c)
    BY <2>2, <2>4, <2>5, <2>6 DEF AliveIn
  <2> QED BY <2>3, <2>7, AliveNext
<1> QED BY <1>1, Invariant, PTL DEF Spec, ActiveAlive
=============================================================================
