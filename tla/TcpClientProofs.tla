-------------------------- MODULE TcpClientProofs --------------------------
(***************************************************************************)
(* Proofs about TcpClient, for any delays and any number of calls, for a   *)
(* client that connects once (and then again by itself) and a loop whose   *)
(* iterations are shorter than the retry delay.                            *)
(***************************************************************************)
EXTENDS TcpClient, SequenceTheorems, FiniteSetTheorems, TLAPS

\* 1 if b holds, and 0 if not.
One(b) == IF b THEN 1 ELSE 0

Watching == channel = "watching"

\* The other thread is in connect() and has not queued the start.
InConnect == other \in {"start", "queue"}

\* Before connect() has queued the start there is no attempt, whatever else was
\* called.
NotBeforeConnect ==
    ~started \/ InConnect =>
        /\ timers = 0 /\ CountOf(queue, "startInLoop") = 0
        /\ channel = "none" /\ state = "DISCONNECTED"
        /\ ~connection /\ ~restarting /\ ~wanted

\* What the thread in connect() will find when it queues the start.
ConnectGoesOn ==
    /\ InConnect => started /\ client = "alive"
    /\ other = "queue" /\ clientConnect => connect

\* The channel watches the socket of the attempt in progress, and resetChannel
\* is in the queue exactly between its removal and its reset.
ChannelExact ==
    /\ state = "CONNECTING" <=> Watching
    /\ CountOf(queue, "resetChannel") = One(channel = "removed")

\* What waits to start an attempt finds state_ and channel_ as it must.
StartsClean ==
    /\ timers > 0 => state = "DISCONNECTED"
    /\ CountOf(queue, "startInLoop") > 0 => state = "DISCONNECTED" /\ channel = "none"
    /\ restarting => channel = "none" /\ ~connection

\* There is at most one attempt, and one while the user wants a connection.
AttemptExact ==
    /\ Attempts <= 1
    /\ wanted => connect /\ clientConnect /\ client = "alive"
    /\ wanted /\ EnableRetry /\ ~gaveUp => Attempts = 1

\* The sockets, and who has the connection.
SocketsExact ==
    /\ sockets = One(Watching) + One(connection \/ orphan # "none")
                 + CountOf(queue, "connectionDestory")
    /\ connection => client = "alive"
    /\ orphan # "none" => client # "alive"

IInv ==
    /\ TypeOK
    /\ ~aborted
    /\ NotBeforeConnect
    /\ ConnectGoesOn
    /\ ChannelExact
    /\ StartsClean
    /\ AttemptExact
    /\ SocketsExact

---------------------------------------------------------------------------
(* Counting functions in the queue.                                        *)

\* A count is a number, and zero if the function is not there.
LEMMA CountType ==
    ASSUME NEW s \in Seq(Functions), NEW f
    PROVE  /\ CountOf(s, f) \in Nat
           /\ IsFiniteSet({i \in DOMAIN s : s[i] = f})
           /\ CountOf(s, f) = 0 <=> ~Contains(s, f)
<1> DEFINE S == {i \in DOMAIN s : s[i] = f}
<1>1. Len(s) \in Nat /\ DOMAIN s = 1..Len(s)
  BY LenProperties
<1>2. IsFiniteSet(S)
  <2>1. S \subseteq 1..Len(s) /\ IsFiniteSet(1..Len(s))
    BY <1>1, FS_Interval
  <2> QED BY <2>1, FS_Subset
<1>3. Cardinality(S) \in Nat /\ (Cardinality(S) = 0 <=> S = {})
  BY <1>2, FS_CardinalityType, FS_EmptySet
<1>4. S = {} <=> ~Contains(s, f)
  BY <1>1 DEF Contains
<1> QED BY <1>2, <1>3, <1>4 DEF CountOf

\* queueInLoop.
LEMMA CountAppend ==
    ASSUME NEW s \in Seq(Functions), NEW e \in Functions
    PROVE  /\ Append(s, e) \in Seq(Functions)
           /\ \A f : CountOf(Append(s, e), f) = CountOf(s, f) + One(e = f)
<1> DEFINE t == Append(s, e)
           n == Len(s)
<1>1. /\ n \in Nat /\ DOMAIN s = 1..n /\ t \in Seq(Functions) /\ Len(t) = n + 1
      /\ \A i \in 1..n : t[i] = s[i]
      /\ t[n + 1] = e
  BY LenProperties, AppendProperties
<1>2. DOMAIN t = 1..(n + 1)
  BY <1>1, LenProperties
<1> HIDE DEF t, n
<1>3. ASSUME NEW f PROVE CountOf(t, f) = CountOf(s, f) + One(e = f)
  <2> DEFINE S == {i \in DOMAIN s : s[i] = f}
             T == {i \in DOMAIN t : t[i] = f}
  <2>1. IsFiniteSet(S) /\ CountOf(s, f) = Cardinality(S) /\ Cardinality(S) \in Nat
        /\ CountOf(t, f) = Cardinality(T)
    BY CountType DEF CountOf
  <2>2. n + 1 \notin S
    BY <1>1
  <2>3. T = IF e = f THEN S \cup {n + 1} ELSE S
    BY <1>1, <1>2
  <2> HIDE DEF S, T
  <2>4. CASE e = f
    <3>1. Cardinality(S \cup {n + 1}) = Cardinality(S) + 1
      BY <2>1, <2>2, FS_AddElement
    <3> QED BY <2>1, <2>3, <2>4, <3>1 DEF One
  <2>5. CASE e # f
    BY <2>1, <2>3, <2>5 DEF One
  <2> QED BY <2>4, <2>5
<1> QED BY <1>1, <1>3 DEF t

\* The function at the head has run.
LEMMA CountTail ==
    ASSUME NEW s \in Seq(Functions), s # <<>>
    PROVE  /\ Tail(s) \in Seq(Functions) /\ Head(s) \in Functions
           /\ \A f : CountOf(s, f) = CountOf(Tail(s), f) + One(Head(s) = f)
<1> DEFINE t == Tail(s)
           n == Len(s)
<1>1. /\ n \in Nat /\ DOMAIN s = 1..n /\ t \in Seq(Functions) /\ Len(t) = n - 1
      /\ Head(s) = s[1] /\ Head(s) \in Functions
      /\ \A i \in 1..Len(t) : t[i] = s[i + 1]
  BY LenProperties, HeadTailProperties
<1>2. n >= 1
  BY <1>1, EmptySeq
<1>3. DOMAIN t = 1..(n - 1)
  BY <1>1, LenProperties
<1> HIDE DEF t, n
<1>4. ASSUME NEW f PROVE CountOf(s, f) = CountOf(t, f) + One(Head(s) = f)
  <2> DEFINE S == {i \in DOMAIN s : s[i] = f}
             T == {i \in DOMAIN t : t[i] = f}
             U == S \ {1}
             g == [i \in T |-> i + 1]
  <2>1. /\ IsFiniteSet(S) /\ CountOf(s, f) = Cardinality(S) /\ Cardinality(S) \in Nat
        /\ IsFiniteSet(T) /\ CountOf(t, f) = Cardinality(T) /\ Cardinality(T) \in Nat
    BY <1>1, CountType DEF CountOf
  <2>2. g \in Bijection(T, U)
    <3>1. \A i \in T : i + 1 \in U
      BY <1>1, <1>2, <1>3
    <3>2. g \in [T -> U]
      BY <3>1
    <3>3. \A i, j \in T : g[i] = g[j] => i = j
      BY <1>1, <1>3
    <3>4. ASSUME NEW j \in U PROVE \E i \in T : g[i] = j
      <4>1. j - 1 \in 1..(n - 1) /\ (j - 1) + 1 = j
        BY <1>1, <1>2
      <4>2. t[j - 1] = s[j]
        BY <1>1, <4>1
      <4>3. j - 1 \in T
        BY <1>3, <4>1, <4>2
      <4> QED BY <4>1, <4>3
    <3> HIDE DEF g, T, U
    <3> QED BY <3>2, <3>3, <3>4 DEF Bijection, Injection, Surjection, IsInjective
  <2>3. 1 \in S <=> Head(s) = f
    BY <1>1, <1>2
  <2> HIDE DEF S, T, g
  <2>4. Cardinality(T) = Cardinality(U)
    <3>1. ExistsBijection(T, U)
      BY <2>2 DEF ExistsBijection
    <3> QED BY <2>1, <3>1, FS_Bijection
  <2>5. CASE Head(s) = f
    <3>1. Cardinality(U) = Cardinality(S) - 1
      BY <2>1, <2>3, <2>5, FS_RemoveElement
    <3> QED BY <2>1, <2>4, <2>5, <3>1 DEF One
  <2>6. CASE Head(s) # f
    <3>1. U = S
      BY <2>3, <2>6
    <3>2. One(Head(s) = f) = 0
      BY <2>6 DEF One
    <3>3. CountOf(s, f) = CountOf(t, f)
      BY <2>1, <2>4, <3>1
    <3> QED BY <2>1, <3>2, <3>3
  <2> QED BY <2>5, <2>6
<1> QED BY <1>1, <1>4 DEF t

---------------------------------------------------------------------------
(* Attempts that start.                                                    *)

\* The loop is fast and connect() is called once.
Assumed == Prompt = TRUE /\ Reconnects = FALSE

\* The range of the delays.
Delays == RetryDelayMs..MaxRetryDelayMs

\* The delay stays in its range.
LEMMA BackoffInRange ==
    ASSUME NEW d \in Delays
    PROVE  Backoff(d) \in Delays
<1>1. RetryDelayMs \in Nat /\ MaxRetryDelayMs \in Nat /\ RetryDelayMs <= MaxRetryDelayMs
  BY TcpClientAssumption
<1> QED BY <1>1 DEF Backoff, Delays

\* startInLoop with nothing else under way: an attempt is in progress, or a
\* timer is set, or it was given up.
StartedWith(c) ==
    /\ ~aborted' /\ gaveUp' \in BOOLEAN /\ (gaveUp => gaveUp')
    /\ state' \in {"DISCONNECTED", "CONNECTING"} /\ channel' \in {"none", "watching"}
    /\ state' = "CONNECTING" <=> channel' = "watching"
    /\ timers' \in Nat /\ timers' + One(channel' = "watching") <= 1
    /\ timers' > 0 => state' = "DISCONNECTED"
    /\ c /\ ~gaveUp' => timers' + One(channel' = "watching") = 1
    /\ sockets' = sockets + One(channel' = "watching")
    /\ retryDelayMs' \in Delays

\* startInLoop and connect, in state DISCONNECTED and without a channel.
LEMMA StartEffect ==
    ASSUME NEW c \in BOOLEAN, NEW d \in Delays, NEW o \in Outcomes,
           StartInLoop("DISCONNECTED", c, 0, d, o),
           channel = "none", gaveUp \in BOOLEAN, sockets \in Nat
    PROVE  StartedWith(c)
<1>1. ~aborted'
  BY DEF StartInLoop
<1>2. CASE ~c
  BY <1>1, <1>2 DEF StartInLoop, StartedWith, One
<1>3. CASE c /\ o = "progress"
  <2>1. /\ state' = "CONNECTING" /\ channel' = "watching" /\ sockets' = sockets + 1
        /\ timers' = 0 /\ retryDelayMs' = d /\ gaveUp' = gaveUp
    BY <1>3 DEF StartInLoop, Connecting
  <2> QED BY <1>1, <2>1 DEF StartedWith, One
<1>4. CASE c /\ o = "retried"
  <2>1. /\ state' = "DISCONNECTED" /\ channel' = "none" /\ sockets' = sockets
        /\ timers' = 1 /\ retryDelayMs' = Backoff(d) /\ gaveUp' = gaveUp
    BY <1>4 DEF StartInLoop, Retry
  <2> QED BY <1>1, <2>1, BackoffInRange DEF StartedWith, One
<1>5. CASE c /\ o = "logged"
  <2>1. /\ state' = "DISCONNECTED" /\ channel' = "none" /\ sockets' = sockets
        /\ timers' = 0 /\ retryDelayMs' = d /\ gaveUp' = TRUE
    BY <1>5 DEF StartInLoop
  <2> QED BY <1>1, <2>1 DEF StartedWith, One
<1> QED BY <1>2, <1>3, <1>4, <1>5 DEF Outcomes

\* The counts as numbers.
LEMMA QueueCounts ==
    ASSUME TypeOK
    PROVE  /\ queue \in Seq(Functions)
           /\ CountOf(queue, "startInLoop") \in Nat
           /\ CountOf(queue, "resetChannel") \in Nat
           /\ CountOf(queue, "connectionDestory") \in Nat
<1>1. queue \in Seq(Functions)
  BY DEF TypeOK
<1> QED BY <1>1, CountType

\* A step that starts an attempt where there was none but the one it starts.
LEMMA StartedKeeps ==
    ASSUME IInv, NEW c, StartedWith(c), channel = "none", connection = FALSE,
           connection' = FALSE, restarting' = FALSE,
           UNCHANGED <<client, orphan, clean, other>>, ~InConnect,
           {clientConnect', connect', started', wanted', stopped'} \subseteq BOOLEAN,
           calls' \in 0..MaxCalls, started',
           wanted' => c /\ connect' /\ clientConnect' /\ client = "alive",
           queue' \in Seq(Functions), CountOf(queue', "startInLoop") = 0,
           CountOf(queue', "resetChannel") = CountOf(queue, "resetChannel"),
           CountOf(queue', "connectionDestory") = CountOf(queue, "connectionDestory")
    PROVE  IInv'
<1>1. /\ state' \in {"DISCONNECTED", "CONNECTING"} /\ channel' \in {"none", "watching"}
      /\ state' = "CONNECTING" <=> channel' = "watching"
      /\ timers' \in Nat /\ timers' + One(channel' = "watching") <= 1
      /\ timers' > 0 => state' = "DISCONNECTED"
      /\ sockets' = sockets + One(channel' = "watching")
      /\ retryDelayMs' \in Delays
  BY DEF StartedWith
<1>2. TypeOK'
  <2>1. sockets' \in Nat
    BY <1>1 DEF One, IInv, TypeOK
  <2>2. aborted' = FALSE /\ gaveUp' \in BOOLEAN
    BY DEF StartedWith
  <2> QED BY <1>1, <2>1, <2>2 DEF IInv, TypeOK, Delays
<1>3. NotBeforeConnect' /\ ConnectGoesOn'
  BY DEF NotBeforeConnect, ConnectGoesOn, InConnect
<1>4. ChannelExact'
  BY <1>1 DEF IInv, ChannelExact, One, Watching
<1>5. StartsClean'
  BY <1>1 DEF StartsClean
<1>6. AttemptExact'
  <2>1. Attempts' = timers' + One(channel' = "watching")
    BY <1>1 DEF Attempts, One
  <2>2. c /\ ~gaveUp' => Attempts' = 1
    BY <2>1 DEF StartedWith
  <2>3. Attempts' <= 1
    BY <1>1, <2>1
  <2> QED BY <2>2, <2>3 DEF AttemptExact
<1>7. SocketsExact'
  BY <1>1, QueueCounts DEF IInv, TypeOK, SocketsExact, One, Watching
<1> QED BY <1>2, <1>3, <1>4, <1>5, <1>6, <1>7 DEF IInv, StartedWith

\* A retry timer expires.
LEMMA TimerFiresKeeps ==
    ASSUME Assumed, IInv, NEW o \in Outcomes, TimerFires(o)
    PROVE  IInv'
<1>1. /\ timers > 0 /\ channel # "removed"
      /\ StartInLoop(state, connect, timers - 1, retryDelayMs, o)
      /\ UNCHANGED <<client, orphan, clean, clientConnect, connect, queue, connection,
                     restarting, calls, started, wanted, stopped, other>>
  BY DEF TimerFires, Assumed, lifeVars, userVars
<1>2. /\ timers \in Nat /\ sockets \in Nat /\ retryDelayMs \in Delays
      /\ connect \in BOOLEAN /\ gaveUp \in BOOLEAN
      /\ channel \in {"none", "watching", "removed"}
  BY DEF IInv, TypeOK, Delays
<1>3. /\ CountOf(queue, "startInLoop") = 0 /\ ~connection /\ ~restarting /\ timers = 1
      /\ channel # "watching"
  BY <1>1, <1>2, QueueCounts DEF IInv, AttemptExact, Attempts
<1>4. state = "DISCONNECTED" /\ channel = "none" /\ timers - 1 = 0
  BY <1>1, <1>2, <1>3 DEF IInv, StartsClean
<1>5. StartedWith(connect)
  BY <1>1, <1>2, <1>4, StartEffect
<1>6. started /\ ~InConnect /\ (wanted => connect /\ clientConnect /\ client = "alive")
  BY <1>1 DEF IInv, NotBeforeConnect, AttemptExact
<1>7. /\ {clientConnect, connect, started, wanted, stopped, connection, restarting}
            \subseteq BOOLEAN
      /\ calls \in 0..MaxCalls /\ queue \in Seq(Functions)
  BY DEF IInv, TypeOK
<1> QED BY <1>1, <1>3, <1>4, <1>5, <1>6, <1>7, StartedKeeps

\* startInLoop, queued by another thread.
LEMMA RunStartKeeps ==
    ASSUME IInv, NEW o \in Outcomes, RunStart(o)
    PROVE  IInv'
<1>1. /\ queue # <<>> /\ Head(queue) = "startInLoop" /\ queue' = Tail(queue)
      /\ StartInLoop(state, connect, timers, retryDelayMs, o)
      /\ UNCHANGED <<client, orphan, clean, clientConnect, connect, connection,
                     restarting, calls, started, wanted, stopped, other>>
  BY DEF RunStart, Runs, lifeVars, userVars
<1>2. /\ timers \in Nat /\ sockets \in Nat /\ retryDelayMs \in Delays
      /\ connect \in BOOLEAN /\ gaveUp \in BOOLEAN
      /\ {clientConnect, connect, started, wanted, stopped, connection, restarting}
            \subseteq BOOLEAN
      /\ calls \in 0..MaxCalls /\ queue \in Seq(Functions)
  BY DEF IInv, TypeOK, Delays
<1>3. /\ queue' \in Seq(Functions)
      /\ CountOf(queue, "startInLoop") = CountOf(queue', "startInLoop") + 1
      /\ CountOf(queue, "resetChannel") = CountOf(queue', "resetChannel")
      /\ CountOf(queue, "connectionDestory") = CountOf(queue', "connectionDestory")
  <2>1. /\ queue' \in Seq(Functions)
        /\ \A f : CountOf(queue, f) = CountOf(queue', f) + One("startInLoop" = f)
    BY <1>1, <1>2, CountTail
  <2>2. CountOf(queue', "resetChannel") \in Nat /\ CountOf(queue', "connectionDestory") \in Nat
    BY <2>1, CountType
  <2> QED BY <2>1, <2>2 DEF One
<1>4. CountOf(queue', "startInLoop") \in Nat
  BY <1>3, CountType
<1>5. /\ CountOf(queue', "startInLoop") = 0 /\ timers = 0 /\ ~connection /\ ~restarting
  BY <1>2, <1>3, <1>4 DEF IInv, AttemptExact, Attempts
<1>6. /\ state = "DISCONNECTED" /\ channel = "none" /\ started /\ ~InConnect
      /\ wanted => connect /\ clientConnect /\ client = "alive"
  BY <1>3, <1>4, <1>5 DEF IInv, StartsClean, NotBeforeConnect, AttemptExact
<1>7. StartedWith(connect)
  BY <1>1, <1>2, <1>5, <1>6, StartEffect
<1> QED BY <1>1, <1>2, <1>3, <1>5, <1>6, <1>7, StartedKeeps

\* Connector::restart.
LEMMA RestartKeeps ==
    ASSUME IInv, NEW o \in Outcomes, Restart(o)
    PROVE  IInv'
<1>1. /\ restarting /\ restarting' = FALSE /\ connect' = TRUE
      /\ StartInLoop("DISCONNECTED", TRUE, timers, RetryDelayMs, o)
      /\ UNCHANGED <<client, orphan, clean, clientConnect, queue, connection,
                     calls, started, wanted, stopped, other>>
  BY DEF Restart, lifeVars, userVars
<1>2. /\ timers \in Nat /\ sockets \in Nat /\ gaveUp \in BOOLEAN
      /\ {clientConnect, connect, started, wanted, stopped, connection, restarting}
            \subseteq BOOLEAN
      /\ calls \in 0..MaxCalls /\ queue \in Seq(Functions)
  BY DEF IInv, TypeOK
<1>3. RetryDelayMs \in Delays
  BY TcpClientAssumption DEF Delays
<1>4. CountOf(queue, "startInLoop") = 0 /\ timers = 0
  BY <1>1, <1>2, QueueCounts DEF IInv, AttemptExact, Attempts
<1>5. /\ channel = "none" /\ started /\ ~InConnect /\ ~connection
      /\ wanted => clientConnect /\ client = "alive"
  BY <1>1 DEF IInv, StartsClean, NotBeforeConnect, AttemptExact
<1>6. StartedWith(TRUE)
  BY <1>1, <1>2, <1>3, <1>4, <1>5, StartEffect
<1> QED BY <1>1, <1>2, <1>4, <1>5, <1>6, StartedKeeps

\* connect() by the loop thread.
LEMMA ConnectHereKeeps ==
    ASSUME Assumed, IInv, NEW o \in Outcomes, ConnectHere(o)
    PROVE  IInv'
<1>1. /\ ~started /\ calls < MaxCalls /\ client = "alive"
      /\ calls' = calls + 1 /\ started' = TRUE /\ wanted' = TRUE /\ stopped' = FALSE
      /\ clientConnect' = TRUE /\ connect' = TRUE
      /\ StartInLoop(state, TRUE, timers, retryDelayMs, o)
      /\ UNCHANGED <<client, orphan, clean, queue, connection, restarting, other>>
  BY DEF ConnectHere, MayConnect, MayCall, Assumed, lifeVars
<1>2. /\ sockets \in Nat /\ gaveUp \in BOOLEAN /\ retryDelayMs \in Delays
      /\ {connection, restarting} \subseteq BOOLEAN
      /\ calls \in 0..MaxCalls /\ queue \in Seq(Functions) /\ MaxCalls \in Nat
  BY TcpClientAssumption DEF IInv, TypeOK, Delays
<1>3. /\ CountOf(queue, "startInLoop") = 0 /\ timers = 0 /\ state = "DISCONNECTED"
      /\ channel = "none" /\ ~connection /\ ~restarting /\ ~InConnect
  BY <1>1 DEF IInv, NotBeforeConnect, ConnectGoesOn
<1>4. calls' \in 0..MaxCalls
  BY <1>1, <1>2
<1>5. StartedWith(TRUE)
  BY <1>1, <1>2, <1>3, StartEffect
<1> QED BY <1>1, <1>2, <1>3, <1>4, <1>5, StartedKeeps

---------------------------------------------------------------------------
(* Attempts that end.                                                      *)

\* The counts that matter are the same in the queues q and r.
SameCounts(q, r) ==
    /\ CountOf(q, "startInLoop") = CountOf(r, "startInLoop")
    /\ CountOf(q, "resetChannel") = CountOf(r, "resetChannel")
    /\ CountOf(q, "connectionDestory") = CountOf(r, "connectionDestory")

\* A function that starts, resets and destroys nothing is put into a queue.
LEMMA AppendOther ==
    ASSUME NEW q \in Seq(Functions), NEW e \in {"stopInLoop", "forceCloseInLoop"}
    PROVE  Append(q, e) \in Seq(Functions) /\ SameCounts(Append(q, e), q)
<1>1. e \in Functions
  BY DEF Functions, ConnectorFunctions
<1>2. /\ Append(q, e) \in Seq(Functions)
      /\ \A f : CountOf(Append(q, e), f) = CountOf(q, f) + One(e = f)
  BY <1>1, CountAppend
<1>3. /\ CountOf(q, "startInLoop") \in Nat /\ CountOf(q, "resetChannel") \in Nat
      /\ CountOf(q, "connectionDestory") \in Nat
  BY CountType
<1> QED BY <1>2, <1>3 DEF SameCounts, One

\* Such a function has run.
LEMMA TailOther ==
    ASSUME NEW q \in Seq(Functions), q # <<>>, Head(q) \in {"stopInLoop", "forceCloseInLoop"}
    PROVE  Tail(q) \in Seq(Functions) /\ SameCounts(Tail(q), q)
<1>1. /\ Tail(q) \in Seq(Functions)
      /\ \A f : CountOf(q, f) = CountOf(Tail(q), f) + One(Head(q) = f)
  BY CountTail
<1>2. /\ CountOf(Tail(q), "startInLoop") \in Nat /\ CountOf(Tail(q), "resetChannel") \in Nat
      /\ CountOf(Tail(q), "connectionDestory") \in Nat
  BY <1>1, CountType
<1> QED BY <1>1, <1>2 DEF SameCounts, One

\* What an attempt in progress excludes.
LEMMA WatchingAlone ==
    ASSUME IInv, channel = "watching"
    PROVE  /\ timers = 0 /\ CountOf(queue, "startInLoop") = 0
           /\ ~connection /\ ~restarting /\ started /\ ~InConnect
           /\ CountOf(queue, "resetChannel") = 0
<1>1. timers \in Nat
  BY DEF IInv, TypeOK
<1>2. timers = 0 /\ CountOf(queue, "startInLoop") = 0 /\ ~connection /\ ~restarting
  BY <1>1, QueueCounts DEF IInv, AttemptExact, Attempts
<1> QED BY <1>2 DEF IInv, NotBeforeConnect, ChannelExact, One

\* handleWrite, handleError or stopInLoop ends an attempt that failed or is
\* no longer wanted, and retry sets a timer if connect_ holds.
LEMMA AttemptEnds ==
    ASSUME IInv, channel = "watching",
           NEW q \in Seq(Functions), SameCounts(q, queue),
           RemoveAndResetChannel(q), sockets' = sockets - 1,
           Retry(connect, timers, retryDelayMs),
           UNCHANGED <<lifeVars, clientConnect, connect, connection, restarting, userVars,
                       gaveUp, aborted>>
    PROVE  IInv'
<1>1. /\ timers = 0 /\ CountOf(queue, "startInLoop") = 0
      /\ ~connection /\ ~restarting /\ started /\ ~InConnect
      /\ CountOf(queue, "resetChannel") = 0
  BY WatchingAlone
<1>2. /\ UNCHANGED <<client, orphan, clean, clientConnect, connect, connection, restarting,
                     calls, started, wanted, stopped, other, gaveUp, aborted>>
      /\ channel' = "removed" /\ state' = "DISCONNECTED"
      /\ queue' = Append(q, "resetChannel") /\ sockets' = sockets - 1
  BY DEF RemoveAndResetChannel, Retry, lifeVars, userVars
<1>3. /\ queue' \in Seq(Functions) /\ CountOf(queue', "startInLoop") = 0
      /\ CountOf(queue', "resetChannel") = 1
      /\ CountOf(queue', "connectionDestory") = CountOf(queue, "connectionDestory")
  <2>1. /\ queue' \in Seq(Functions)
        /\ \A f : CountOf(queue', f) = CountOf(q, f) + One("resetChannel" = f)
    <3>1. "resetChannel" \in Functions
      BY DEF Functions, ConnectorFunctions
    <3> QED BY <1>2, <3>1, CountAppend
  <2> QED BY <1>1, <2>1, QueueCounts DEF One, SameCounts, IInv
<1>4. /\ timers' = IF connect THEN 1 ELSE 0
      /\ timers' \in Nat /\ timers' <= 1 /\ retryDelayMs' \in Delays
  <2>1. retryDelayMs \in Delays
    BY DEF IInv, TypeOK, Delays
  <2> QED BY <1>1, <2>1, BackoffInRange DEF Retry
<1>5. sockets' \in Nat
  BY <1>1, <1>2, QueueCounts DEF IInv, TypeOK, SocketsExact, Watching, One
<1>6. TypeOK'
  BY <1>2, <1>3, <1>4, <1>5 DEF IInv, TypeOK, Delays
<1>7. NotBeforeConnect' /\ ConnectGoesOn'
  BY <1>1, <1>2 DEF NotBeforeConnect, ConnectGoesOn, InConnect
<1>8. ChannelExact'
  BY <1>2, <1>3 DEF ChannelExact, Watching, One
<1>9. StartsClean'
  BY <1>1, <1>2, <1>3 DEF StartsClean
<1>10. AttemptExact'
  <2>1. Attempts' = timers'
    BY <1>1, <1>2, <1>3, <1>4 DEF Attempts
  <2>2. wanted => connect /\ clientConnect /\ client = "alive"
    BY DEF IInv, AttemptExact
  <2> QED BY <1>2, <1>4, <2>1, <2>2 DEF AttemptExact
<1>11. SocketsExact'
  BY <1>1, <1>2, <1>3, QueueCounts DEF IInv, TypeOK, SocketsExact, Watching, One
<1> QED BY <1>2, <1>6, <1>7, <1>8, <1>9, <1>10, <1>11 DEF IInv

\* The connect in progress fails.
LEMMA ConnectFailsKeeps ==
    ASSUME IInv, ConnectFails
    PROVE  IInv'
<1>1. queue \in Seq(Functions) /\ SameCounts(queue, queue)
  BY DEF IInv, TypeOK, SameCounts
<1> QED BY <1>1, AttemptEnds DEF ConnectFails

\* The socket is connected: the connection takes it over, or it is closed.
LEMMA HandleWriteKeeps ==
    ASSUME IInv, HandleWrite
    PROVE  IInv'
<1>1. /\ timers = 0 /\ CountOf(queue, "startInLoop") = 0
      /\ ~connection /\ ~restarting /\ started /\ ~InConnect
      /\ CountOf(queue, "resetChannel") = 0
  BY WatchingAlone DEF HandleWrite
<1>2. /\ UNCHANGED <<client, orphan, clean, clientConnect, connect, restarting,
                     calls, started, wanted, stopped, other, timers, retryDelayMs,
                     gaveUp, aborted>>
      /\ channel = "watching" /\ channel' = "removed" /\ state' = "CONNECTED"
      /\ queue' = Append(queue, "resetChannel")
  BY DEF HandleWrite, RemoveAndResetChannel, lifeVars, userVars
<1>3. client = "alive" /\ orphan = "none"
  BY <1>1 DEF HandleWrite, ConnectorAlive, IInv, SocketsExact
<1>4. /\ queue' \in Seq(Functions) /\ CountOf(queue', "startInLoop") = 0
      /\ CountOf(queue', "resetChannel") = 1
      /\ CountOf(queue', "connectionDestory") = CountOf(queue, "connectionDestory")
  <2>1. /\ queue' \in Seq(Functions)
        /\ \A f : CountOf(queue', f) = CountOf(queue, f) + One("resetChannel" = f)
    <3>1. "resetChannel" \in Functions /\ queue \in Seq(Functions)
      BY DEF Functions, ConnectorFunctions, IInv, TypeOK
    <3> QED BY <1>2, <3>1, CountAppend
  <2> QED BY <1>1, <2>1, QueueCounts DEF One, IInv
<1>5. /\ connection' \in BOOLEAN /\ connect \in BOOLEAN
      /\ connection' <=> connect
      /\ connect => sockets' = sockets
      /\ ~connect => sockets' = sockets - 1
  <2>1. connection \in BOOLEAN /\ connect \in BOOLEAN
    BY DEF IInv, TypeOK
  <2> QED BY <1>1, <2>1 DEF HandleWrite, NewConnection, CloseUnwanted
<1>6. sockets = 1 + CountOf(queue, "connectionDestory")
  BY <1>1, <1>2, <1>3, QueueCounts DEF IInv, SocketsExact, Watching, One
<1>7. sockets' = One(connection') + CountOf(queue', "connectionDestory") /\ sockets' \in Nat
  BY <1>4, <1>5, <1>6, QueueCounts DEF One, IInv
<1>8. TypeOK'
  BY <1>2, <1>4, <1>5, <1>7 DEF IInv, TypeOK
<1>9. NotBeforeConnect' /\ ConnectGoesOn' /\ ChannelExact' /\ StartsClean'
  BY <1>1, <1>2, <1>4 DEF NotBeforeConnect, ConnectGoesOn, InConnect, ChannelExact, StartsClean,
                          Watching, One
<1>10. AttemptExact'
  <2>1. Attempts' = One(connection')
    BY <1>1, <1>2, <1>4 DEF Attempts, One
  <2>2. wanted => connect /\ clientConnect /\ client = "alive"
    BY DEF IInv, AttemptExact
  <2>3. Attempts' <= 1 /\ (connection' => Attempts' = 1)
    BY <2>1 DEF One
  <2> QED BY <1>2, <1>5, <2>2, <2>3 DEF AttemptExact
<1>11. SocketsExact'
  BY <1>2, <1>3, <1>7, <1>4, CountType DEF SocketsExact, Watching, One
<1> QED BY <1>2, <1>8, <1>9, <1>10, <1>11 DEF IInv

---------------------------------------------------------------------------
(* Steps that leave the attempt as it is.                                  *)

\* A call, a function or the end of a client without a connection leaves the
\* attempt and the connection alone, and at most takes the wish back.
LEMMA QuietKeeps ==
    ASSUME IInv, UNCHANGED <<attemptVars, connection, restarting, started, orphan>>,
           {clientConnect', connect', wanted', stopped', clean'} \subseteq BOOLEAN,
           other' = other \/ other' \in {"none", "stop"},
           InConnect => client' = client,
           other = "queue" => UNCHANGED <<clientConnect, connect>> \/ clientConnect' = FALSE,
           calls' \in 0..MaxCalls, client' \in {"alive", "gone", "wild"},
           client' = client \/ (client' # "alive" /\ ~connection),
           wanted' => wanted /\ UNCHANGED <<clientConnect, connect, client>>,
           queue' \in Seq(Functions), SameCounts(queue', queue)
    PROVE  IInv'
<1>1. UNCHANGED <<state, channel, sockets, timers, retryDelayMs, gaveUp, aborted,
                  connection, restarting, started, orphan>>
  BY DEF attemptVars
<1>2. /\ CountOf(queue', "startInLoop") = CountOf(queue, "startInLoop")
      /\ CountOf(queue', "resetChannel") = CountOf(queue, "resetChannel")
      /\ CountOf(queue', "connectionDestory") = CountOf(queue, "connectionDestory")
  BY DEF SameCounts
<1>3. TypeOK'
  BY <1>1 DEF IInv, TypeOK
<1>4. NotBeforeConnect' /\ ConnectGoesOn'
  BY <1>1, <1>2 DEF IInv, NotBeforeConnect, ConnectGoesOn, InConnect
<1>5. ChannelExact' /\ StartsClean'
  BY <1>1, <1>2 DEF IInv, ChannelExact, StartsClean, Watching
<1>6. AttemptExact'
  <2>1. Attempts' = Attempts
    BY <1>1, <1>2 DEF Attempts
  <2> QED BY <1>1, <2>1 DEF IInv, AttemptExact
<1>7. SocketsExact'
  BY <1>1, <1>2 DEF IInv, SocketsExact, Watching
<1> QED BY <1>1, <1>3, <1>4, <1>5, <1>6, <1>7 DEF IInv

\* The types that QuietKeeps asks for, of a variable that does not change.
LEMMA Flags ==
    ASSUME IInv
    PROVE  /\ clientConnect \in BOOLEAN /\ connect \in BOOLEAN /\ wanted \in BOOLEAN
           /\ stopped \in BOOLEAN /\ clean \in BOOLEAN
           /\ connection \in BOOLEAN
           /\ calls \in 0..MaxCalls /\ client \in {"alive", "gone", "wild"}
           /\ queue \in Seq(Functions) /\ SameCounts(queue, queue)
           /\ calls < MaxCalls => calls + 1 \in 0..MaxCalls
<1>1. calls \in 0..MaxCalls /\ MaxCalls \in Nat
  BY TcpClientAssumption DEF IInv, TypeOK
<1>2. calls < MaxCalls => calls + 1 \in 0..MaxCalls
  BY <1>1
<1> QED BY <1>2 DEF IInv, TypeOK, SameCounts

\* disconnect(), stop() and its second half, in whichever thread.
LEMMA CallsKeep ==
    ASSUME IInv, Disconnect \/ StopHere \/ StopThere \/ ConnectorStop
    PROVE  IInv'
<1> USE Flags
<1>1. Append(queue, "stopInLoop") \in Seq(Functions)
      /\ SameCounts(Append(queue, "stopInLoop"), queue)
  BY AppendOther
<1>2. CASE Disconnect
  <2>1. /\ wanted' = FALSE /\ clientConnect' = FALSE /\ calls' = calls + 1 /\ calls < MaxCalls
        /\ UNCHANGED <<client, orphan, clean, connect, queue, connection, restarting, started,
                       stopped, other, attemptVars>>
    BY <1>2 DEF Disconnect, MayCall, lifeVars
  <2> QED BY <2>1, QuietKeeps
<1>3. CASE StopHere
  <2>1. /\ wanted' = FALSE /\ clientConnect' = FALSE /\ connect' = FALSE /\ stopped' = TRUE
        /\ calls' = calls + 1 /\ calls < MaxCalls /\ queue' = Append(queue, "stopInLoop")
        /\ UNCHANGED <<client, orphan, clean, connection, restarting, started,
                       other, attemptVars>>
    BY <1>3 DEF StopHere, MayCall, lifeVars
  <2> QED BY <1>1, <2>1, QuietKeeps
<1>4. CASE StopThere
  <2>1. /\ wanted' = FALSE /\ clientConnect' = FALSE /\ other' = "stop" /\ other = "none"
        /\ calls' = calls + 1 /\ calls < MaxCalls
        /\ UNCHANGED <<client, orphan, clean, connect, queue, connection, restarting, started,
                       stopped, attemptVars>>
    BY <1>4 DEF StopThere, OtherFree, MayCall, lifeVars
  <2> QED BY <2>1, QuietKeeps
<1>5. CASE ConnectorStop
  <2>1. /\ wanted' = FALSE /\ connect' = FALSE /\ other' = "none" /\ other = "stop"
        /\ queue' = Append(queue, "stopInLoop")
        /\ UNCHANGED <<client, orphan, clean, clientConnect, connection, restarting, started,
                       calls, stopped, attemptVars>>
    BY <1>5 DEF ConnectorStop, lifeVars
  <2> QED BY <1>1, <2>1, QuietKeeps
<1> QED BY <1>2, <1>3, <1>4, <1>5

\* stopInLoop: it ends the attempt in progress, if there is one.
LEMMA RunStopKeeps ==
    ASSUME IInv, RunStop
    PROVE  IInv'
<1>1. Tail(queue) \in Seq(Functions) /\ SameCounts(Tail(queue), queue)
  BY Flags, TailOther DEF RunStop, Runs
<1>2. CASE state = "CONNECTING"
  <2>1. channel = "watching"
    BY <1>2 DEF IInv, ChannelExact, Watching
  <2> QED BY <1>1, <1>2, <2>1, AttemptEnds DEF RunStop
<1>3. CASE state # "CONNECTING"
  <2>1. /\ queue' = Tail(queue)
        /\ UNCHANGED <<client, orphan, clean, clientConnect, connect, connection, restarting,
                       calls, started, wanted, stopped, other, attemptVars>>
    BY <1>3 DEF RunStop, lifeVars, userVars, attemptVars
  <2> QED BY <1>1, <2>1, Flags, QuietKeeps
<1> QED BY <1>2, <1>3

\* Something bound to a freed Connector is used.
LEMMA UseAfterFreeKeeps ==
    ASSUME IInv, UseAfterFree
    PROVE  IInv'
<1>1. /\ client # "alive" /\ client' = "wild"
      /\ UNCHANGED <<orphan, clean, clientConnect, connect, queue, connection, restarting,
                     calls, started, wanted, stopped, other, attemptVars>>
  BY DEF UseAfterFree, ConnectorAlive, userVars
<1>2. ~wanted /\ ~connection /\ ~InConnect
  BY <1>1 DEF IInv, AttemptExact, SocketsExact, ConnectGoesOn
<1>3. other # "queue"
  BY <1>2 DEF InConnect
<1> QED BY <1>1, <1>2, <1>3, Flags, QuietKeeps

\* A step outside the model changes nothing.
LEMMA StutterKeeps ==
    ASSUME IInv, UNCHANGED vars
    PROVE  IInv'
<1>1. UNCHANGED <<client, orphan, clean, clientConnect, connect, queue, connection,
                  restarting, calls, started, wanted, stopped, other, attemptVars>>
  BY DEF vars, lifeVars, userVars
<1> QED BY <1>1, Flags, QuietKeeps

---------------------------------------------------------------------------
(* The channel, the connection and the client go.                          *)

\* resetChannel finds the channel it removes.
LEMMA RunResetKeeps ==
    ASSUME IInv, RunReset
    PROVE  IInv'
<1>1. /\ queue # <<>> /\ Head(queue) = "resetChannel" /\ queue' = Tail(queue)
      /\ channel' = "none"
      /\ UNCHANGED <<client, orphan, clean, clientConnect, connect, connection, restarting,
                     calls, started, wanted, stopped, other, state, sockets, timers,
                     retryDelayMs, gaveUp, aborted>>
  BY DEF RunReset, Runs, lifeVars, userVars
<1>2. /\ queue' \in Seq(Functions)
      /\ CountOf(queue', "startInLoop") = CountOf(queue, "startInLoop")
      /\ CountOf(queue, "resetChannel") = CountOf(queue', "resetChannel") + 1
      /\ CountOf(queue', "connectionDestory") = CountOf(queue, "connectionDestory")
  <2>1. /\ queue' \in Seq(Functions)
        /\ \A f : CountOf(queue, f) = CountOf(queue', f) + One("resetChannel" = f)
    BY <1>1, Flags, CountTail
  <2>2. CountOf(queue', "startInLoop") \in Nat /\ CountOf(queue', "connectionDestory") \in Nat
    BY <2>1, CountType
  <2> QED BY <2>1, <2>2 DEF One
<1>3. CountOf(queue', "resetChannel") \in Nat
  BY <1>2, CountType
<1>4. channel = "removed" /\ CountOf(queue', "resetChannel") = 0
  BY <1>2, <1>3 DEF IInv, ChannelExact, One
<1>5. TypeOK'
  BY <1>1, <1>2 DEF IInv, TypeOK
<1>6. NotBeforeConnect' /\ ConnectGoesOn'
  BY <1>1, <1>4 DEF IInv, NotBeforeConnect, ConnectGoesOn, InConnect
<1>7. ChannelExact' /\ StartsClean'
  BY <1>1, <1>2, <1>4 DEF IInv, ChannelExact, StartsClean, Watching, One
<1>8. AttemptExact'
  <2>1. Attempts' = Attempts
    BY <1>1, <1>2, <1>4 DEF Attempts
  <2> QED BY <1>1, <2>1 DEF IInv, AttemptExact
<1>9. SocketsExact'
  BY <1>1, <1>2, <1>4 DEF IInv, SocketsExact, Watching, One
<1> QED BY <1>1, <1>5, <1>6, <1>7, <1>8, <1>9 DEF IInv

\* connectionDestory closes the socket of a connection that was removed.
LEMMA RunDestroyKeeps ==
    ASSUME IInv, RunDestroy
    PROVE  IInv'
<1>1. /\ queue # <<>> /\ Head(queue) = "connectionDestory" /\ queue' = Tail(queue)
      /\ sockets' = sockets - 1
      /\ UNCHANGED <<client, orphan, clean, clientConnect, connect, connection, restarting,
                     calls, started, wanted, stopped, other, state, channel, timers,
                     retryDelayMs, gaveUp, aborted>>
  BY DEF RunDestroy, Runs, lifeVars, userVars
<1>2. /\ queue' \in Seq(Functions)
      /\ CountOf(queue', "startInLoop") = CountOf(queue, "startInLoop")
      /\ CountOf(queue', "resetChannel") = CountOf(queue, "resetChannel")
      /\ CountOf(queue, "connectionDestory") = CountOf(queue', "connectionDestory") + 1
  <2>1. /\ queue' \in Seq(Functions)
        /\ \A f : CountOf(queue, f) = CountOf(queue', f) + One("connectionDestory" = f)
    BY <1>1, Flags, CountTail
  <2>2. CountOf(queue', "startInLoop") \in Nat /\ CountOf(queue', "resetChannel") \in Nat
    BY <2>1, CountType
  <2> QED BY <2>1, <2>2 DEF One
<1>3. CountOf(queue', "connectionDestory") \in Nat
  BY <1>2, CountType
<1>4. /\ sockets' \in Nat
      /\ sockets' = One(Watching) + One(connection \/ orphan # "none")
                    + CountOf(queue', "connectionDestory")
  BY <1>1, <1>2, <1>3 DEF IInv, SocketsExact, One
<1>5. TypeOK'
  BY <1>1, <1>2, <1>4 DEF IInv, TypeOK
<1>6. NotBeforeConnect' /\ ConnectGoesOn' /\ ChannelExact' /\ StartsClean'
  BY <1>1, <1>2 DEF IInv, NotBeforeConnect, ConnectGoesOn, InConnect, ChannelExact, StartsClean,
                    Watching
<1>7. AttemptExact'
  <2>1. Attempts' = Attempts
    BY <1>1, <1>2 DEF Attempts
  <2> QED BY <1>1, <2>1 DEF IInv, AttemptExact
<1>8. SocketsExact'
  BY <1>1, <1>4 DEF IInv, SocketsExact, Watching
<1> QED BY <1>1, <1>5, <1>6, <1>7, <1>8 DEF IInv

\* A queue after connectionDestory was put into q.
LEMMA AppendDestroy ==
    ASSUME NEW q \in Seq(Functions)
    PROVE  LET r == Append(q, "connectionDestory")
           IN  /\ r \in Seq(Functions)
               /\ CountOf(r, "startInLoop") = CountOf(q, "startInLoop")
               /\ CountOf(r, "resetChannel") = CountOf(q, "resetChannel")
               /\ CountOf(r, "connectionDestory") = CountOf(q, "connectionDestory") + 1
<1>1. "connectionDestory" \in Functions
  BY DEF Functions
<1>2. /\ Append(q, "connectionDestory") \in Seq(Functions)
      /\ \A f : CountOf(Append(q, "connectionDestory"), f)
                  = CountOf(q, f) + One("connectionDestory" = f)
  BY <1>1, CountAppend
<1>3. CountOf(q, "startInLoop") \in Nat /\ CountOf(q, "resetChannel") \in Nat
  BY CountType
<1> QED BY <1>2, <1>3 DEF One

\* The connection closes, and restart follows if the client retries.
LEMMA ConnectionClosesKeeps ==
    ASSUME IInv, ConnectionCloses
    PROVE  IInv'
<1>1. /\ connection /\ ~Contains(queue, "resetChannel") /\ connection' = FALSE
      /\ queue' = Append(queue, "connectionDestory")
      /\ restarting' = (EnableRetry /\ clientConnect)
      /\ UNCHANGED <<client, orphan, clean, clientConnect, connect, calls, started, wanted,
                     stopped, other, state, channel, sockets, timers,
                     retryDelayMs, gaveUp, aborted>>
  BY DEF ConnectionCloses, lifeVars, userVars, attemptVars
<1>2. /\ queue' \in Seq(Functions)
      /\ CountOf(queue', "startInLoop") = CountOf(queue, "startInLoop")
      /\ CountOf(queue', "resetChannel") = CountOf(queue, "resetChannel")
      /\ CountOf(queue', "connectionDestory") = CountOf(queue, "connectionDestory") + 1
  BY <1>1, Flags, AppendDestroy
<1>3. timers \in Nat /\ channel \in {"none", "watching", "removed"}
  BY DEF IInv, TypeOK
<1>4. /\ timers = 0 /\ CountOf(queue, "startInLoop") = 0 /\ channel # "watching"
      /\ started /\ ~InConnect /\ orphan = "none"
  <2>1. timers = 0 /\ CountOf(queue, "startInLoop") = 0 /\ channel # "watching"
    BY <1>1, <1>3, QueueCounts DEF IInv, AttemptExact, Attempts
  <2> QED BY <1>1, <2>1 DEF IInv, NotBeforeConnect, SocketsExact
<1>5. channel = "none"
  <2>1. CountOf(queue, "resetChannel") = 0
    BY <1>1, Flags, CountType
  <2> QED BY <1>3, <1>4, <2>1 DEF IInv, ChannelExact, One
<1>6. TypeOK'
  <2>1. restarting' \in BOOLEAN
    BY <1>1, Flags, TcpClientAssumption
  <2> QED BY <1>1, <1>2, <2>1 DEF IInv, TypeOK
<1>7. NotBeforeConnect' /\ ConnectGoesOn' /\ ChannelExact' /\ StartsClean'
  BY <1>1, <1>2, <1>4, <1>5 DEF IInv, NotBeforeConnect, ConnectGoesOn, InConnect, ChannelExact,
                                StartsClean, Watching
<1>8. AttemptExact'
  <2>1. Attempts' = One(restarting')
    BY <1>1, <1>2, <1>4, <1>5 DEF Attempts, One
  <2>2. Attempts' <= 1 /\ (restarting' => Attempts' = 1)
    BY <2>1 DEF One
  <2>3. wanted => connect /\ clientConnect /\ client = "alive"
    BY DEF IInv, AttemptExact
  <2> QED BY <1>1, <2>2, <2>3 DEF AttemptExact
<1>9. SocketsExact'
  BY <1>1, <1>2, <1>4, <1>5, QueueCounts DEF IInv, SocketsExact, Watching, One
<1> QED BY <1>1, <1>6, <1>7, <1>8, <1>9 DEF IInv

\* connect() by another thread, up to its call of Connector::start, and the
\* store of connect_ there.
LEMMA ConnectThereKeeps ==
    ASSUME Assumed, IInv, ConnectThere \/ ConnectorStart
    PROVE  IInv'
<1>1. /\ ~started \/ InConnect
      /\ client = "alive" /\ started' = TRUE /\ InConnect'
      /\ clientConnect' \in BOOLEAN /\ connect' \in BOOLEAN /\ calls' \in 0..MaxCalls
      /\ other' \in {"start", "queue"}
      /\ other' = "queue" => connect' = TRUE
      /\ UNCHANGED <<client, orphan, clean, queue, connection, restarting, wanted, stopped,
                     state, channel, sockets, timers, retryDelayMs, gaveUp, aborted>>
  <2>1. CASE ConnectThere
    BY <2>1, Flags DEF ConnectThere, MayConnect, MayCall, Assumed, InConnect, lifeVars,
                       attemptVars
  <2>2. CASE ConnectorStart
    <3>1. InConnect /\ client = "alive" /\ started = TRUE
      BY <2>2 DEF ConnectorStart, InConnect, IInv, ConnectGoesOn, TypeOK
    <3> QED BY <2>2, <3>1, Flags DEF ConnectorStart, InConnect, lifeVars, attemptVars
  <2> QED BY <2>1, <2>2
<1>2. ~wanted /\ Attempts' = Attempts
  BY <1>1 DEF IInv, NotBeforeConnect, Attempts
<1>3. TypeOK'
  BY <1>1 DEF IInv, TypeOK
<1>4. NotBeforeConnect' /\ ConnectGoesOn'
  BY <1>1 DEF IInv, NotBeforeConnect, ConnectGoesOn
<1>5. ChannelExact' /\ StartsClean' /\ AttemptExact' /\ SocketsExact'
  BY <1>1, <1>2 DEF IInv, ChannelExact, StartsClean, AttemptExact, SocketsExact, Watching
<1> QED BY <1>1, <1>3, <1>4, <1>5 DEF IInv

\* connect() by another thread queues the start.
LEMMA QueueStartKeeps ==
    ASSUME IInv, QueueStart
    PROVE  IInv'
<1>1. /\ other = "queue" /\ other' = "none"
      /\ queue' = Append(queue, "startInLoop")
      /\ wanted' = clientConnect /\ stopped' \in BOOLEAN
      /\ UNCHANGED <<client, orphan, clean, clientConnect, connect, connection, restarting,
                     calls, started, state, channel, sockets, timers, retryDelayMs, gaveUp,
                     aborted>>
  BY Flags DEF QueueStart, lifeVars, attemptVars
<1>2. /\ CountOf(queue, "startInLoop") = 0 /\ timers = 0 /\ state = "DISCONNECTED"
      /\ channel = "none" /\ ~connection /\ ~restarting
      /\ started /\ client = "alive" /\ (clientConnect => connect)
  BY <1>1 DEF IInv, NotBeforeConnect, ConnectGoesOn, InConnect
<1>3. /\ queue' \in Seq(Functions)
      /\ CountOf(queue', "startInLoop") = 1
      /\ CountOf(queue', "resetChannel") = CountOf(queue, "resetChannel")
      /\ CountOf(queue', "connectionDestory") = CountOf(queue, "connectionDestory")
  <2>1. "startInLoop" \in Functions
    BY DEF Functions, ConnectorFunctions
  <2>2. /\ queue' \in Seq(Functions)
        /\ \A f : CountOf(queue', f) = CountOf(queue, f) + One("startInLoop" = f)
    BY <1>1, <2>1, Flags, CountAppend
  <2> QED BY <1>2, <2>2, QueueCounts DEF One, IInv
<1>4. TypeOK'
  BY <1>1, <1>3, Flags DEF IInv, TypeOK
<1>5. NotBeforeConnect' /\ ConnectGoesOn' /\ ChannelExact' /\ StartsClean'
  BY <1>1, <1>2, <1>3 DEF IInv, NotBeforeConnect, ConnectGoesOn, InConnect, ChannelExact,
                          StartsClean, Watching
<1>6. AttemptExact'
  <2>1. Attempts' = 1
    BY <1>1, <1>2, <1>3 DEF Attempts
  <2> QED BY <1>1, <1>2, <2>1 DEF AttemptExact
<1>7. SocketsExact'
  BY <1>1, <1>2, <1>3 DEF IInv, SocketsExact, Watching
<1> QED BY <1>1, <1>4, <1>5, <1>6, <1>7 DEF IInv

\* ~TcpClient: the connection passes to whoever closes it.
LEMMA DestroyKeeps ==
    ASSUME IInv, NEW unique \in BOOLEAN, Destroy(unique)
    PROVE  IInv'
<1>1. /\ client = "alive" /\ client' = "gone" /\ connection' = FALSE /\ wanted' = FALSE
      /\ other = "none"
      /\ UNCHANGED <<clientConnect, restarting, calls, started, stopped, other, state,
                     channel, sockets, timers, retryDelayMs, gaveUp, aborted>>
      /\ UNCHANGED attemptVars
  BY DEF Destroy, OtherFree, attemptVars
<1>2. clean' \in BOOLEAN
  BY Flags DEF Destroy
<1>3. CASE ~connection
  <2>1. connect' = FALSE /\ queue' = Append(queue, "stopInLoop") /\ orphan' = orphan
        /\ connection' = connection
    BY <1>1, <1>3, Flags DEF Destroy
  <2>2. queue' \in Seq(Functions) /\ SameCounts(queue', queue)
    BY <2>1, Flags, AppendOther
  <2> QED BY <1>1, <1>2, <1>3, <2>1, <2>2, Flags, QuietKeeps DEF InConnect
<1>4. CASE connection
  <2>1. /\ orphan' \in {"closing", "held"} /\ connect' = connect
        /\ queue' = Append(queue, "forceCloseInLoop") \/ queue' = queue
    BY <1>4 DEF Destroy
  <2>2. queue' \in Seq(Functions) /\ SameCounts(queue', queue)
    BY <2>1, Flags, AppendOther
  <2>3. orphan = "none" /\ started /\ ~restarting
    BY <1>1, <1>4 DEF IInv, SocketsExact, NotBeforeConnect, StartsClean
  <2>4. TypeOK'
    BY <1>1, <1>2, <2>1, <2>2 DEF IInv, TypeOK
  <2>5. NotBeforeConnect' /\ ConnectGoesOn' /\ ChannelExact' /\ StartsClean'
    BY <1>1, <2>2, <2>3 DEF IInv, NotBeforeConnect, ConnectGoesOn, InConnect, ChannelExact,
                            StartsClean, Watching, SameCounts
  <2>6. AttemptExact'
    <3>1. timers \in Nat
      BY DEF IInv, TypeOK
    <3>2. Attempts' <= Attempts
      BY <1>1, <1>4, <2>2, <2>3, <3>1, QueueCounts DEF Attempts, SameCounts, IInv
    <3>3. Attempts' <= 1
      BY <1>1, <2>2, <2>3, <3>1, <3>2, QueueCounts DEF IInv, AttemptExact, Attempts, SameCounts
    <3> QED BY <1>1, <3>3 DEF AttemptExact
  <2>7. SocketsExact'
    BY <1>1, <1>4, <2>1, <2>2 DEF IInv, SocketsExact, Watching, One, SameCounts
  <2> QED BY <1>1, <2>4, <2>5, <2>6, <2>7 DEF IInv
<1> QED BY <1>3, <1>4

\* The connection that outlived the client closes.
LEMMA OrphanGone ==
    ASSUME IInv, orphan # "none", orphan' = "none",
           NEW q \in Seq(Functions), SameCounts(q, queue),
           queue' = Append(q, "connectionDestory"),
           UNCHANGED <<clientConnect, connect, connection, restarting, client, clean,
                       userVars, attemptVars>>
    PROVE  IInv'
<1>1. UNCHANGED <<clientConnect, connect, connection, restarting, client, clean, calls,
                  started, wanted, stopped, other, state, channel, sockets, timers,
                  retryDelayMs, gaveUp, aborted>>
  BY DEF userVars, attemptVars
<1>2. /\ queue' \in Seq(Functions)
      /\ CountOf(queue', "startInLoop") = CountOf(queue, "startInLoop")
      /\ CountOf(queue', "resetChannel") = CountOf(queue, "resetChannel")
      /\ CountOf(queue', "connectionDestory") = CountOf(queue, "connectionDestory") + 1
  BY AppendDestroy DEF SameCounts
<1>3. ~connection
  BY DEF IInv, SocketsExact
<1>4. TypeOK'
  BY <1>1, <1>2 DEF IInv, TypeOK
<1>5. NotBeforeConnect' /\ ConnectGoesOn' /\ ChannelExact' /\ StartsClean'
  BY <1>1, <1>2 DEF IInv, NotBeforeConnect, ConnectGoesOn, InConnect, ChannelExact, StartsClean,
                    Watching
<1>6. AttemptExact'
  <2>1. Attempts' = Attempts
    BY <1>1, <1>2 DEF Attempts
  <2> QED BY <1>1, <2>1 DEF IInv, AttemptExact
<1>7. SocketsExact'
  BY <1>1, <1>2, <1>3, QueueCounts DEF IInv, SocketsExact, Watching, One
<1> QED BY <1>1, <1>4, <1>5, <1>6, <1>7 DEF IInv

\* The orphan closes by itself, or by forceCloseInLoop.
LEMMA OrphanKeeps ==
    ASSUME IInv, OrphanCloses \/ RunForceClose
    PROVE  IInv'
<1>1. CASE OrphanCloses
  BY <1>1, Flags, OrphanGone DEF OrphanCloses
<1>2. CASE RunForceClose
  <2>1. Tail(queue) \in Seq(Functions) /\ SameCounts(Tail(queue), queue)
    BY <1>2, Flags, TailOther DEF RunForceClose, Runs
  <2>2. CASE orphan # "none"
    BY <1>2, <2>1, <2>2, OrphanGone DEF RunForceClose
  <2>3. CASE orphan = "none"
    <3>1. /\ queue' = Tail(queue) /\ orphan' = orphan
          /\ UNCHANGED <<clientConnect, connect, connection, restarting, client, clean, calls,
                         started, wanted, stopped, other, attemptVars>>
      BY <1>2, <2>3 DEF RunForceClose, userVars
    <3> QED BY <2>1, <3>1, Flags, QuietKeeps
  <2> QED BY <2>2, <2>3
<1> QED BY <1>1, <1>2

---------------------------------------------------------------------------
(* The theorems.                                                           *)

\* The constructors leave a client without an attempt.
LEMMA InitInv == Init => IInv
<1> SUFFICES ASSUME Init PROVE IInv
  OBVIOUS
<1>1. queue = <<>> /\ queue \in Seq(Functions)
  BY DEF Init
<1>2. \A f : CountOf(queue, f) = 0
  <2>1. \A f : ~Contains(queue, f)
    BY <1>1 DEF Contains
  <2> QED BY <1>1, <2>1, CountType
<1>3. TypeOK
  <2>1. RetryDelayMs \in RetryDelayMs..MaxRetryDelayMs /\ MaxCalls \in Nat
    BY TcpClientAssumption
  <2>2. timers \in Nat /\ sockets \in Nat /\ calls \in 0..MaxCalls
    BY <2>1 DEF Init
  <2>3. {clientConnect, connect, connection, restarting, started, wanted,
         stopped, clean, gaveUp, aborted} \subseteq BOOLEAN
    BY DEF Init
  <2>4. retryDelayMs \in RetryDelayMs..MaxRetryDelayMs
    BY <2>1 DEF Init
  <2> QED BY <1>1, <2>2, <2>3, <2>4 DEF Init, TypeOK
<1>4. Attempts = 0
  BY <1>2 DEF Init, Attempts
<1> QED BY <1>2, <1>3, <1>4 DEF Init, IInv, NotBeforeConnect, ConnectGoesOn, InConnect,
                                ChannelExact, StartsClean, AttemptExact, SocketsExact, Watching, One

\* Every step keeps the invariant.
LEMMA NextInv ==
    ASSUME Assumed, IInv, [Next]_vars
    PROVE  IInv'
<1>1. CASE LoopStep
  BY <1>1, TimerFiresKeeps, RunStartKeeps, RestartKeeps, RunStopKeeps, RunResetKeeps,
     RunDestroyKeeps, OrphanKeeps, UseAfterFreeKeeps DEF LoopStep
<1>2. CASE UserStep
  BY <1>2, ConnectHereKeeps, ConnectThereKeeps, QueueStartKeeps, CallsKeep,
     DestroyKeeps DEF UserStep
<1>3. CASE ConnectFails \/ HandleWrite \/ ConnectionCloses \/ OrphanCloses
  BY <1>3, ConnectFailsKeeps, HandleWriteKeeps, ConnectionClosesKeeps, OrphanKeeps
<1>4. CASE UNCHANGED vars
  BY <1>4, StutterKeeps
<1> QED BY <1>1, <1>2, <1>3, <1>4 DEF Next

\* Every reachable state satisfies the invariant.
LEMMA Invariance == Assumed => (Spec => []IInv)
<1> SUFFICES ASSUME Assumed PROVE Spec => []IInv
  OBVIOUS
<1>1. IInv /\ [Next]_vars => IInv'
  BY NextInv
<1> QED BY <1>1, InitInv, PTL DEF Spec

\* For any delays and any number of calls of stop() and disconnect(), of any
\* thread: the timers, the queue, the channel and restart never hold two
\* attempts at once, no assert of Connector fails, and a connection that is
\* wanted and retried always has its one attempt.
THEOREM TcpClientOneAttempt == Assumed => (Spec => []OneAttempt)
<1>1. IInv => OneAttempt
  BY DEF IInv, AttemptExact, OneAttempt
<1> QED BY <1>1, Invariance, PTL

\* Every open descriptor has exactly one owner, whichever of stop(), an error,
\* a success, a close or the end of the client comes first.
THEOREM TcpClientNoSocketLeak == Assumed => (Spec => []NoSocketLeak)
<1>1. IInv => NoSocketLeak
  BY DEF IInv, SocketsExact, NoSocketLeak, Watching, One
<1> QED BY <1>1, Invariance, PTL

---------------------------------------------------------------------------
(* The client destroyed while it has a connection.                         *)

\* After a clean end nothing is left that is bound to the Connector.
NothingBound ==
    /\ client = "gone" /\ other = "none" /\ ~restarting /\ ~connection
    /\ timers = 0 /\ channel = "none"
    /\ \A f \in ConnectorFunctions : CountOf(queue, f) = 0

CleanInv == clean => NothingBound

\* A queue without functions of Connector stays so when something else is put
\* into it, or its head is taken.
LEMMA NoneQueued ==
    ASSUME NEW q \in Seq(Functions), \A f \in ConnectorFunctions : CountOf(q, f) = 0
    PROVE  /\ \A e \in {"forceCloseInLoop", "connectionDestory"} :
                /\ Append(q, e) \in Seq(Functions)
                /\ \A f \in ConnectorFunctions : CountOf(Append(q, e), f) = 0
           /\ q # <<>> => /\ Head(q) \notin ConnectorFunctions
                          /\ Tail(q) \in Seq(Functions)
                          /\ \A f \in ConnectorFunctions : CountOf(Tail(q), f) = 0
<1>1. ASSUME NEW e \in {"forceCloseInLoop", "connectionDestory"}
      PROVE  /\ Append(q, e) \in Seq(Functions)
             /\ \A f \in ConnectorFunctions : CountOf(Append(q, e), f) = 0
  <2>1. e \in Functions /\ \A f \in ConnectorFunctions : e # f
    BY DEF Functions, ConnectorFunctions
  <2>2. /\ Append(q, e) \in Seq(Functions)
        /\ \A f : CountOf(Append(q, e), f) = CountOf(q, f) + One(e = f)
    BY <2>1, CountAppend
  <2> QED BY <2>1, <2>2 DEF One
<1>2. ASSUME q # <<>>
      PROVE  /\ Head(q) \notin ConnectorFunctions
             /\ Tail(q) \in Seq(Functions)
             /\ \A f \in ConnectorFunctions : CountOf(Tail(q), f) = 0
  <2>1. /\ Tail(q) \in Seq(Functions)
        /\ \A f : CountOf(q, f) = CountOf(Tail(q), f) + One(Head(q) = f)
    BY <1>2, CountTail
  <2>2. \A f : CountOf(Tail(q), f) \in Nat
    BY <2>1, CountType
  <2>3. ASSUME NEW f \in ConnectorFunctions PROVE Head(q) # f /\ CountOf(Tail(q), f) = 0
    <3>1. 0 = CountOf(Tail(q), f) + One(Head(q) = f) /\ CountOf(Tail(q), f) \in Nat
      BY <2>1, <2>2
    <3> QED BY <3>1 DEF One
  <2> QED BY <2>1, <2>3
<1> QED BY <1>1, <1>2

\* ~TcpClient with a connection and nothing of Connector queued.
LEMMA DestroyClean ==
    ASSUME IInv, NEW unique \in BOOLEAN, Destroy(unique), clean'
    PROVE  NothingBound'
<1>1. /\ connection /\ \A f \in ConnectorFunctions : ~Contains(queue, f)
      /\ client' = "gone" /\ connection' = FALSE /\ other = "none" /\ ~restarting
      /\ UNCHANGED <<restarting, other, channel, timers>>
      /\ queue' = Append(queue, "forceCloseInLoop") \/ queue' = queue
  BY DEF Destroy, LoopFree, OtherFree, attemptVars
<1>2. \A f \in ConnectorFunctions : CountOf(queue, f) = 0
  BY <1>1, Flags, CountType
<1>3. \A f \in ConnectorFunctions : CountOf(queue', f) = 0
  BY <1>1, <1>2, Flags, NoneQueued
<1>4. timers \in Nat /\ channel \in {"none", "watching", "removed"}
  BY DEF IInv, TypeOK
<1>5. timers = 0 /\ channel # "watching"
  BY <1>1, <1>4, QueueCounts DEF IInv, AttemptExact, Attempts
<1>6. channel # "removed"
  <2>1. CountOf(queue, "resetChannel") = 0
    BY <1>2 DEF ConnectorFunctions
  <2> QED BY <2>1 DEF IInv, ChannelExact, One
<1> QED BY <1>1, <1>3, <1>4, <1>5, <1>6 DEF NothingBound

\* Nothing that is left brings the Connector back.
LEMMA CleanKeeps ==
    ASSUME IInv, NothingBound, [Next]_vars
    PROVE  NothingBound'
<1>1. /\ client = "gone" /\ other = "none" /\ ~restarting /\ ~connection /\ timers = 0
      /\ channel = "none" /\ \A f \in ConnectorFunctions : CountOf(queue, f) = 0
  BY DEF NothingBound
<1>2. queue # <<>> => /\ Head(queue) \notin ConnectorFunctions
                      /\ \A f \in ConnectorFunctions : CountOf(Tail(queue), f) = 0
                      /\ \A f \in ConnectorFunctions :
                            CountOf(Append(Tail(queue), "connectionDestory"), f) = 0
  BY <1>1, Flags, NoneQueued
<1>3. \A f \in ConnectorFunctions : CountOf(Append(queue, "connectionDestory"), f) = 0
  BY <1>1, Flags, NoneQueued
<1>4. CASE RunDestroy \/ RunForceClose \/ OrphanCloses
  <2>1. /\ UNCHANGED <<client, other, restarting, connection, timers, channel>>
        /\ \/ queue # <<>> /\ queue' = Tail(queue)
           \/ queue # <<>> /\ queue' = Append(Tail(queue), "connectionDestory")
           \/ queue' = Append(queue, "connectionDestory")
    BY <1>4 DEF RunDestroy, RunForceClose, OrphanCloses, Runs, lifeVars, userVars, attemptVars
  <2> QED BY <1>1, <1>2, <1>3, <2>1 DEF NothingBound
<1>5. CASE UNCHANGED vars
  BY <1>1, <1>5 DEF NothingBound, vars, lifeVars, userVars, attemptVars
<1>6. /\ ~UseAfterFree /\ ~RunStop /\ ~RunReset
      /\ \A o \in Outcomes : ~TimerFires(o) /\ ~RunStart(o) /\ ~Restart(o)
  <2>1. \A f \in ConnectorFunctions : ~Runs(f)
    BY <1>2 DEF Runs
  <2>2. ~RunStop /\ ~RunReset /\ \A o \in Outcomes : ~RunStart(o)
    BY <2>1 DEF RunStop, RunReset, RunStart, ConnectorFunctions
  <2>3. ~UseAfterFree
    BY <1>1, <1>2 DEF UseAfterFree
  <2>4. \A o \in Outcomes : ~TimerFires(o)
    <3>1. ~(timers > 0)
      BY <1>1
    <3> QED BY <3>1 DEF TimerFires
  <2>5. \A o \in Outcomes : ~Restart(o)
    BY <1>1 DEF Restart
  <2> QED BY <2>2, <2>3, <2>4, <2>5
<1>7. /\ ~ConnectFails /\ ~HandleWrite /\ ~ConnectionCloses /\ ~UserStep
  BY <1>1 DEF ConnectFails, HandleWrite, ConnectionCloses, UserStep, ConnectHere,
              ConnectThere, ConnectorStart, QueueStart, Disconnect, StopHere, StopThere,
              ConnectorStop, Destroy,
              MayConnect, MayCall
<1> QED BY <1>4, <1>5, <1>6, <1>7 DEF Next, LoopStep

\* Only ~TcpClient ends a client cleanly.
LEMMA CleanOnlyByDestroy ==
    ASSUME [Next]_vars, \A unique \in BOOLEAN : ~Destroy(unique)
    PROVE  clean' = clean
<1>1. CASE LoopStep
  BY <1>1 DEF LoopStep, TimerFires, RunStart, Restart, RunStop, RunReset, RunDestroy,
              RunForceClose, UseAfterFree, lifeVars
<1>2. CASE UserStep
  BY <1>2 DEF UserStep, ConnectHere, ConnectThere, ConnectorStart, QueueStart, Disconnect,
              StopHere, StopThere, ConnectorStop, lifeVars
<1>3. CASE ConnectFails \/ HandleWrite \/ ConnectionCloses \/ OrphanCloses
  BY <1>3 DEF ConnectFails, HandleWrite, ConnectionCloses, OrphanCloses, lifeVars
<1>4. CASE UNCHANGED vars
  BY <1>4 DEF vars, lifeVars
<1> QED BY <1>1, <1>2, <1>3, <1>4 DEF Next

\* Once a client that has a connection, and no function of its Connector in the
\* queue, has been destroyed in the loop thread, no function, timer or event
\* ever reaches the freed Connector: the safety half of CleanDestroy.
THEOREM TcpClientCleanNeverWild == Assumed => (Spec => [](clean => client = "gone"))
<1> SUFFICES ASSUME Assumed PROVE Spec => [](clean => client = "gone")
  OBVIOUS
<1>1. Init => CleanInv
  BY DEF Init, CleanInv
<1>2. IInv /\ CleanInv /\ [Next]_vars => CleanInv'
  <2> SUFFICES ASSUME IInv, CleanInv, [Next]_vars, clean' PROVE NothingBound'
    BY DEF CleanInv
  <2>1. CASE \E unique \in BOOLEAN : Destroy(unique)
    BY <2>1, DestroyClean
  <2>2. CASE \A unique \in BOOLEAN : ~Destroy(unique)
    BY <2>2, CleanOnlyByDestroy, CleanKeeps DEF CleanInv
  <2> QED BY <2>1, <2>2
<1>3. CleanInv => (clean => client = "gone")
  BY DEF CleanInv, NothingBound
<1> QED BY <1>1, <1>2, <1>3, Invariance, PTL DEF Spec
=============================================================================
