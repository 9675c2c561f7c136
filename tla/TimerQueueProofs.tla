------------------------- MODULE TimerQueueProofs -------------------------
(***************************************************************************)
(* Proofs about TimerQueue, for any addresses, delays, intervals and       *)
(* bounds: the indices and the heap agree, timerfd_ covers the earliest    *)
(* timer, and a cancelled timer does not come back.                        *)
(***************************************************************************)
EXTENDS TimerQueue, SequenceTheorems, FiniteSetTheorems, WellFoundedInduction,
        TLAPS

Calls == [op : {"insert", "cancel"}, timer : Nat]

\* An insertInLoop of t is in the queue q.
IsInsertOf(q, t) == \E i \in 1..Len(q) : q[i].op = "insert" /\ q[i].timer = t

\* No two calls of the queue q insert the same timer.
InsertsOnce(q) ==
    \A i, j \in 1..Len(q) :
        /\ q[i].op = "insert" /\ q[j].op = "insert"
        /\ q[i].timer = q[j].timer
        => i = j

\* The queue is about timers that were made, and inserts each once.
PendingExact ==
    /\ InsertsOnce(pending)
    /\ \A i \in 1..Len(pending) : pending[i].timer \in Handles

\* timerCount_ counts the Timer objects alive, so that it never wraps below 0.
CountsLive == IsFiniteSet(live) /\ timerCount = Cardinality(live)

\* expirationTimers is a local of timerReadingCallback.
BatchWhileCalling == ~calling => batch = {}

(***************************************************************************)
(* CancelledStaysOut is not inductive: a cancelled timer must also be kept *)
(* from coming back, from the queue of functions or from the batch.        *)
(***************************************************************************)
CancelledNotBack ==
    /\ (cancelled \ missed) \cap (timers \cup PendingInserts) = {}
    /\ \A t \in (cancelled \ missed) \cap batch : timer[t].addr \in canceling

IInv ==
    /\ TypeOK
    /\ TimersMatchActive
    /\ OneOwner
    /\ PendingExact
    /\ CountsLive
    /\ BatchWhileCalling
    /\ CancelledNotBack
    /\ TimerfdCoversEarliest

---------------------------------------------------------------------------
(* The queue of functions.                                                 *)

\* The timers the queue will insert.
LEMMA PendingInsertsIs ==
    \A t : t \in PendingInserts <=> IsInsertOf(pending, t)
BY DEF PendingInserts, IsInsertOf

\* A call is put at the end of the queue.
LEMMA AppendCall ==
    ASSUME NEW q \in Seq(Calls), NEW c \in Calls
    PROVE  /\ \A t : IsInsertOf(Append(q, c), t) <=>
                       IsInsertOf(q, t) \/ (c.op = "insert" /\ c.timer = t)
           /\ InsertsOnce(q) /\ (c.op = "insert" => ~IsInsertOf(q, c.timer))
                => InsertsOnce(Append(q, c))
<1>1. /\ Len(q) \in Nat /\ Len(Append(q, c)) = Len(q) + 1
      /\ \A i \in 1..Len(q) : Append(q, c)[i] = q[i]
      /\ Append(q, c)[Len(q) + 1] = c
  BY AppendProperties, LenProperties
<1> DEFINE r == Append(q, c)
<1> HIDE DEF r
<1>2. /\ Len(r) = Len(q) + 1
      /\ \A i \in 1..Len(q) : r[i] = q[i] /\ i \in 1..Len(r) /\ i # Len(r)
      /\ r[Len(r)] = c /\ Len(r) \in 1..Len(r)
      /\ \A i \in 1..Len(r) : i \in 1..Len(q) \/ i = Len(r)
  BY <1>1 DEF r
<1>3. \A t : IsInsertOf(r, t) <=>
               IsInsertOf(q, t) \/ (c.op = "insert" /\ c.timer = t)
  BY <1>2 DEF IsInsertOf
<1>4. ASSUME InsertsOnce(q), c.op = "insert" => ~IsInsertOf(q, c.timer)
      PROVE  InsertsOnce(r)
  BY <1>2, <1>4 DEF InsertsOnce, IsInsertOf
<1> QED BY <1>3, <1>4 DEF r

\* The first call of the queue is taken.
LEMMA TailCall ==
    ASSUME NEW q \in Seq(Calls), q # <<>>
    PROVE  /\ Head(q) \in Calls /\ Tail(q) \in Seq(Calls)
           /\ \A t : IsInsertOf(q, t) <=>
                       \/ IsInsertOf(Tail(q), t)
                       \/ Head(q).op = "insert" /\ Head(q).timer = t
           /\ InsertsOnce(q) =>
                /\ InsertsOnce(Tail(q))
                /\ Head(q).op = "insert" => ~IsInsertOf(Tail(q), Head(q).timer)
           /\ \A i \in 1..Len(Tail(q)) : \E j \in 1..Len(q) : Tail(q)[i] = q[j]
           /\ \E j \in 1..Len(q) : Head(q) = q[j]
<1> DEFINE r == Tail(q)
<1>1. /\ Head(q) \in Calls /\ r \in Seq(Calls)
      /\ Len(q) \in Nat /\ Len(q) > 0 /\ Len(r) = Len(q) - 1
      /\ \A i \in 1..Len(r) : r[i] = q[i + 1]
      /\ Head(q) = q[1]
  BY HeadTailProperties, LenProperties, EmptySeq
<1> HIDE DEF r
<1>2. /\ \A i \in 1..Len(r) : i + 1 \in 1..Len(q) /\ i + 1 # 1 /\ r[i] = q[i + 1]
      /\ 1 \in 1..Len(q)
  BY <1>1
<1>3. \A j \in 1..Len(q) : j = 1 \/ \E i \in 1..Len(r) : j = i + 1
  <2> TAKE j \in 1..Len(q)
  <2>1. j = 1 \/ (j - 1 \in 1..Len(r) /\ j = j - 1 + 1)
    BY <1>1
  <2> QED BY <2>1
<1>4. \A t : IsInsertOf(q, t) <=>
                \/ IsInsertOf(r, t)
                \/ Head(q).op = "insert" /\ Head(q).timer = t
  <2> TAKE t
  <2>1. ASSUME IsInsertOf(q, t)
        PROVE  \/ IsInsertOf(r, t)
               \/ Head(q).op = "insert" /\ Head(q).timer = t
    <3>1. PICK j \in 1..Len(q) : q[j].op = "insert" /\ q[j].timer = t
      BY <2>1 DEF IsInsertOf
    <3>2. CASE j = 1
      BY <1>1, <3>1, <3>2
    <3>3. CASE \E i \in 1..Len(r) : j = i + 1
      BY <1>2, <3>1, <3>3 DEF IsInsertOf
    <3> QED BY <1>3, <3>2, <3>3
  <2>2. IsInsertOf(r, t) => IsInsertOf(q, t)
    BY <1>2 DEF IsInsertOf
  <2>3. Head(q).op = "insert" /\ Head(q).timer = t => IsInsertOf(q, t)
    BY <1>1, <1>2 DEF IsInsertOf
  <2> QED BY <2>1, <2>2, <2>3
<1>5. ASSUME InsertsOnce(q)
      PROVE  /\ InsertsOnce(r)
             /\ Head(q).op = "insert" => ~IsInsertOf(r, Head(q).timer)
  <2>1. \A i, j \in 1..Len(r) : i + 1 = j + 1 => i = j
    BY <1>1
  <2>2. InsertsOnce(r)
    BY <1>2, <1>5, <2>1 DEF InsertsOnce
  <2> QED BY <1>1, <1>2, <1>5, <2>2 DEF InsertsOnce, IsInsertOf
<1> QED BY <1>1, <1>2, <1>4, <1>5 DEF r

---------------------------------------------------------------------------
(* new Timer.                                                              *)

\* The expirations and intervals passed to the constructor.
LEMMA SchedulesNat ==
    ASSUME clock \in Nat, NEW s \in Schedules
    PROVE  s[1] \in Nat /\ s[2] \in Nat
<1>1. CASE \E d \in Delays : s = <<clock + d, 0>>
  BY <1>1, TimerQueueAssumption
<1>2. CASE \E i \in Intervals : s = <<clock + i, i>>
  BY <1>2, TimerQueueAssumption
<1> QED BY <1>1, <1>2 DEF Schedules

\* A new timer gets a new handle, an address that no timer alive has, and the
\* others are as they were.
LEMMA NewTimerProperties ==
    ASSUME TypeOK, CountsLive,
           NEW a \in FreeAddresses, NEW when \in Nat, NEW interval \in Nat,
           NewTimer(a, when, interval)
    PROVE  LET n == Len(timer) + 1
           IN  /\ n \notin Handles /\ n \in Nat /\ Handles' = Handles \cup {n}
               /\ timer' \in Seq(TimerRecord)
               /\ \A t \in Handles : timer'[t] = timer[t]
               /\ timer'[n] = [addr |-> a, id |-> timerCount + 1,
                               exp |-> when, interval |-> interval]
               /\ live' = live \cup {n}
               /\ CountsLive' /\ timerCount' \in Nat
               /\ \A t \in live : timer[t].addr # a
<1> DEFINE n == Len(timer) + 1
           rec == [addr |-> a, id |-> timerCount + 1,
                   exp |-> when, interval |-> interval]
<1>1. timer \in Seq(TimerRecord) /\ Len(timer) \in Nat /\ timerCount \in Nat
      /\ live \subseteq Handles
  BY LenProperties DEF TypeOK
<1>2. rec \in TimerRecord
  <2>1. a \in Addresses /\ timerCount + 1 \in Nat
    BY <1>1 DEF FreeAddresses
  <2> QED BY <2>1 DEF TimerRecord
<1>3. timer' = Append(timer, rec) /\ live' = live \cup {n}
      /\ timerCount' = timerCount + 1
  BY DEF NewTimer
<1> HIDE DEF rec
<1>4. /\ timer' \in Seq(TimerRecord) /\ Len(timer') = Len(timer) + 1
      /\ \A i \in 1..Len(timer) : timer'[i] = timer[i]
      /\ timer'[Len(timer) + 1] = rec
  BY <1>1, <1>2, <1>3, AppendProperties
<1>5. n \notin Handles /\ n \in Nat /\ Handles' = Handles \cup {n}
  BY <1>1, <1>4 DEF Handles
<1>6. CountsLive'
  <2>1. n \notin live
    BY <1>1, <1>5
  <2>2. IsFiniteSet(live) /\ timerCount = Cardinality(live)
    BY DEF CountsLive
  <2> QED BY <1>3, <2>1, <2>2, FS_AddElement DEF CountsLive
<1>7. \A t \in live : timer[t].addr # a
  BY <1>1 DEF FreeAddresses
<1> QED BY <1>1, <1>3, <1>4, <1>5, <1>6, <1>7 DEF Handles, rec

---------------------------------------------------------------------------
(* cancelInLoop.                                                           *)

\* The timers in timers_ that have the TimerId of t.
Found(t) == {u \in timers : TimerId(u) = TimerId(t)}

\* cancelInLoop deletes what it takes from timers_, and counts that.
LEMMA CancelCounts ==
    ASSUME IInv, NEW t \in Handles, CancelInLoop(t)
    PROVE  CountsLive' /\ timerCount' \in Nat
<1>1. /\ timerCount' = timerCount - Cardinality(Found(t))
      /\ live' = live \ Found(t)
  BY DEF CancelInLoop, Found
<1>2. Found(t) \subseteq live /\ IsFiniteSet(live)
      /\ timerCount = Cardinality(live)
  BY DEF IInv, CountsLive, OneOwner, Found
<1>3. /\ IsFiniteSet(live \ Found(t)) /\ live \cap Found(t) = Found(t)
      /\ Cardinality(live \ Found(t))
           = Cardinality(live) - Cardinality(live \cap Found(t))
  BY <1>2, FS_Difference
<1>4. CountsLive'
  BY <1>1, <1>2, <1>3 DEF CountsLive
<1> QED BY <1>4, FS_CardinalityType DEF CountsLive

\* The destructor loop of timerReadingCallback deletes what is not put back.
LEMMA EndCounts ==
    ASSUME IInv, EndExpired
    PROVE  CountsLive' /\ timerCount' \in Nat
<1> DEFINE gone == batch \ Restarted
<1>1. /\ timerCount' = timerCount - Cardinality(gone)
      /\ live' = live \ gone
  BY DEF EndExpired
<1>2. gone \subseteq live /\ IsFiniteSet(live) /\ timerCount = Cardinality(live)
  BY DEF IInv, CountsLive, OneOwner
<1> HIDE DEF gone
<1>3. /\ IsFiniteSet(live \ gone) /\ live \cap gone = gone
      /\ Cardinality(live \ gone)
           = Cardinality(live) - Cardinality(live \cap gone)
  BY <1>2, FS_Difference
<1>4. CountsLive'
  BY <1>1, <1>2, <1>3 DEF CountsLive
<1> QED BY <1>4, FS_CardinalityType DEF CountsLive

---------------------------------------------------------------------------
(* The invariant, conjunct by conjunct.                                    *)

\* TimerQueue::TimerQueue
LEMMA InitIInv == Init => IInv
<1> SUFFICES ASSUME Init PROVE IInv
  OBVIOUS
<1>1. Len(timer) = 0 /\ Len(pending) = 0 /\ Handles = {} /\ 1..0 = {}
  BY EmptySeq DEF Init, Handles
<1>2. PendingInserts = {}
  BY <1>1 DEF PendingInserts
<1>3. TypeOK
  <2>1. timer \in Seq(TimerRecord)
        /\ pending \in Seq([op : {"insert", "cancel"}, timer : Nat])
    BY EmptySeq DEF Init
  <2>2. calling \in BOOLEAN
    BY Zenon DEF Init
  <2>3. clock \in 0..MaxClock /\ stepsBack \in 0..MaxStepsBack
        /\ timerfd \in Nat \cup {Disarmed} /\ timerCount \in Nat
        /\ now \in 0..MaxClock
    BY TimerQueueAssumption DEF Init
  <2> QED BY <1>1, <2>1, <2>2, <2>3 DEF Init, TypeOK
<1>4. TimersMatchActive /\ OneOwner /\ BatchWhileCalling
  BY <1>2 DEF Init, TimersMatchActive, OneOwner, BatchWhileCalling
<1>5. CancelledNotBack /\ TimerfdCoversEarliest
  BY DEF Init, CancelledNotBack, TimerfdCoversEarliest
<1>6. PendingExact
  BY <1>1 DEF PendingExact, InsertsOnce
<1>7. CountsLive
  BY FS_EmptySet DEF Init, CountsLive
<1> QED BY <1>3, <1>4, <1>5, <1>6, <1>7 DEF IInv

\* What resetExpirationTimers makes of the Timer objects: only those put back
\* change, and only in their expiration.
LEMMA RestartedTimerProperties ==
    ASSUME TypeOK
    PROVE  /\ RestartedTimer \in Seq(TimerRecord)
           /\ Len(RestartedTimer) = Len(timer)
           /\ \A t \in Handles : /\ RestartedTimer[t].addr = timer[t].addr
                                 /\ RestartedTimer[t].id = timer[t].id
           /\ \A t \in Handles \ Restarted : RestartedTimer[t] = timer[t]
<1>1. /\ timer \in Seq(TimerRecord) /\ Len(timer) \in Nat /\ now \in Nat
      /\ \A t \in Handles : timer[t] \in TimerRecord
  BY LenProperties, ElementOfSeq, TimerQueueAssumption DEF TypeOK, Handles
<1>2. \A t \in Handles :
        [timer[t] EXCEPT !.exp = now + timer[t].interval] \in TimerRecord
  <2> TAKE t \in Handles
  <2>1. timer[t] \in TimerRecord
    BY <1>1
  <2>2. now + timer[t].interval \in Nat
    BY <1>1, <2>1 DEF TimerRecord
  <2> QED BY <2>1, <2>2 DEF TimerRecord
<1>3. RestartedTimer \in [1..Len(timer) -> TimerRecord]
  BY <1>1, <1>2 DEF RestartedTimer, Handles
<1>4. RestartedTimer \in Seq(TimerRecord)
  BY <1>1, <1>3, SeqDef
<1>5. Len(RestartedTimer) = Len(timer)
  BY <1>1, <1>3, <1>4, LenProperties
<1>6. \A t \in Handles : /\ RestartedTimer[t].addr = timer[t].addr
                         /\ RestartedTimer[t].id = timer[t].id
  BY <1>1 DEF RestartedTimer, TimerRecord
<1>7. \A t \in Handles \ Restarted : RestartedTimer[t] = timer[t]
  BY DEF RestartedTimer
<1> QED BY <1>4, <1>5, <1>6, <1>7

\* The interval timerfd_ is armed with.
LEMMA IntervalNat ==
    ASSUME clock \in Nat, NEW when \in Nat
    PROVE  intervalFromNow(when) \in Nat
BY DEF intervalFromNow

\* Among timers there is one that no other precedes: begin() of timers_.
LEMMA EarliestExists ==
    ASSUME NEW tm \in Seq(TimerRecord), NEW S, S \subseteq 1..Len(tm), S # {}
    PROVE  \E t \in S : \A u \in S : tm[t].exp <= tm[u].exp
<1> DEFINE E == {tm[t].exp : t \in S}
<1>1. \A t \in S : tm[t].exp \in Nat
  <2> TAKE t \in S
  <2>1. tm[t] \in TimerRecord
    BY ElementOfSeq
  <2> QED BY <2>1 DEF TimerRecord
<1>2. E \subseteq Nat /\ E # {}
  BY <1>1
<1>3. \E x \in E : \A y \in E : ~(<<y, x>> \in OpToRel(<, Nat))
  BY <1>2, NatLessThanWellFounded, WFMin
<1>4. PICK x \in E : \A y \in E : ~(<<y, x>> \in OpToRel(<, Nat))
  BY <1>3
<1>5. \A y \in E : x <= y
  <2> HIDE DEF E
  <2> TAKE y \in E
  <2>1. x \in Nat /\ y \in Nat
    BY <1>2
  <2>2. y < x => <<y, x>> \in OpToRel(<, Nat)
    BY <2>1 DEF OpToRel
  <2>3. ~(y < x)
    BY <1>4, <2>2, Zenon
  <2> QED BY <2>1, <2>3
<1> QED BY <1>5

\* The timer ArmAfterReset chooses.
LEMMA ArmAfterResetProperties ==
    ASSUME timer' \in Seq(TimerRecord), timers' \subseteq 1..Len(timer'),
           timers' # {}, ArmAfterReset
    PROVE  \E t \in timers' :
             /\ \A u \in timers' : timer'[t].exp <= timer'[u].exp
             /\ timerfd' = intervalFromNow(timer'[t].exp)
<1> DEFINE t == CHOOSE t \in timers' :
                   \A u \in timers' : timer'[t].exp <= timer'[u].exp
<1>1. \E e \in timers' : \A u \in timers' : timer'[e].exp <= timer'[u].exp
  BY EarliestExists
<1>2. t \in timers' /\ \A u \in timers' : timer'[t].exp <= timer'[u].exp
  BY <1>1
<1>3. timerfd' = intervalFromNow(timer'[t].exp)
  BY DEF ArmAfterReset
<1> QED BY <1>2, <1>3

---------------------------------------------------------------------------
(* The types.                                                              *)

\* insertInLoop arms timerfd_ with an interval, or leaves it.
LEMMA ArmAfterInsertType ==
    ASSUME TypeOK, NEW when \in Nat, ArmAfterInsert(when)
    PROVE  timerfd' \in Nat \cup {Disarmed}
<1>1. clock \in Nat /\ timerfd \in Nat \cup {Disarmed}
  BY TimerQueueAssumption DEF TypeOK
<1>2. intervalFromNow(when) \in Nat
  BY <1>1, IntervalNat
<1> QED BY <1>1, <1>2 DEF ArmAfterInsert

\* The types of the handles and times in a state.
LEMMA TypeFacts ==
    ASSUME TypeOK
    PROVE  /\ clock \in Nat /\ Len(timer) \in Nat
           /\ pending \in Seq(Calls)
           /\ \A t \in Handles : timer[t] \in TimerRecord
           /\ \A t \in Handles : /\ timer[t].exp \in Nat
                                 /\ timer[t].addr \in Addresses
                                 /\ TimerId(t) \in Nat \X Addresses
<1>1. clock \in Nat /\ Len(timer) \in Nat /\ pending \in Seq(Calls)
  BY TimerQueueAssumption, LenProperties DEF TypeOK, Calls
<1>2. \A t \in Handles : timer[t] \in TimerRecord
  BY ElementOfSeq DEF TypeOK, Handles
<1> QED BY <1>1, <1>2 DEF TimerRecord, TimerId

\* Every step keeps the types.
LEMMA NextTypeOK == IInv /\ [Next]_vars => TypeOK'
<1> SUFFICES ASSUME IInv, [Next]_vars PROVE TypeOK'
  OBVIOUS
<1>0. TypeOK /\ CountsLive /\ OneOwner /\ PendingExact
  BY DEF IInv
<1>f. /\ clock \in Nat /\ Len(timer) \in Nat /\ pending \in Seq(Calls)
      /\ \A t \in Handles : /\ timer[t].exp \in Nat
                            /\ timer[t].addr \in Addresses
                            /\ TimerId(t) \in Nat \X Addresses
  BY <1>0, TypeFacts
<1>1. CASE Tick
  <2>1. clock' \in 0..MaxClock /\ timerfd' \in Nat \cup {Disarmed}
    BY <1>0, <1>1, TimerQueueAssumption DEF Tick, TypeOK, Disarmed
  <2> QED BY <1>0, <1>1, <2>1 DEF Tick, TypeOK, callVars, Handles
<1>2. CASE StepBack
  <2>1. clock' \in 0..MaxClock /\ stepsBack' \in 0..MaxStepsBack
    BY <1>0, <1>2, TimerQueueAssumption DEF StepBack, TypeOK
  <2> QED BY <1>0, <1>2, <2>1 DEF StepBack, TypeOK, callVars, Handles
<1>3. ASSUME NEW a \in Addresses, NEW s \in Schedules, InsertHere(a, s[1], s[2])
      PROVE  TypeOK'
  <2> DEFINE n == Len(timer) + 1
  <2>1. /\ n \notin Handles /\ Handles' = Handles \cup {n}
        /\ timer' \in Seq(TimerRecord) /\ live' = live \cup {n}
        /\ timerCount' \in Nat
    BY <1>0, <1>3, <1>f, SchedulesNat, NewTimerProperties DEF InsertHere
  <2>2. timerfd' \in Nat \cup {Disarmed}
    BY <1>0, <1>3, <1>f, SchedulesNat, ArmAfterInsertType
       DEF InsertHere, InsertInLoop
  <2>3. timers' = timers \cup {n}
        /\ activeTimers' = activeTimers \cup {<<timerCount + 1, a>>}
    BY <1>3 DEF InsertHere, InsertInLoop
  <2>4. activeTimers' \subseteq Nat \X Addresses
    BY <1>0, <2>3 DEF TypeOK
  <2> QED BY <1>0, <1>3, <2>1, <2>2, <2>3, <2>4
          DEF InsertHere, TypeOK, callVars, timeVars
<1>4. ASSUME NEW t \in Handles, CancelInLoop(t), UNCHANGED timer
      PROVE  /\ timerCount' \in Nat /\ live' \subseteq Handles'
             /\ timers' \subseteq Handles' /\ canceling' \subseteq Addresses
             /\ activeTimers' \subseteq Nat \X Addresses
             /\ cancelled' \subseteq Handles' /\ missed' \subseteq Handles'
  <2>1. timerCount' \in Nat
    BY <1>4, CancelCounts
  <2> QED BY <1>0, <1>4, <1>f, <2>1 DEF CancelInLoop, TypeOK, Handles
<1>5. ASSUME NEW t \in Handles, CancelHere(t) PROVE TypeOK'
  BY <1>0, <1>4, <1>5 DEF CancelHere, TypeOK, callVars, timeVars, Handles
<1>6. ASSUME NEW a \in Addresses, NEW s \in Schedules,
             InsertThere(a, s[1], s[2])
      PROVE  TypeOK'
  <2> DEFINE n == Len(timer) + 1
  <2>1. /\ n \notin Handles /\ n \in Nat /\ Handles' = Handles \cup {n}
        /\ timer' \in Seq(TimerRecord) /\ live' = live \cup {n}
        /\ timerCount' \in Nat
    BY <1>0, <1>6, <1>f, SchedulesNat, NewTimerProperties DEF InsertThere
  <2>2. pending' \in Seq([op : {"insert", "cancel"}, timer : Nat])
    <3>1. [op |-> "insert", timer |-> n] \in Calls
      BY <2>1 DEF Calls
    <3> QED BY <1>6, <1>f, <3>1, AppendProperties DEF InsertThere, Calls
  <2> QED BY <1>0, <1>6, <2>1, <2>2 DEF InsertThere, TypeOK, callVars, timeVars
<1>7. ASSUME NEW t \in Handles, CancelThere(t) PROVE TypeOK'
  <2>1. [op |-> "cancel", timer |-> t] \in Calls
    BY DEF Calls, Handles
  <2>2. pending' \in Seq([op : {"insert", "cancel"}, timer : Nat])
    BY <1>7, <1>f, <2>1, AppendProperties DEF CancelThere, Calls
  <2> QED BY <1>0, <1>7, <2>2 DEF CancelThere, TypeOK, callVars, timeVars, Handles
<1>8. CASE RunInsert
  <2> DEFINE t == Head(pending).timer
  <2>1. /\ Tail(pending) \in Seq(Calls) /\ t \in Handles
    BY <1>0, <1>8, <1>f, TailCall DEF RunInsert, PendingExact
  <2>2. timerfd' \in Nat \cup {Disarmed}
    BY <1>0, <1>8, <1>f, <2>1, ArmAfterInsertType DEF RunInsert, InsertInLoop
  <2>3. timers' = timers \cup {t}
        /\ activeTimers' = activeTimers \cup {TimerId(t)}
    BY <1>8 DEF RunInsert, InsertInLoop
  <2>4. pending' \in Seq([op : {"insert", "cancel"}, timer : Nat])
    BY <1>8, <2>1 DEF RunInsert, Calls
  <2> QED BY <1>0, <1>8, <1>f, <2>1, <2>2, <2>3, <2>4
          DEF RunInsert, TypeOK, callVars, timeVars, Handles
<1>9. CASE RunCancel
  <2> DEFINE t == Head(pending).timer
  <2>1. /\ Tail(pending) \in Seq(Calls) /\ t \in Handles
    BY <1>0, <1>9, <1>f, TailCall DEF RunCancel, PendingExact
  <2>2. pending' \in Seq([op : {"insert", "cancel"}, timer : Nat])
    BY <1>9, <2>1 DEF RunCancel, Calls
  <2> QED BY <1>0, <1>4, <1>9, <2>1, <2>2
          DEF RunCancel, TypeOK, callVars, timeVars, Handles
<1>10. CASE BeginExpired
  <2>1. calling' \in BOOLEAN
    BY <1>10, Zenon DEF BeginExpired
  <2> QED BY <1>0, <1>10, <2>1 DEF BeginExpired, TypeOK, timeVars, Handles
<1>11. ASSUME NEW t \in Handles, RunTimer(t) PROVE TypeOK'
  BY <1>0, <1>11 DEF RunTimer, TypeOK, timeVars, Handles
<1>12. CASE EndExpired
  <2>1. /\ timer' = RestartedTimer /\ timers' = timers \cup Restarted
        /\ activeTimers' = activeTimers \cup {TimerId(t) : t \in Restarted}
        /\ live' = live \ (batch \ Restarted)
        /\ timerCount' = timerCount - Cardinality(batch \ Restarted)
        /\ batch' = {} /\ toRun' = {} /\ now' = 0 /\ calling' = FALSE
    BY <1>12 DEF EndExpired
  <2>2. timer' \in Seq(TimerRecord) /\ Handles' = Handles
    BY <1>0, <2>1, RestartedTimerProperties DEF Handles
  <2>3. Restarted \subseteq Handles
    BY <1>0 DEF Restarted, TypeOK
  <2>4. timerfd' \in Nat \cup {Disarmed}
    <3>1. CASE timers' = {}
      BY <1>0, <1>12, <3>1 DEF EndExpired, ArmAfterReset, TypeOK
    <3>2. CASE timers' # {}
      <4>1. timers' \subseteq 1..Len(timer')
        BY <1>0, <2>1, <2>2, <2>3 DEF TypeOK, Handles
      <4>2. PICK t \in timers' : timerfd' = intervalFromNow(timer'[t].exp)
        BY <1>12, <2>2, <3>2, <4>1, ArmAfterResetProperties DEF EndExpired
      <4>3. timer'[t] \in TimerRecord
        BY <2>2, <4>1, ElementOfSeq
      <4>4. timer'[t].exp \in Nat
        BY <4>3 DEF TimerRecord
      <4> QED BY <1>f, <4>2, <4>4, IntervalNat
    <3> QED BY <3>1, <3>2
  <2>5. timerCount' \in Nat
    BY <1>12, EndCounts
  <2>6. calling' \in BOOLEAN
    BY <2>1, Zenon
  <2>7. now' \in 0..MaxClock
    BY <2>1, TimerQueueAssumption
  <2>8. activeTimers' \subseteq Nat \X Addresses
    BY <1>0, <1>f, <2>1, <2>3 DEF TypeOK
  <2> QED BY <1>0, <1>12, <2>1, <2>2, <2>3, <2>4, <2>5, <2>6, <2>7, <2>8
          DEF EndExpired, TypeOK, timeVars
<1>13. CASE UNCHANGED vars
  BY <1>0, <1>13 DEF vars, TypeOK, Handles
<1> QED BY <1>1, <1>2, <1>3, <1>5, <1>6, <1>7, <1>8, <1>9, <1>10, <1>11, <1>12,
           <1>13 DEF Next, UserStep, LoopStep

---------------------------------------------------------------------------
(* The queue of functions and the owners of the Timer objects.             *)

\* The queue stays exact, and timerCount_ the number of timers alive.
LEMMA NextQueue ==
    IInv /\ [Next]_vars => PendingExact' /\ CountsLive' /\ BatchWhileCalling'
<1> SUFFICES ASSUME IInv, [Next]_vars
             PROVE  PendingExact' /\ CountsLive' /\ BatchWhileCalling'
  OBVIOUS
<1>0. TypeOK /\ CountsLive /\ OneOwner /\ PendingExact /\ BatchWhileCalling
      /\ PendingInserts \subseteq Handles
  BY DEF IInv, OneOwner, TypeOK
<1>f. clock \in Nat /\ Len(timer) \in Nat /\ pending \in Seq(Calls)
  BY <1>0, TypeFacts
<1>1. ASSUME UNCHANGED <<pending, timer>> PROVE PendingExact'
  BY <1>0, <1>1 DEF PendingExact, InsertsOnce, Handles
<1>2. CASE Tick \/ StepBack \/ UNCHANGED vars
  BY <1>0, <1>1, <1>2
     DEF Tick, StepBack, CountsLive, BatchWhileCalling, callVars, vars
<1>3. ASSUME NEW a \in Addresses, NEW s \in Schedules, InsertHere(a, s[1], s[2])
      PROVE  PendingExact' /\ CountsLive' /\ BatchWhileCalling'
  <2>1. Handles' = Handles \cup {Len(timer) + 1} /\ CountsLive'
    BY <1>0, <1>3, <1>f, SchedulesNat, NewTimerProperties DEF InsertHere
  <2> QED BY <1>0, <1>3, <2>1
          DEF InsertHere, PendingExact, InsertsOnce, BatchWhileCalling, callVars
<1>4. ASSUME NEW t \in Handles, CancelHere(t)
      PROVE  PendingExact' /\ CountsLive' /\ BatchWhileCalling'
  BY <1>0, <1>1, <1>4, CancelCounts DEF CancelHere, BatchWhileCalling, callVars
<1>5. ASSUME NEW a \in Addresses, NEW s \in Schedules,
             InsertThere(a, s[1], s[2])
      PROVE  PendingExact' /\ CountsLive' /\ BatchWhileCalling'
  <2> DEFINE n == Len(timer) + 1
             c == [op |-> "insert", timer |-> n]
  <2>1. n \notin Handles /\ n \in Nat /\ Handles' = Handles \cup {n}
        /\ CountsLive'
    BY <1>0, <1>5, <1>f, SchedulesNat, NewTimerProperties DEF InsertThere
  <2>2. pending' = Append(pending, c) /\ c \in Calls /\ c.timer = n
    BY <1>5, <2>1 DEF InsertThere, Calls
  <2>3. ~IsInsertOf(pending, n)
    BY <1>0, <2>1, PendingInsertsIs
  <2> HIDE DEF c, n
  <2>4. InsertsOnce(pending')
    BY <1>0, <1>f, <2>2, <2>3, AppendCall DEF PendingExact
  <2>5. \A i \in 1..Len(pending') : pending'[i].timer \in Handles'
    <3>1. /\ Len(pending) \in Nat /\ Len(pending') = Len(pending) + 1
          /\ \A i \in 1..Len(pending) : pending'[i] = pending[i]
          /\ pending'[Len(pending) + 1] = c
      BY <1>f, <2>2, AppendProperties, LenProperties
    <3>2. \A i \in 1..Len(pending') :
             i \in 1..Len(pending) \/ i = Len(pending) + 1
      BY <3>1
    <3> QED BY <1>0, <2>1, <2>2, <3>1, <3>2 DEF PendingExact
  <2> QED BY <1>0, <1>5, <2>1, <2>4, <2>5
          DEF InsertThere, PendingExact, BatchWhileCalling, callVars
<1>6. ASSUME NEW t \in Handles, CancelThere(t)
      PROVE  PendingExact' /\ CountsLive' /\ BatchWhileCalling'
  <2> DEFINE c == [op |-> "cancel", timer |-> t]
  <2>1. pending' = Append(pending, c) /\ c \in Calls /\ c.timer = t
        /\ c.op # "insert" /\ Handles' = Handles
    BY <1>6 DEF CancelThere, Calls, Handles
  <2> HIDE DEF c
  <2>2. InsertsOnce(pending')
    BY <1>0, <1>f, <2>1, AppendCall DEF PendingExact
  <2>3. \A i \in 1..Len(pending') : pending'[i].timer \in Handles'
    <3>1. /\ Len(pending) \in Nat /\ Len(pending') = Len(pending) + 1
          /\ \A i \in 1..Len(pending) : pending'[i] = pending[i]
          /\ pending'[Len(pending) + 1] = c
      BY <1>f, <2>1, AppendProperties, LenProperties
    <3>2. \A i \in 1..Len(pending') :
             i \in 1..Len(pending) \/ i = Len(pending) + 1
      BY <3>1
    <3> QED BY <1>0, <2>1, <3>1, <3>2 DEF PendingExact
  <2> QED BY <1>0, <1>6, <2>2, <2>3
          DEF CancelThere, PendingExact, CountsLive, BatchWhileCalling, callVars
<1>7. ASSUME pending # <<>>, pending' = Tail(pending), UNCHANGED timer
      PROVE  PendingExact' /\ Head(pending).timer \in Handles
  <2>1. /\ InsertsOnce(pending')
        /\ \A i \in 1..Len(pending') : \E j \in 1..Len(pending) :
              pending'[i] = pending[j]
        /\ \E j \in 1..Len(pending) : Head(pending) = pending[j]
    BY <1>0, <1>7, <1>f, TailCall DEF PendingExact
  <2> QED BY <1>0, <1>7, <2>1 DEF PendingExact, Handles
<1>8. CASE RunInsert
  BY <1>0, <1>7, <1>8 DEF RunInsert, CountsLive, BatchWhileCalling, callVars
<1>9. CASE RunCancel
  BY <1>0, <1>7, <1>9, CancelCounts DEF RunCancel, BatchWhileCalling, callVars
<1>10. CASE BeginExpired
  BY <1>0, <1>1, <1>10 DEF BeginExpired, CountsLive, BatchWhileCalling
<1>11. ASSUME NEW t \in Handles, RunTimer(t)
       PROVE  PendingExact' /\ CountsLive' /\ BatchWhileCalling'
  BY <1>0, <1>1, <1>11 DEF RunTimer, CountsLive, BatchWhileCalling
<1>12. CASE EndExpired
  <2>1. Handles' = Handles
    BY <1>0, <1>12, RestartedTimerProperties DEF EndExpired, Handles
  <2> QED BY <1>0, <1>12, <2>1, EndCounts
          DEF EndExpired, PendingExact, InsertsOnce, BatchWhileCalling
<1> QED BY <1>2, <1>3, <1>4, <1>5, <1>6, <1>8, <1>9, <1>10, <1>11, <1>12
        DEF Next, UserStep, LoopStep

\* A step that leaves the queue as it is inserts the same timers from it.
LEMMA SamePending ==
    ASSUME UNCHANGED pending PROVE PendingInserts' = PendingInserts
BY DEF PendingInserts

\* The queue after insertInLoop has been taken from it.
LEMMA TakenInsert ==
    ASSUME IInv, pending # <<>>, Head(pending).op = "insert",
           pending' = Tail(pending)
    PROVE  LET t == Head(pending).timer
           IN  /\ t \in PendingInserts /\ t \in Handles
               /\ PendingInserts' = PendingInserts \ {t}
<1> DEFINE t == Head(pending).timer
<1>1. pending \in Seq(Calls) /\ InsertsOnce(pending)
      /\ PendingInserts \subseteq Handles
  BY TypeFacts DEF IInv, PendingExact, OneOwner, TypeOK
<1>2. /\ \A u : IsInsertOf(pending, u) <=> IsInsertOf(pending', u) \/ u = t
      /\ ~IsInsertOf(pending', t)
  BY <1>1, TailCall
<1>3. \A u : u \in PendingInserts' <=> IsInsertOf(pending', u)
  BY DEF PendingInserts, IsInsertOf
<1> QED BY <1>1, <1>2, <1>3, PendingInsertsIs

\* The queue after cancelInLoop has been taken from it.
LEMMA TakenCancel ==
    ASSUME IInv, pending # <<>>, Head(pending).op = "cancel",
           pending' = Tail(pending)
    PROVE  Head(pending).timer \in Handles /\ PendingInserts' = PendingInserts
<1>1. pending \in Seq(Calls) /\ InsertsOnce(pending)
  BY TypeFacts DEF IInv, PendingExact
<1>2. /\ \A u : IsInsertOf(pending, u) <=> IsInsertOf(pending', u)
      /\ \E j \in 1..Len(pending) : Head(pending) = pending[j]
  BY <1>1, TailCall
<1>3. \A u : u \in PendingInserts' <=> IsInsertOf(pending', u)
  BY DEF PendingInserts, IsInsertOf
<1> QED BY <1>1, <1>2, <1>3, PendingInsertsIs DEF IInv, PendingExact

\* What a call appended to the queue will insert.
LEMMA PutCall ==
    ASSUME IInv, NEW c \in Calls, pending' = Append(pending, c)
    PROVE  PendingInserts' =
             IF c.op = "insert" THEN PendingInserts \cup {c.timer}
                                ELSE PendingInserts
<1>1. pending \in Seq(Calls)
  BY TypeFacts DEF IInv
<1>2. \A u : IsInsertOf(pending', u) <=>
               IsInsertOf(pending, u) \/ (c.op = "insert" /\ c.timer = u)
  BY <1>1, AppendCall
<1>3. \A u : u \in PendingInserts' <=> IsInsertOf(pending', u)
  BY DEF PendingInserts, IsInsertOf
<1> QED BY <1>2, <1>3, PendingInsertsIs

\* Timers alive are told apart by their TimerIds, for by their addresses.
LEMMA LiveIdsDiffer ==
    ASSUME IInv, NEW t \in live, NEW u \in live, TimerId(t) = TimerId(u)
    PROVE  t = u
BY DEF IInv, OneOwner, TimerId

\* cancelInLoop takes the same timer, if any, from both indices.
LEMMA CancelOwners ==
    ASSUME IInv, NEW t \in Handles, CancelInLoop(t), UNCHANGED <<timer, batch>>,
           PendingInserts' = PendingInserts
    PROVE  TimersMatchActive' /\ OneOwner'
<1>1. /\ timers' = timers \ Found(t) /\ live' = live \ Found(t)
      /\ activeTimers' = activeTimers \ {TimerId(t)}
  BY DEF CancelInLoop, Found
<1>2. /\ live = PendingInserts \cup timers \cup batch
      /\ timers \cap batch = {}
      /\ PendingInserts \cap (timers \cup batch) = {}
      /\ \A v, u \in live : timer[v].addr = timer[u].addr => v = u
      /\ activeTimers = {TimerId(u) : u \in timers}
  BY DEF IInv, OneOwner, TimersMatchActive
<1>3. \A u \in timers : u \in Found(t) <=> TimerId(u) = TimerId(t)
  BY DEF Found
<1>4. Found(t) \subseteq timers
  BY DEF Found
<1>5. OneOwner'
  BY <1>1, <1>2, <1>4 DEF OneOwner
<1>6. activeTimers' = {TimerId(u) : u \in timers'}
  BY <1>1, <1>2, <1>3
<1>7. \A u : TimerId(u)' = TimerId(u)
  BY DEF TimerId
<1>8. TimersMatchActive'
  BY <1>1, <1>6, <1>7 DEF IInv, TimersMatchActive
<1> QED BY <1>5, <1>8

\* The two indices and the heap keep agreeing.
LEMMA NextOwners == IInv /\ [Next]_vars => TimersMatchActive' /\ OneOwner'
<1> SUFFICES ASSUME IInv, [Next]_vars PROVE TimersMatchActive' /\ OneOwner'
  OBVIOUS
<1>0. TypeOK /\ CountsLive /\ BatchWhileCalling
  BY DEF IInv
<1>f. clock \in Nat /\ Len(timer) \in Nat /\ live \subseteq Handles
      /\ batch \subseteq Handles /\ timers \subseteq Handles
  BY <1>0, TypeFacts DEF TypeOK
<1>o. /\ live = PendingInserts \cup timers \cup batch
      /\ timers \cap batch = {}
      /\ PendingInserts \cap (timers \cup batch) = {}
      /\ \A t, u \in live : timer[t].addr = timer[u].addr => t = u
  BY DEF IInv, OneOwner
<1>a. /\ activeTimers = {TimerId(t) : t \in timers}
      /\ \A t, u \in timers : TimerId(t) = TimerId(u) => t = u
  BY DEF IInv, TimersMatchActive
<1>1. ASSUME UNCHANGED <<timer, timers, activeTimers>> PROVE TimersMatchActive'
  BY <1>1, <1>a DEF TimersMatchActive, TimerId
<1>2. CASE Tick \/ StepBack \/ UNCHANGED vars
  <2>1. UNCHANGED <<timer, timers, activeTimers, pending, live, batch>>
    BY <1>2 DEF Tick, StepBack, vars, callVars
  <2> QED BY <1>1, <1>o, <2>1, SamePending DEF OneOwner
<1>3. ASSUME NEW a \in Addresses, NEW s \in Schedules, InsertHere(a, s[1], s[2])
      PROVE  TimersMatchActive' /\ OneOwner'
  <2>0. PICK n : n = Len(timer) + 1
    OBVIOUS
  <2>1. /\ n \notin Handles /\ live' = live \cup {n}
        /\ \A t \in Handles : timer'[t] = timer[t]
        /\ timer'[n].addr = a /\ timer'[n].id = timerCount + 1
        /\ \A t \in live : timer[t].addr # a
    <3>1. /\ n \notin Handles /\ live' = live \cup {n}
          /\ \A t \in Handles : timer'[t] = timer[t]
          /\ timer'[n] = [addr |-> a, id |-> timerCount + 1,
                          exp |-> s[1], interval |-> s[2]]
          /\ \A t \in live : timer[t].addr # a
      BY <1>0, <1>3, <1>f, <2>0, SchedulesNat, NewTimerProperties DEF InsertHere
    <3> QED BY <3>1
  <2>2. /\ timers' = timers \cup {n} /\ batch' = batch
        /\ activeTimers' = activeTimers \cup {<<timerCount + 1, a>>}
        /\ PendingInserts' = PendingInserts
    BY <1>3, <2>0, SamePending DEF InsertHere, InsertInLoop, callVars
  <2>3. OneOwner'
    <3>1. \A t, u \in live' : timer'[t].addr = timer'[u].addr => t = u
      BY <1>f, <1>o, <2>1
    <3> QED BY <1>f, <1>o, <2>1, <2>2, <3>1 DEF OneOwner
  <2>4. TimersMatchActive'
    <3>1. \A t \in timers : TimerId(t)' = TimerId(t)
      BY <1>f, <2>1 DEF TimerId
    <3>2. TimerId(n)' = <<timerCount + 1, a>>
      BY <2>1 DEF TimerId
    <3>3. activeTimers' = {TimerId(t)' : t \in timers'}
      BY <1>a, <2>2, <3>1, <3>2
    <3>4. \A t, u \in timers' : TimerId(t)' = TimerId(u)' => t = u
      BY <2>3, <2>2, <2>1, <1>o DEF OneOwner, TimerId
    <3> QED BY <3>3, <3>4 DEF TimersMatchActive
  <2> QED BY <2>3, <2>4
<1>4. ASSUME NEW t \in Handles, CancelHere(t)
      PROVE  TimersMatchActive' /\ OneOwner'
  BY <1>4, SamePending, CancelOwners DEF CancelHere, callVars
<1>5. ASSUME NEW a \in Addresses, NEW s \in Schedules,
             InsertThere(a, s[1], s[2])
      PROVE  TimersMatchActive' /\ OneOwner'
  <2> DEFINE n == Len(timer) + 1
             c == [op |-> "insert", timer |-> n]
  <2>1. /\ n \notin Handles /\ n \in Nat /\ live' = live \cup {n}
        /\ \A t \in Handles : timer'[t] = timer[t]
        /\ timer'[n].addr = a
        /\ \A t \in live : timer[t].addr # a
    <3>1. /\ n \notin Handles /\ n \in Nat /\ live' = live \cup {n}
          /\ \A t \in Handles : timer'[t] = timer[t]
          /\ timer'[n] = [addr |-> a, id |-> timerCount + 1,
                          exp |-> s[1], interval |-> s[2]]
          /\ \A t \in live : timer[t].addr # a
      BY <1>0, <1>5, <1>f, SchedulesNat, NewTimerProperties DEF InsertThere
    <3> HIDE DEF n
    <3> QED BY <3>1
  <2>2. /\ timers' = timers /\ batch' = batch /\ activeTimers' = activeTimers
        /\ PendingInserts' = PendingInserts \cup {n}
    <3>1. pending' = Append(pending, c) /\ c \in Calls /\ c.op = "insert"
          /\ c.timer = n
      BY <1>5, <2>1 DEF InsertThere, Calls
    <3> HIDE DEF c
    <3>2. PendingInserts' = PendingInserts \cup {n}
      BY <3>1, PutCall
    <3> QED BY <1>5, <3>2 DEF InsertThere, callVars
  <2> HIDE DEF n
  <2>3. OneOwner'
    <3>1. \A t, u \in live' : timer'[t].addr = timer'[u].addr => t = u
      BY <1>f, <1>o, <2>1
    <3> QED BY <1>f, <1>o, <2>1, <2>2, <3>1 DEF OneOwner
  <2>4. \A t \in timers : TimerId(t)' = TimerId(t)
    BY <1>f, <2>1 DEF TimerId
  <2> QED BY <1>a, <2>2, <2>3, <2>4 DEF TimersMatchActive
<1>6. ASSUME NEW t \in Handles, CancelThere(t)
      PROVE  TimersMatchActive' /\ OneOwner'
  <2> DEFINE c == [op |-> "cancel", timer |-> t]
  <2>1. pending' = Append(pending, c) /\ c \in Calls /\ c.op # "insert"
    BY <1>6 DEF CancelThere, Calls, Handles
  <2> HIDE DEF c
  <2>2. PendingInserts' = PendingInserts
    BY <2>1, PutCall
  <2> QED BY <1>1, <1>6, <1>o, <2>2 DEF CancelThere, OneOwner, callVars
<1>7. CASE RunInsert
  <2> DEFINE t == Head(pending).timer
  <2>1. /\ t \in PendingInserts /\ t \in Handles
        /\ PendingInserts' = PendingInserts \ {t}
    BY <1>7, TakenInsert DEF RunInsert
  <2>2. /\ timers' = timers \cup {t} /\ batch' = batch /\ live' = live
        /\ activeTimers' = activeTimers \cup {TimerId(t)} /\ timer' = timer
    BY <1>7 DEF RunInsert, InsertInLoop, callVars
  <2> HIDE DEF t
  <2>3. OneOwner'
    BY <1>o, <2>1, <2>2 DEF OneOwner
  <2>4. \A u : TimerId(u)' = TimerId(u)
    BY <2>2 DEF TimerId
  <2>5. activeTimers' = {TimerId(u) : u \in timers'}
    BY <1>a, <2>2
  <2>6. \A u, v \in timers' : TimerId(u) = TimerId(v) => u = v
    BY <1>o, <2>1, <2>2, LiveIdsDiffer
  <2> QED BY <2>3, <2>4, <2>5, <2>6 DEF TimersMatchActive
<1>8. CASE RunCancel
  BY <1>8, TakenCancel, CancelOwners DEF RunCancel, callVars
<1>9. CASE BeginExpired
  <2>1. /\ batch = {} /\ batch' \subseteq timers /\ timers' = timers \ batch'
        /\ activeTimers' = activeTimers \ {TimerId(t) : t \in batch'}
        /\ timer' = timer /\ live' = live /\ pending' = pending
    BY <1>0, <1>9 DEF BeginExpired, BatchWhileCalling
  <2>2. OneOwner'
    BY <1>o, <2>1, SamePending DEF OneOwner
  <2>3. \A u : TimerId(u)' = TimerId(u)
    BY <2>1 DEF TimerId
  <2>4. activeTimers' = {TimerId(u) : u \in timers'}
    BY <1>a, <2>1
  <2> QED BY <1>a, <2>1, <2>2, <2>3, <2>4 DEF TimersMatchActive
<1>10. ASSUME NEW t \in Handles, RunTimer(t)
       PROVE  TimersMatchActive' /\ OneOwner'
  BY <1>1, <1>10, <1>o, SamePending DEF RunTimer, OneOwner
<1>11. CASE EndExpired
  <2>1. /\ timer' = RestartedTimer /\ timers' = timers \cup Restarted
        /\ activeTimers' = activeTimers \cup {TimerId(t) : t \in Restarted}
        /\ live' = live \ (batch \ Restarted) /\ batch' = {}
        /\ pending' = pending
    BY <1>11 DEF EndExpired
  <2>2. \A t \in Handles : /\ timer'[t].addr = timer[t].addr
                           /\ timer'[t].id = timer[t].id
    BY <1>0, <2>1, RestartedTimerProperties
  <2>3. Restarted \subseteq batch
    BY DEF Restarted
  <2>4. OneOwner'
    <3>1. \A t, u \in live' : timer'[t].addr = timer'[u].addr => t = u
      BY <1>f, <1>o, <2>1, <2>2
    <3> QED BY <1>o, <2>1, <2>3, <3>1, SamePending DEF OneOwner
  <2>5. \A t \in timers' : t \in live /\ TimerId(t)' = TimerId(t)
    BY <1>f, <1>o, <2>1, <2>2, <2>3 DEF TimerId
  <2>6. activeTimers' = {TimerId(t)' : t \in timers'}
    BY <1>a, <2>1, <2>5
  <2>7. \A t, u \in timers' : TimerId(t)' = TimerId(u)' => t = u
    BY <2>5, LiveIdsDiffer
  <2> QED BY <2>4, <2>6, <2>7 DEF TimersMatchActive
<1> QED BY <1>2, <1>3, <1>4, <1>5, <1>6, <1>7, <1>8, <1>9, <1>10, <1>11
        DEF Next, UserStep, LoopStep

---------------------------------------------------------------------------
(* Cancelled timers.                                                       *)

\* What cancelInLoop cancels is in neither index, or is marked by its address.
LEMMA CancelMarks ==
    ASSUME IInv, NEW t \in Handles, CancelInLoop(t), UNCHANGED <<timer, batch>>,
           PendingInserts' = PendingInserts
    PROVE  CancelledNotBack'
<1>1. /\ timers' = timers \ Found(t)
      /\ canceling \subseteq canceling'
      /\ TimerId(t) \notin activeTimers /\ calling =>
            timer[t].addr \in canceling'
      /\ cancelled' = cancelled \cup {t} /\ missed \subseteq missed'
      /\ t \in PendingInserts => t \in missed'
  BY DEF CancelInLoop, Found
<1>2. t \in timers => t \in Found(t)
  BY DEF Found
<1>3. t \in batch => TimerId(t) \notin activeTimers /\ calling
  <2> SUFFICES ASSUME t \in batch PROVE TimerId(t) \notin activeTimers /\ calling
    OBVIOUS
  <2>1. calling
    BY DEF IInv, BatchWhileCalling
  <2>2. ASSUME TimerId(t) \in activeTimers PROVE FALSE
    <3>1. PICK u \in timers : TimerId(u) = TimerId(t)
      BY <2>2 DEF IInv, TimersMatchActive
    <3>2. u \in live /\ t \in live /\ timers \cap batch = {}
      BY DEF IInv, OneOwner
    <3> QED BY <3>1, <3>2, LiveIdsDiffer
  <2> QED BY <2>1, <2>2
<1>4. /\ (cancelled \ missed) \cap (timers \cup PendingInserts) = {}
      /\ \A u \in (cancelled \ missed) \cap batch : timer[u].addr \in canceling
  BY DEF IInv, CancelledNotBack
<1> QED BY <1>1, <1>2, <1>3, <1>4 DEF CancelledNotBack

\* A cancelled timer keeps out of both indices, and does not return.
LEMMA NextCancelled == IInv /\ [Next]_vars => CancelledNotBack'
<1> SUFFICES ASSUME IInv, [Next]_vars PROVE CancelledNotBack'
  OBVIOUS
<1>0. TypeOK /\ CountsLive /\ BatchWhileCalling
  BY DEF IInv
<1>f. clock \in Nat /\ Len(timer) \in Nat /\ cancelled \subseteq Handles
      /\ batch \subseteq Handles
  BY <1>0, TypeFacts DEF TypeOK
<1>c. /\ (cancelled \ missed) \cap (timers \cup PendingInserts) = {}
      /\ \A u \in (cancelled \ missed) \cap batch : timer[u].addr \in canceling
  BY DEF IInv, CancelledNotBack
<1>1. CASE Tick \/ StepBack \/ UNCHANGED vars
  <2>1. UNCHANGED <<timer, timers, pending, batch, canceling, cancelled, missed>>
    BY <1>1 DEF Tick, StepBack, vars, callVars
  <2> QED BY <1>c, <2>1, SamePending DEF CancelledNotBack
<1>2. ASSUME NEW a \in Addresses, NEW s \in Schedules, InsertHere(a, s[1], s[2])
      PROVE  CancelledNotBack'
  <2> DEFINE n == Len(timer) + 1
  <2>1. n \notin Handles /\ \A t \in Handles : timer'[t] = timer[t]
    BY <1>0, <1>2, <1>f, SchedulesNat, NewTimerProperties DEF InsertHere
  <2>2. /\ timers' = timers \cup {n} /\ PendingInserts' = PendingInserts
        /\ UNCHANGED <<batch, canceling, cancelled, missed>>
    BY <1>2, SamePending DEF InsertHere, InsertInLoop, callVars
  <2> HIDE DEF n
  <2> QED BY <1>c, <1>f, <2>1, <2>2 DEF CancelledNotBack
<1>3. ASSUME NEW t \in Handles, CancelHere(t) PROVE CancelledNotBack'
  BY <1>3, SamePending, CancelMarks DEF CancelHere, callVars
<1>4. ASSUME NEW a \in Addresses, NEW s \in Schedules,
             InsertThere(a, s[1], s[2])
      PROVE  CancelledNotBack'
  <2> DEFINE n == Len(timer) + 1
             c == [op |-> "insert", timer |-> n]
  <2>1. n \notin Handles /\ n \in Nat /\ \A t \in Handles : timer'[t] = timer[t]
    BY <1>0, <1>4, <1>f, SchedulesNat, NewTimerProperties DEF InsertThere
  <2>2. PendingInserts' = PendingInserts \cup {n}
    <3>1. pending' = Append(pending, c) /\ c \in Calls /\ c.op = "insert"
          /\ c.timer = n
      BY <1>4, <2>1 DEF InsertThere, Calls
    <3> HIDE DEF c
    <3> QED BY <3>1, PutCall
  <2>3. UNCHANGED <<timers, batch, canceling, cancelled, missed>>
    BY <1>4 DEF InsertThere, callVars
  <2> HIDE DEF n
  <2> QED BY <1>c, <1>f, <2>1, <2>2, <2>3 DEF CancelledNotBack
<1>5. ASSUME NEW t \in Handles, CancelThere(t) PROVE CancelledNotBack'
  <2> DEFINE c == [op |-> "cancel", timer |-> t]
  <2>1. pending' = Append(pending, c) /\ c \in Calls /\ c.op # "insert"
    BY <1>5 DEF CancelThere, Calls, Handles
  <2> HIDE DEF c
  <2>2. PendingInserts' = PendingInserts
    BY <2>1, PutCall
  <2> QED BY <1>5, <1>c, <2>2 DEF CancelThere, CancelledNotBack, callVars
<1>6. CASE RunInsert
  <2> DEFINE t == Head(pending).timer
  <2>1. t \in PendingInserts /\ PendingInserts' = PendingInserts \ {t}
    BY <1>6, TakenInsert DEF RunInsert
  <2>2. /\ timers' = timers \cup {t}
        /\ UNCHANGED <<timer, batch, canceling, cancelled, missed>>
    BY <1>6 DEF RunInsert, InsertInLoop, callVars
  <2> HIDE DEF t
  <2> QED BY <1>c, <2>1, <2>2 DEF CancelledNotBack
<1>7. CASE RunCancel
  BY <1>7, TakenCancel, CancelMarks DEF RunCancel, callVars
<1>8. CASE BeginExpired
  <2>1. /\ batch' \subseteq timers /\ timers' = timers \ batch'
        /\ UNCHANGED <<timer, pending, cancelled, missed>>
    BY <1>8 DEF BeginExpired
  <2> QED BY <1>c, <2>1, SamePending DEF CancelledNotBack
<1>9. ASSUME NEW t \in Handles, RunTimer(t) PROVE CancelledNotBack'
  <2>1. UNCHANGED <<timer, timers, pending, batch, canceling, cancelled, missed>>
    BY <1>9 DEF RunTimer
  <2> QED BY <1>c, <2>1, SamePending DEF CancelledNotBack
<1>10. CASE EndExpired
  <2>1. /\ timers' = timers \cup Restarted /\ batch' = {}
        /\ UNCHANGED <<pending, cancelled, missed>>
    BY <1>10 DEF EndExpired
  <2>2. Restarted \cap (cancelled \ missed) = {}
    BY <1>c DEF Restarted
  <2> QED BY <1>c, <2>1, <2>2, SamePending DEF CancelledNotBack
<1> QED BY <1>1, <1>2, <1>3, <1>4, <1>5, <1>6, <1>7, <1>8, <1>9, <1>10
        DEF Next, UserStep, LoopStep

---------------------------------------------------------------------------
(* timerfd_.                                                               *)

\* Armed with fd at the time c, timerfd_ is readable by the time when.
Covers(fd, c, when) ==
    fd # Disarmed /\ fd <= (IF when > c THEN when - c ELSE 0)

\* What TimerfdCoversEarliest says, before and after a step.
LEMMA CoversIs ==
    /\ TimerfdCoversEarliest <=>
         (~calling => \A t \in timers : Covers(timerfd, clock, timer[t].exp))
    /\ TimerfdCoversEarliest' <=>
         (~calling' => \A t \in timers' : Covers(timerfd', clock', timer'[t].exp))
BY DEF TimerfdCoversEarliest, Covers, intervalFromNow

\* insertInLoop arms timerfd_ for the new timer, or an earlier one has.
LEMMA ArmAfterInsertCovers ==
    ASSUME IInv, ~calling, NEW when \in Nat, ArmAfterInsert(when)
    PROVE  /\ Covers(timerfd', clock, when)
           /\ \A t \in timers : Covers(timerfd', clock, timer[t].exp)
<1>1. /\ clock \in Nat /\ timerfd \in Nat \cup {Disarmed}
      /\ \A t \in timers : timer[t].exp \in Nat
  BY TypeFacts DEF IInv, TypeOK
<1>2. \A t \in timers : Covers(timerfd, clock, timer[t].exp)
  BY CoversIs DEF IInv
<1>3. CASE \A u \in timers : when < timer[u].exp
  <2>1. timerfd' = IF when > clock THEN when - clock ELSE 0
    BY <1>3 DEF ArmAfterInsert, intervalFromNow
  <2> QED BY <1>1, <1>3, <2>1 DEF Covers, Disarmed
<1>4. CASE ~\A u \in timers : when < timer[u].exp
  <2>1. timerfd' = timerfd
    BY <1>4 DEF ArmAfterInsert
  <2>2. PICK u \in timers : ~(when < timer[u].exp)
    BY <1>4
  <2>3. Covers(timerfd, clock, when)
    BY <1>1, <1>2, <2>2 DEF Covers, Disarmed
  <2> QED BY <1>2, <2>1, <2>3
<1> QED BY <1>3, <1>4

\* Outside timerReadingCallback timerfd_ keeps covering the queued timers.
LEMMA NextCovers == IInv /\ [Next]_vars => TimerfdCoversEarliest'
<1> SUFFICES ASSUME IInv, [Next]_vars, ~calling'
             PROVE  \A t \in timers' : Covers(timerfd', clock', timer'[t].exp)
  BY CoversIs
<1>0. TypeOK /\ CountsLive
  BY DEF IInv
<1>f. /\ clock \in Nat /\ timerfd \in Nat \cup {Disarmed} /\ Len(timer) \in Nat
      /\ timers \subseteq Handles /\ \A t \in timers : timer[t].exp \in Nat
      /\ \A t \in Handles : timer[t].exp \in Nat
  BY <1>0, TypeFacts DEF TypeOK
<1>c. ~calling => \A t \in timers : Covers(timerfd, clock, timer[t].exp)
  BY CoversIs DEF IInv
<1>1. CASE Tick
  <2>1. /\ clock' = clock + 1
        /\ timerfd' = IF timerfd > 0 THEN timerfd - 1 ELSE timerfd
        /\ UNCHANGED <<timers, timer, calling>>
    BY <1>1 DEF Tick, callVars
  <2> TAKE t \in timers'
  <2>2. Covers(timerfd, clock, timer[t].exp) /\ timer[t].exp \in Nat
    BY <1>c, <1>f, <2>1
  <2>3. Covers(timerfd', clock', timer[t].exp)
    BY <1>f, <2>1, <2>2 DEF Covers, Disarmed
  <2> QED BY <2>1, <2>3
<1>2. CASE StepBack
  <2>1. /\ clock' = clock - 1 /\ clock' \in Nat
        /\ UNCHANGED <<timers, timer, timerfd, calling>>
    BY <1>2, <1>f DEF StepBack, callVars
  <2> TAKE t \in timers'
  <2>2. Covers(timerfd, clock, timer[t].exp) /\ timer[t].exp \in Nat
    BY <1>c, <1>f, <2>1
  <2>3. Covers(timerfd', clock', timer[t].exp)
    BY <1>f, <2>1, <2>2 DEF Covers, Disarmed
  <2> QED BY <2>1, <2>3
<1>3. ASSUME NEW a \in Addresses, NEW s \in Schedules, InsertHere(a, s[1], s[2])
      PROVE  \A t \in timers' : Covers(timerfd', clock', timer'[t].exp)
  <2>0. PICK n : n = Len(timer) + 1
    OBVIOUS
  <2>1. /\ \A t \in Handles : timer'[t] = timer[t]
        /\ timer'[n].exp = s[1] /\ s[1] \in Nat
    <3>1. /\ \A t \in Handles : timer'[t] = timer[t]
          /\ timer'[n] = [addr |-> a, id |-> timerCount + 1,
                          exp |-> s[1], interval |-> s[2]]
          /\ s[1] \in Nat
      BY <1>0, <1>3, <1>f, <2>0, SchedulesNat, NewTimerProperties DEF InsertHere
    <3> QED BY <3>1
  <2>2. /\ timers' = timers \cup {n} /\ clock' = clock /\ ~calling
        /\ ArmAfterInsert(s[1])
    BY <1>3, <2>0 DEF InsertHere, InsertInLoop, callVars, timeVars
  <2>3. /\ Covers(timerfd', clock, s[1])
        /\ \A t \in timers : Covers(timerfd', clock, timer[t].exp)
    BY <2>1, <2>2, ArmAfterInsertCovers
  <2> QED BY <1>f, <2>1, <2>2, <2>3
<1>4. ASSUME NEW t \in Handles, CancelInLoop(t),
             UNCHANGED <<timerfd, clock, timer, calling>>
      PROVE  \A u \in timers' : Covers(timerfd', clock', timer'[u].exp)
  BY <1>4, <1>c DEF CancelInLoop
<1>5. ASSUME NEW t \in Handles, CancelHere(t)
      PROVE  \A u \in timers' : Covers(timerfd', clock', timer'[u].exp)
  BY <1>4, <1>5 DEF CancelHere, callVars, timeVars
<1>6. ASSUME NEW a \in Addresses, NEW s \in Schedules,
             InsertThere(a, s[1], s[2])
      PROVE  \A t \in timers' : Covers(timerfd', clock', timer'[t].exp)
  <2>1. \A t \in Handles : timer'[t] = timer[t]
    BY <1>0, <1>6, <1>f, SchedulesNat, NewTimerProperties DEF InsertThere
  <2> QED BY <1>6, <1>c, <1>f, <2>1 DEF InsertThere, callVars, timeVars
<1>7. ASSUME UNCHANGED <<timerfd, clock, timer, timers, calling>>
      PROVE  \A u \in timers' : Covers(timerfd', clock', timer'[u].exp)
  BY <1>7, <1>c
<1>8. ASSUME NEW t \in Handles, CancelThere(t)
      PROVE  \A u \in timers' : Covers(timerfd', clock', timer'[u].exp)
  BY <1>7, <1>8 DEF CancelThere, callVars, timeVars
<1>9. CASE RunInsert
  <2> DEFINE t == Head(pending).timer
  <2>1. t \in Handles
    BY <1>9, TakenInsert DEF RunInsert
  <2>2. /\ timers' = timers \cup {t} /\ clock' = clock /\ ~calling
        /\ timer' = timer /\ ArmAfterInsert(timer[t].exp)
    BY <1>9 DEF RunInsert, InsertInLoop, callVars, timeVars
  <2> HIDE DEF t
  <2>3. /\ Covers(timerfd', clock, timer[t].exp)
        /\ \A u \in timers : Covers(timerfd', clock, timer[u].exp)
    BY <1>f, <2>1, <2>2, ArmAfterInsertCovers
  <2> QED BY <2>2, <2>3
<1>10. CASE RunCancel
  BY <1>4, <1>10, TakenCancel DEF RunCancel, callVars, timeVars
<1>11. CASE BeginExpired
  BY <1>11 DEF BeginExpired
<1>12. ASSUME NEW t \in Handles, RunTimer(t)
       PROVE  \A u \in timers' : Covers(timerfd', clock', timer'[u].exp)
  BY <1>7, <1>12 DEF RunTimer, timeVars
<1>13. CASE EndExpired
  <2>1. TypeOK' /\ clock' = clock /\ ArmAfterReset
    BY <1>13, NextTypeOK DEF EndExpired, timeVars
  <2>2. /\ timer' \in Seq(TimerRecord) /\ timers' \subseteq 1..Len(timer')
        /\ \A t \in timers' : timer'[t].exp \in Nat
    <3>1. timer' \in Seq(TimerRecord) /\ timers' \subseteq 1..Len(timer')
      BY <2>1 DEF TypeOK, Handles
    <3>2. \A t \in timers' : timer'[t] \in TimerRecord
      BY <3>1, ElementOfSeq
    <3> QED BY <3>1, <3>2 DEF TimerRecord
  <2> TAKE u \in timers'
  <2>3. PICK t \in timers' :
           /\ \A v \in timers' : timer'[t].exp <= timer'[v].exp
           /\ timerfd' = intervalFromNow(timer'[t].exp)
    BY <2>1, <2>2, ArmAfterResetProperties
  <2>4. /\ timer'[t].exp \in Nat /\ timer'[u].exp \in Nat
        /\ timer'[t].exp <= timer'[u].exp
    BY <2>2, <2>3
  <2> QED BY <1>f, <2>1, <2>3, <2>4 DEF Covers, Disarmed, intervalFromNow
<1>14. CASE UNCHANGED vars
  BY <1>7, <1>14 DEF vars
<1> QED BY <1>1, <1>2, <1>3, <1>5, <1>6, <1>8, <1>9, <1>10, <1>11, <1>12, <1>13,
           <1>14 DEF Next, UserStep, LoopStep

---------------------------------------------------------------------------
(* The theorems.                                                           *)

\* The inductive invariant holds in every reachable state.
LEMMA SpecIInv == Spec => []IInv
<1>1. IInv /\ [Next]_vars => IInv'
  BY NextTypeOK, NextQueue, NextOwners, NextCancelled, NextCovers DEF IInv
<1> QED BY <1>1, InitIInv, PTL DEF Spec

(***************************************************************************)
(* timers_, activeTimers_ and the heap agree after any insertTimer and     *)
(* cancelTimer calls, from callbacks and from other threads: no Timer is   *)
(* leaked, deleted twice or deleted while it is queued, also when the heap *)
(* returns addresses again and timerCount_ takes old values.               *)
(***************************************************************************)
THEOREM TimerQueueConsistent == Spec => []TimersConsistent
<1>1. IInv => TimersConsistent
  BY DEF IInv, TimersConsistent
<1> QED BY <1>1, SpecIInv, PTL

\* Outside timerReadingCallback timerfd_ is readable no later than the first
\* queued timer expires: insertInLoop and resetExpirationTimers arm it.
THEOREM TimerQueueTimerfdCovers == Spec => []TimerfdCoversEarliest
<1>1. IInv => TimerfdCoversEarliest
  BY DEF IInv
<1> QED BY <1>1, SpecIInv, PTL

\* A timer cancelled after its insertion never returns to timers_, also if it
\* was cancelled while its batch was being called.
THEOREM TimerQueueCancelledStaysOut == Spec => []CancelledStaysOut
<1>1. IInv => CancelledStaysOut
  BY DEF IInv, CancelledNotBack, CancelledStaysOut
<1> QED BY <1>1, SpecIInv, PTL
=============================================================================
