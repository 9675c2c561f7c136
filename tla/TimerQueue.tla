---------------------------- MODULE TimerQueue ----------------------------
(***************************************************************************)
(* stnl::TimerQueue and stnl::Timer (src/stnl/Timer.cpp): the timers of    *)
(* one EventLoop, multiplexed on one timerfd.  The loop thread inserts and *)
(* cancels at once, another thread through the loop's queue of functions   *)
(* (first in first out, see EventLoop).  Timer objects live in a heap that *)
(* may hand out the address of a deleted timer again.                      *)
(***************************************************************************)
EXTENDS Integers, Sequences, FiniteSets

CONSTANTS
    Addresses,      \* addresses operator new returns
    Reuse,          \* BOOLEAN: a freed address may be handed out again
    Delays,         \* delays of runAt and runAfter, in ticks
    Intervals,      \* intervals of runEvery, in ticks
    MaxTimers,      \* bound: Timer objects ever created
    MaxClock,       \* bound: the last tick
    MaxStepsBack,   \* bound: how often the wall clock is set back a tick
    MaxPending      \* bound: functions in the loop's queue

ASSUME TimerQueueAssumption ==
    /\ Reuse \in BOOLEAN
    /\ Delays \subseteq Nat
    /\ Intervals \subseteq Nat \ {0}
    /\ MaxTimers \in Nat /\ MaxClock \in Nat
    /\ MaxStepsBack \in Nat /\ MaxPending \in Nat

VARIABLES
    clock,          \* Timestamp::now(), the wall clock in ticks
    stepsBack,      \* how often the wall clock was set back
    timerfd,        \* ticks until timerfd_ is readable, or Disarmed
    timerCount,     \* Timer::timerCount_
    timer,          \* every Timer object ever made: addr, id, exp, interval
    live,           \* indices of the Timer objects not deleted
    timers,         \* timers_: indices, ordered by exp
    activeTimers,   \* activeTimers_: TimerIds
    canceling,      \* cancelingTimers_: addresses
    calling,        \* callingExpiredTimers_
    batch,          \* expirationTimers of timerReadingCallback
    toRun,          \* those of the batch whose run() is still to come
    now,            \* now_time of timerReadingCallback
    pending,        \* insertInLoop and cancelInLoop calls in the loop's queue
    cancelled,      \* history: timers a cancelInLoop was executed for
    missed          \* history: those not inserted yet when it was

timeVars == <<clock, stepsBack>>
callVars == <<calling, batch, toRun, now>>
vars == <<clock, stepsBack, timerfd, timerCount, timer, live, timers,
          activeTimers, canceling, calling, batch, toRun, now, pending,
          cancelled, missed>>

Disarmed == -1

Handles == 1..Len(timer)

\* TimerId: the count at construction and the address.
TimerId(t) == <<timer[t].id, timer[t].addr>>

PendingInserts == {pending[i].timer : i \in
                    {j \in 1..Len(pending) : pending[j].op = "insert"}}

\* timers_.begin(): no timer of the set expires before t.
Earliest(S, t) == t \in S /\ \A u \in S : timer[t].exp <= timer[u].exp

Init ==
    /\ clock = 0
    /\ stepsBack = 0
    /\ timerfd = Disarmed
    /\ timerCount = 0
    /\ timer = <<>>
    /\ live = {}
    /\ timers = {}
    /\ activeTimers = {}
    /\ canceling = {}
    /\ calling = FALSE
    /\ batch = {}
    /\ toRun = {}
    /\ now = 0
    /\ pending = <<>>
    /\ cancelled = {}
    /\ missed = {}

---------------------------------------------------------------------------
(* Time.                                                                   *)

Tick ==
    /\ clock < MaxClock
    /\ clock' = clock + 1
    /\ timerfd' = IF timerfd > 0 THEN timerfd - 1 ELSE timerfd
    /\ UNCHANGED <<stepsBack, timerCount, timer, live, timers, activeTimers,
                   canceling, callVars, pending, cancelled, missed>>

\* The wall clock is set back; timerfd_ counts on CLOCK_MONOTONIC.
StepBack ==
    /\ stepsBack < MaxStepsBack
    /\ clock > 0
    /\ clock' = clock - 1
    /\ stepsBack' = stepsBack + 1
    /\ UNCHANGED <<timerfd, timerCount, timer, live, timers, activeTimers,
                   canceling, callVars, pending, cancelled, missed>>

\* Mutant: an expiration that has passed gives a non-positive it_value.
intervalFromNowRaw(when) == IF when > clock THEN when - clock ELSE Disarmed

\* intervalFromNow: 1000 ns when the time has passed, less than a tick.
intervalFromNow(when) == IF when > clock THEN when - clock ELSE 0

---------------------------------------------------------------------------
(* Construction and the functions that run in the loop thread.             *)

\* The addresses operator new may return.
FreeAddresses ==
    Addresses \ {timer[t].addr : t \in IF Reuse THEN live ELSE Handles}

\* new Timer: the id is the count of timers alive, this one included.
NewTimer(a, when, interval) ==
    /\ Len(timer) < MaxTimers
    /\ timerCount' = timerCount + 1
    /\ timer' = Append(timer, [addr |-> a, id |-> timerCount + 1,
                               exp |-> when, interval |-> interval])
    /\ live' = live \cup {Len(timer) + 1}

\* Expiration and interval that runAt, runAfter and runEvery compute.
Schedules ==
    {<<clock + d, 0>> : d \in Delays} \cup {<<clock + i, i>> : i \in Intervals}

\* resetTimerfd in insertInLoop, when the new timer is strictly the earliest.
ArmAfterInsert(when) ==
    timerfd' = IF \A u \in timers : when < timer[u].exp
               THEN intervalFromNow(when) ELSE timerfd

\* insertInLoop of a timer with the given TimerId and expiration.
InsertInLoop(t, timerId, when) ==
    /\ timers' = timers \cup {t}
    /\ activeTimers' = activeTimers \cup {timerId}
    /\ ArmAfterInsert(when)

\* Mutant: cancelInLoop forgets activeTimers_.
CancelInLoopTimersOnly(t) ==
    LET found == {u \in timers : TimerId(u) = TimerId(t)} IN
    /\ timers' = timers \ found
    /\ live' = live \ found
    /\ timerCount' = timerCount - Cardinality(found)
    /\ canceling' = IF TimerId(t) \notin activeTimers /\ calling
                    THEN canceling \cup {timer[t].addr} ELSE canceling
    /\ cancelled' = cancelled \cup {t}
    /\ missed' = IF t \in PendingInserts THEN missed \cup {t} ELSE missed
    /\ UNCHANGED activeTimers

\* Mutant: cancelInLoop ignores a timer that is being called.
CancelInLoopNotCalling(t) ==
    LET found == {u \in timers : TimerId(u) = TimerId(t)} IN
    /\ timers' = timers \ found
    /\ activeTimers' = activeTimers \ {TimerId(t)}
    /\ live' = live \ found
    /\ timerCount' = timerCount - Cardinality(found)
    /\ cancelled' = cancelled \cup {t}
    /\ missed' = IF t \in PendingInserts THEN missed \cup {t} ELSE missed
    /\ UNCHANGED canceling

\* cancelInLoop: by TimerId in activeTimers_, else by address if calling.
CancelInLoop(t) ==
    LET found == {u \in timers : TimerId(u) = TimerId(t)} IN
    /\ timers' = timers \ found
    /\ activeTimers' = activeTimers \ {TimerId(t)}
    /\ live' = live \ found
    /\ timerCount' = timerCount - Cardinality(found)
    /\ canceling' = IF TimerId(t) \notin activeTimers /\ calling
                    THEN canceling \cup {timer[t].addr} ELSE canceling
    /\ cancelled' = cancelled \cup {t}
    /\ missed' = IF t \in PendingInserts THEN missed \cup {t} ELSE missed

---------------------------------------------------------------------------
(* Calls.  The loop thread makes them outside timerReadingCallback, or     *)
(* from the timer that is running.                                         *)

InUserCode == calling => toRun # batch

\* runAt/runAfter/runEvery on the loop thread.
InsertHere(a, when, interval) ==
    /\ InUserCode
    /\ a \in FreeAddresses
    /\ NewTimer(a, when, interval)
    /\ InsertInLoop(Len(timer) + 1, <<timerCount + 1, a>>, when)
    /\ UNCHANGED <<timeVars, canceling, callVars, pending, cancelled, missed>>

\* cancelTimer on the loop thread, with any TimerId ever returned.
CancelHere(t) ==
    /\ InUserCode
    /\ CancelInLoop(t)
    /\ UNCHANGED <<timeVars, timerfd, timer, callVars, pending>>

\* runAt/runAfter/runEvery on another thread.
InsertThere(a, when, interval) ==
    /\ Len(pending) < MaxPending
    /\ a \in FreeAddresses
    /\ NewTimer(a, when, interval)
    /\ pending' = Append(pending, [op |-> "insert", timer |-> Len(timer) + 1])
    /\ UNCHANGED <<timeVars, timerfd, timers, activeTimers, canceling,
                   callVars, cancelled, missed>>

\* cancelTimer on another thread.
CancelThere(t) ==
    /\ Len(pending) < MaxPending
    /\ pending' = Append(pending, [op |-> "cancel", timer |-> t])
    /\ UNCHANGED <<timeVars, timerfd, timerCount, timer, live, timers,
                   activeTimers, canceling, callVars, cancelled, missed>>

\* doPendingFunctions reaches an insertInLoop.
RunInsert ==
    /\ ~calling
    /\ pending # <<>> /\ Head(pending).op = "insert"
    /\ LET t == Head(pending).timer
       IN  InsertInLoop(t, TimerId(t), timer[t].exp)
    /\ pending' = Tail(pending)
    /\ UNCHANGED <<timeVars, timerCount, timer, live, canceling, callVars,
                   cancelled, missed>>

\* doPendingFunctions reaches a cancelInLoop.
RunCancel ==
    /\ ~calling
    /\ pending # <<>> /\ Head(pending).op = "cancel"
    /\ CancelInLoop(Head(pending).timer)
    /\ pending' = Tail(pending)
    /\ UNCHANGED <<timeVars, timerfd, timer, callVars>>

---------------------------------------------------------------------------
(* timerReadingCallback.                                                   *)

\* The read of timerfd_ and getAllExpirationTimer, up to the first run().
BeginExpired ==
    /\ ~calling
    /\ timerfd = 0
    /\ now' = clock
    /\ timerfd' = Disarmed
    /\ batch' = {t \in timers : timer[t].exp <= clock}
    /\ toRun' = batch'
    /\ timers' = timers \ batch'
    /\ activeTimers' = activeTimers \ {TimerId(t) : t \in batch'}
    /\ calling' = TRUE
    /\ canceling' = {}
    /\ UNCHANGED <<timeVars, timerCount, timer, live, pending, cancelled,
                   missed>>

\* The next timer of the batch starts to run.
RunTimer(t) ==
    /\ calling
    /\ Earliest(toRun, t)
    /\ toRun' = toRun \ {t}
    /\ UNCHANGED <<timeVars, timerfd, timerCount, timer, live, timers,
                   activeTimers, canceling, calling, batch, now, pending,
                   cancelled, missed>>

\* The timers resetExpirationTimers puts back.
Restarted == {t \in batch : timer[t].interval > 0
                            /\ timer[t].addr \notin canceling}

\* Timer::restart of those.
RestartedTimer ==
    [t \in Handles |-> IF t \in Restarted
                       THEN [timer[t] EXCEPT !.exp = now + timer[t].interval]
                       ELSE timer[t]]

\* Mutant: timerfd_ is armed only for the timers put back.
ArmAfterResetRestarted ==
    timerfd' = IF Restarted = {} THEN timerfd
               ELSE LET t == CHOOSE t \in timers' :
                               \A u \in timers' : timer'[t].exp <= timer'[u].exp
                    IN  intervalFromNow(timer'[t].exp)

\* The last lines of resetExpirationTimers: arm for timers_.begin(), if any.
ArmAfterReset ==
    timerfd' = IF timers' = {} THEN timerfd
               ELSE LET t == CHOOSE t \in timers' :
                               \A u \in timers' : timer'[t].exp <= timer'[u].exp
                    IN  intervalFromNow(timer'[t].exp)

\* resetExpirationTimers, and the deletion of the rest of the batch.
EndExpired ==
    /\ calling
    /\ toRun = {}
    /\ calling' = FALSE
    /\ timer' = RestartedTimer
    /\ timers' = timers \cup Restarted
    /\ activeTimers' = activeTimers \cup {TimerId(t) : t \in Restarted}
    /\ ArmAfterReset
    /\ live' = live \ (batch \ Restarted)
    /\ timerCount' = timerCount - Cardinality(batch \ Restarted)
    /\ batch' = {}
    /\ now' = 0
    /\ UNCHANGED <<timeVars, canceling, toRun, pending, cancelled, missed>>

---------------------------------------------------------------------------
UserStep ==
    \/ \E a \in Addresses, s \in Schedules : InsertHere(a, s[1], s[2])
    \/ \E t \in Handles : CancelHere(t)
    \/ \E a \in Addresses, s \in Schedules : InsertThere(a, s[1], s[2])
    \/ \E t \in Handles : CancelThere(t)

LoopStep ==
    \/ RunInsert
    \/ RunCancel
    \/ BeginExpired
    \/ \E t \in Handles : RunTimer(t)
    \/ EndExpired

Next == Tick \/ StepBack \/ UserStep \/ LoopStep

Spec == Init /\ [][Next]_vars

(***************************************************************************)
(* Fairness: time passes, the loop thread handles the readable timerfd_    *)
(* and runs its queue, and callbacks return.                               *)
(***************************************************************************)
Fairness ==
    /\ WF_vars(Tick)
    /\ WF_vars(RunInsert)
    /\ WF_vars(RunCancel)
    /\ WF_vars(BeginExpired)
    /\ WF_vars(\E t \in Handles : RunTimer(t))
    /\ WF_vars(EndExpired)

FairSpec == Spec /\ Fairness

---------------------------------------------------------------------------
(* Properties.                                                             *)

TimerRecord == [addr : Addresses, id : Nat, exp : Nat, interval : Nat]

(***************************************************************************)
(* Types of the variables.                                                 *)
(***************************************************************************)
TypeOK ==
    /\ clock \in 0..MaxClock
    /\ stepsBack \in 0..MaxStepsBack
    /\ timerfd \in Nat \cup {Disarmed}
    /\ timerCount \in Nat
    /\ timer \in Seq(TimerRecord)
    /\ live \subseteq Handles /\ timers \subseteq Handles
    /\ batch \subseteq Handles /\ toRun \subseteq batch
    /\ activeTimers \subseteq Nat \X Addresses
    /\ canceling \subseteq Addresses
    /\ calling \in BOOLEAN
    /\ now \in 0..MaxClock
    /\ pending \in Seq([op : {"insert", "cancel"}, timer : Nat])
    /\ cancelled \subseteq Handles /\ missed \subseteq Handles

(***************************************************************************)
(* timers_ and activeTimers_ hold the same timers, which is more than the  *)
(* asserts on their sizes say: each active TimerId is that of exactly one  *)
(* queued timer, even after addresses and counts have been used again.     *)
(***************************************************************************)
TimersMatchActive ==
    /\ activeTimers = {TimerId(t) : t \in timers}
    /\ \A t, u \in timers : TimerId(t) = TimerId(u) => t = u

(***************************************************************************)
(* Every Timer object alive has exactly one owner: a queued insertInLoop,  *)
(* timers_, or the batch being called.  None leaks, none is deleted while  *)
(* somebody will still reach it, none is deleted twice.                    *)
(***************************************************************************)
OneOwner ==
    /\ live = PendingInserts \cup timers \cup batch
    /\ timers \cap batch = {}
    /\ PendingInserts \cap (timers \cup batch) = {}
    /\ \A t, u \in live : timer[t].addr = timer[u].addr => t = u

(***************************************************************************)
(* The two indices and the heap agree, after any inserts, cancels and      *)
(* expirations, from callbacks and from other threads.                     *)
(***************************************************************************)
TimersConsistent == TypeOK /\ TimersMatchActive /\ OneOwner

(***************************************************************************)
(* timerfd_ covers the earliest timer: outside timerReadingCallback a      *)
(* queued timer has timerfd_ armed to become readable no later than its    *)
(* expiration, whatever was inserted, cancelled or restarted, late or not, *)
(* and even if the wall clock was set back.                                *)
(***************************************************************************)
TimerfdCoversEarliest ==
    ~calling => \A t \in timers : /\ timerfd # Disarmed
                                  /\ timerfd <= intervalFromNow(timer[t].exp)

(***************************************************************************)
(* A timer that was cancelled after its insertion, from its own callback,  *)
(* from another callback of the same batch or from outside, is never put   *)
(* back into timers_.                                                      *)
(***************************************************************************)
CancelledStaysOut == (cancelled \ missed) \cap timers = {}

(***************************************************************************)
(* A timer due within the modelled time leaves timers_: it is run, or      *)
(* cancelled.                                                              *)
(***************************************************************************)
DueTimersRun ==
    \A t \in 1..MaxTimers :
        (t \in timers /\ timer[t].exp <= MaxClock) ~> t \notin timers

(***************************************************************************)
(* A repeating timer stops only because of a cancel with its own TimerId:  *)
(* until then it is queued, being called, or waiting to be inserted.       *)
(***************************************************************************)
StoppedOnlyByOwnId ==
    \A t \in Handles :
        timer[t].interval > 0 =>
            t \in timers \cup batch \cup PendingInserts \cup cancelled

=============================================================================
