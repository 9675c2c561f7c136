---------------------------- MODULE EventLoop ----------------------------
(***************************************************************************)
(* stnl::EventLoop (src/stnl/EventLoop.cpp): the reactor of one thread,    *)
(* the queue of functions other threads hand to it, and the eventfd that   *)
(* wakes it up.  The loop thread goes through loop(); every other thread   *)
(* calls runInLoop(), queueInLoop() and quit(), each of which has a point  *)
(* between its store and its write to the eventfd where it can be          *)
(* overtaken.                                                              *)
(***************************************************************************)
EXTENDS Naturals, Sequences, FiniteSets

CONSTANTS
    Threads,        \* the threads that use the loop without owning it
    Functions,      \* function objects handed to the loop, one per call
    MaxQuits        \* bound: how many times quit() is called

ASSUME MaxQuitsAssumption == MaxQuits \in Nat

VARIABLES
    pc,             \* where the loop thread is, see LoopPc
    looping,        \* looping_
    running,        \* running_
    calling,        \* callingPendingFunctions_
    active,         \* activeChannels still to be handled in this iteration
    pending,        \* pendingFunctions_
    functions,      \* local `functions` of doPendingFunctions, head is running
    wakeupFd,       \* counter of the eventfd (EFD_SEMAPHORE)
    wakers,         \* threads past their store, before their wakeup()
    quits,          \* how many times quit() has been called
    queued,         \* history: functions in the order of their emplace_back
    executed,       \* history: queued functions that have returned, in order
    early           \* history: functions the loop thread queued outside loop()

loopVars == <<pc, looping, running, calling, active, functions>>
vars == <<pc, looping, running, calling, active, pending, functions,
          wakeupFd, wakers, quits, queued, executed, early>>

(***************************************************************************)
(* "idle": outside loop(); "check": at while (running_); "select": in      *)
(* epoll_wait; "handling": in the for over activeChannels; "calling": in   *)
(* the for of doPendingFunctions.                                          *)
(***************************************************************************)
LoopPc == {"idle", "check", "select", "handling", "calling"}

\* The wakeup channel and any other channel (sockets, the timerfd).
Channels == {"wakeup", "io"}

SeqRange(s) == {s[i] : i \in 1..Len(s)}

Fresh == Functions \ SeqRange(queued)

Init ==
    /\ pc = "idle"
    /\ looping = FALSE
    /\ running = FALSE
    /\ calling = FALSE
    /\ active = {}
    /\ pending = <<>>
    /\ functions = <<>>
    /\ wakeupFd = 0
    /\ wakers = {}
    /\ quits = 0
    /\ queued = <<>>
    /\ executed = <<>>
    /\ early = {}

---------------------------------------------------------------------------
(* Calls of the other threads.                                             *)

\* Mutant: queueInLoop writes to the eventfd only from the loop thread.
QueueInLoopSilent(t, f) ==
    /\ t \notin wakers
    /\ f \in Fresh
    /\ pending' = Append(pending, f)
    /\ queued' = Append(queued, f)
    /\ UNCHANGED <<loopVars, wakeupFd, wakers, quits, executed, early>>

\* runInLoop/queueInLoop off the loop thread, up to the end of the lock.
QueueInLoop(t, f) ==
    /\ t \notin wakers
    /\ f \in Fresh
    /\ pending' = Append(pending, f)
    /\ queued' = Append(queued, f)
    /\ wakers' = wakers \cup {t}
    /\ UNCHANGED <<loopVars, wakeupFd, quits, executed, early>>

\* Mutant: quit() without its wakeup().
QuitSilent(t) ==
    /\ t \notin wakers
    /\ quits < MaxQuits
    /\ quits' = quits + 1
    /\ running' = FALSE
    /\ UNCHANGED <<pc, looping, calling, active, pending, functions,
                   wakeupFd, wakers, queued, executed, early>>

\* quit() off the loop thread, up to its store.
Quit(t) ==
    /\ t \notin wakers
    /\ quits < MaxQuits
    /\ quits' = quits + 1
    /\ running' = FALSE
    /\ wakers' = wakers \cup {t}
    /\ UNCHANGED <<pc, looping, calling, active, pending, functions,
                   wakeupFd, queued, executed, early>>

\* wakeup(): the write that ends both calls.
Wakeup(t) ==
    /\ t \in wakers
    /\ wakers' = wakers \ {t}
    /\ wakeupFd' = wakeupFd + 1
    /\ UNCHANGED <<loopVars, pending, quits, queued, executed, early>>

---------------------------------------------------------------------------
(* Calls of the loop thread: before and after loop(), in a channel's       *)
(* callback, and in a function that doPendingFunctions runs.               *)

InUserCode ==
    \/ pc = "idle"
    \/ pc = "handling" /\ "io" \in active
    \/ pc = "calling" /\ functions # <<>>

\* Mutant: queueInLoop does not look at callingPendingFunctions_.
QueueInLoopHereSilent(f) ==
    /\ InUserCode
    /\ f \in Fresh
    /\ pending' = Append(pending, f)
    /\ queued' = Append(queued, f)
    /\ early' = IF pc = "idle" THEN early \cup {f} ELSE early
    /\ UNCHANGED <<loopVars, wakeupFd, wakers, quits, executed>>

\* queueInLoop on the loop thread; runInLoop there calls the function at once.
QueueInLoopHere(f) ==
    /\ InUserCode
    /\ f \in Fresh
    /\ pending' = Append(pending, f)
    /\ queued' = Append(queued, f)
    /\ wakeupFd' = IF calling THEN wakeupFd + 1 ELSE wakeupFd
    /\ early' = IF pc = "idle" THEN early \cup {f} ELSE early
    /\ UNCHANGED <<loopVars, wakers, quits, executed>>

\* quit() on the loop thread: no wakeup.
QuitHere ==
    /\ InUserCode
    /\ quits < MaxQuits
    /\ quits' = quits + 1
    /\ running' = FALSE
    /\ UNCHANGED <<pc, looping, calling, active, pending, functions,
                   wakeupFd, wakers, queued, executed, early>>

---------------------------------------------------------------------------
(* loop().                                                                 *)

\* The entry of loop(): looping_ = running_ = true.
StartLoop ==
    /\ pc = "idle"
    /\ looping' = TRUE
    /\ running' = TRUE
    /\ pc' = "check"
    /\ UNCHANGED <<calling, active, pending, functions, wakeupFd, wakers,
                   quits, queued, executed, early>>

\* while (running_): go to epoll_wait, or leave loop().
CheckRunning ==
    /\ pc = "check"
    /\ pc' = IF running THEN "select" ELSE "idle"
    /\ looping' = running
    /\ UNCHANGED <<running, calling, active, pending, functions, wakeupFd,
                   wakers, quits, queued, executed, early>>

\* epoll_wait returns with the ready channels, level triggered.
SelectReturns(io) ==
    /\ pc = "select"
    /\ active' = {c \in Channels : \/ c = "wakeup" /\ wakeupFd > 0
                                   \/ c = "io" /\ io}
    /\ active' # {}
    /\ pc' = "handling"
    /\ UNCHANGED <<looping, running, calling, pending, functions, wakeupFd,
                   wakers, quits, queued, executed, early>>

\* epoll_wait returns after EPOLL_TIMEOUT, or interrupted, with no channel.
SelectTimeout ==
    /\ pc = "select"
    /\ wakeupFd = 0
    /\ pc' = "handling"
    /\ UNCHANGED <<looping, running, calling, active, pending, functions,
                   wakeupFd, wakers, quits, queued, executed, early>>

\* Mutant: the eventfd is read in every iteration, readable or not.
HandleWakeupAlways ==
    /\ pc = "handling"
    /\ active' = active \ {"wakeup"}
    /\ wakeupFd' = wakeupFd - 1
    /\ UNCHANGED <<pc, looping, running, calling, pending, functions, wakers,
                   quits, queued, executed, early>>

\* wakeupReadCallback: a semaphore read takes one.
HandleWakeup ==
    /\ pc = "handling"
    /\ "wakeup" \in active
    /\ active' = active \ {"wakeup"}
    /\ wakeupFd' = wakeupFd - 1
    /\ UNCHANGED <<pc, looping, running, calling, pending, functions, wakers,
                   quits, queued, executed, early>>

\* The callback of another channel returns.
HandleIo ==
    /\ pc = "handling"
    /\ "io" \in active
    /\ active' = active \ {"io"}
    /\ UNCHANGED <<pc, looping, running, calling, pending, functions,
                   wakeupFd, wakers, quits, queued, executed, early>>

\* Mutant: the queue is copied, and not emptied under the same lock.
SwapPendingCopy ==
    /\ pc = "handling"
    /\ active = {}
    /\ calling' = TRUE
    /\ functions' = pending
    /\ pc' = "calling"
    /\ UNCHANGED <<looping, running, active, pending, wakeupFd, wakers, quits,
                   queued, executed, early>>

\* doPendingFunctions up to its swap.  Only the loop thread reads the flag.
SwapPending ==
    /\ pc = "handling"
    /\ active = {}
    /\ calling' = TRUE
    /\ functions' = pending
    /\ pending' = <<>>
    /\ pc' = "calling"
    /\ UNCHANGED <<looping, running, active, wakeupFd, wakers, quits, queued,
                   executed, early>>

\* Mutant: the functions of a batch are not run one after the other.
FunctionReturnsTogether ==
    /\ pc = "calling"
    /\ functions # <<>>
    /\ executed' = executed \o functions
    /\ functions' = <<>>
    /\ UNCHANGED <<pc, looping, running, calling, active, pending, wakeupFd,
                   wakers, quits, queued, early>>

\* The function at the head of the batch returns.
FunctionReturns ==
    /\ pc = "calling"
    /\ functions # <<>>
    /\ executed' = Append(executed, Head(functions))
    /\ functions' = Tail(functions)
    /\ UNCHANGED <<pc, looping, running, calling, active, pending, wakeupFd,
                   wakers, quits, queued, early>>

\* doPendingFunctions returns.
EndPending ==
    /\ pc = "calling"
    /\ functions = <<>>
    /\ calling' = FALSE
    /\ pc' = "check"
    /\ UNCHANGED <<looping, running, active, pending, functions, wakeupFd,
                   wakers, quits, queued, executed, early>>

---------------------------------------------------------------------------
\* What the loop thread does inside loop() without the help of a timeout.
LoopStep ==
    \/ CheckRunning
    \/ \E io \in BOOLEAN : SelectReturns(io)
    \/ HandleWakeup
    \/ HandleIo
    \/ SwapPending
    \/ FunctionReturns
    \/ EndPending

UserStep ==
    \/ \E f \in Functions : QueueInLoopHere(f)
    \/ QuitHere

ThreadStep(t) ==
    \/ \E f \in Functions : QueueInLoop(t, f)
    \/ Quit(t)
    \/ Wakeup(t)

Next ==
    \/ StartLoop
    \/ LoopStep
    \/ SelectTimeout
    \/ UserStep
    \/ \E t \in Threads : ThreadStep(t)

Spec == Init /\ [][Next]_vars

(***************************************************************************)
(* Fairness.  A callback and a queued function return, the loop thread     *)
(* keeps running, epoll_wait returns when the eventfd is readable, and a   *)
(* thread that has stored reaches its write.  Nothing is assumed of the    *)
(* five second timeout nor of other channels becoming ready, so that what  *)
(* follows is due to wakeup() alone.                                       *)
(***************************************************************************)
Fairness ==
    /\ WF_vars(CheckRunning)
    /\ WF_vars(wakeupFd > 0 /\ \E io \in BOOLEAN : SelectReturns(io))
    /\ WF_vars(HandleWakeup)
    /\ WF_vars(HandleIo)
    /\ WF_vars(SwapPending)
    /\ WF_vars(FunctionReturns)
    /\ WF_vars(EndPending)
    /\ \A t \in Threads : WF_vars(Wakeup(t))

FairSpec == Spec /\ Fairness

---------------------------------------------------------------------------
(* Properties.                                                             *)

(***************************************************************************)
(* Types of the variables, and the bound on the calls of quit().           *)
(***************************************************************************)
TypeOK ==
    /\ pc \in LoopPc
    /\ looping \in BOOLEAN /\ running \in BOOLEAN /\ calling \in BOOLEAN
    /\ active \subseteq Channels
    /\ pending \in Seq(Functions)
    /\ functions \in Seq(Functions)
    /\ queued \in Seq(Functions)
    /\ executed \in Seq(Functions)
    /\ wakeupFd \in Nat
    /\ wakers \subseteq Threads
    /\ quits \in 0..MaxQuits
    /\ early \subseteq Functions

(***************************************************************************)
(* The swap of doPendingFunctions loses, duplicates and reorders nothing:  *)
(* at every moment the functions that ran, the batch in progress and the   *)
(* queue are together what was emplaced, in that order.                    *)
(***************************************************************************)
QueueOrder == executed \o functions \o pending = queued

\* A write to the eventfd has happened or is about to happen.
Signalled == wakeupFd > 0 \/ wakers # {}

(***************************************************************************)
(* No wakeup of queueInLoop is lost: while the loop thread is blocked in   *)
(* epoll_wait, a function that waits in pendingFunctions_ has the eventfd  *)
(* readable or its thread about to write to it (unless the loop thread     *)
(* queued it outside loop(), where no wakeup is written).                  *)
(***************************************************************************)
NoLostWakeup ==
    pc = "select" /\ (\E i \in 1..Len(pending) : pending[i] \notin early)
        => Signalled

(***************************************************************************)
(* No quit() is missed: the loop thread is never blocked in epoll_wait     *)
(* with running_ cleared and nobody waking it up.                          *)
(***************************************************************************)
QuitNotMissed == pc = "select" /\ ~running => Signalled

(***************************************************************************)
(* A function that another thread queued, or the loop thread from inside   *)
(* loop(), runs while the loop keeps running: without any timeout, it is   *)
(* executed or the loop is left.                                           *)
(***************************************************************************)
QueuedRunsOrLoopEnds ==
    \A f \in Functions :
        (looping /\ f \in SeqRange(pending) \ early)
            ~> (f \in SeqRange(executed) \/ ~looping)

(***************************************************************************)
(* EventLoop implements a serial executor: the functions that have not     *)
(* returned are the batch in progress followed by the queue.               *)
(***************************************************************************)
Executor == INSTANCE SerialExecutor
                WITH todo <- functions \o pending, done <- executed

\* Queueing, swapping and running a batch are steps or stutters of Executor.
ImplementsExecutor == Executor!Spec

=============================================================================
