-------------------------- MODULE EventLoopThread --------------------------
(***************************************************************************)
(* stnl::EventLoopThread and stnl::Thread: a thread that owns an EventLoop *)
(* on its stack, from the constructor of its owner to the destructor.      *)
(* Composed with EventLoop: the child thread is its loop thread, the owner *)
(* one of its Threads.                                                     *)
(***************************************************************************)
EXTENDS EventLoop

CONSTANTS
    Owner,          \* the thread that starts and destroys the EventLoopThread
    UserQuits,      \* BOOLEAN: somebody else calls quit() on the loop too
    Patient         \* BOOLEAN: the owner destroys it only once it has looped

ASSUME EventLoopThreadAssumption ==
    Owner \in Threads /\ UserQuits \in BOOLEAN /\ Patient \in BOOLEAN

VARIABLES
    owner,          \* where the owner is
    child,          \* where the child thread is
    loopPtr,        \* loop_ is not null
    everLooped      \* history: loop() was entered

threadVars == <<owner, child, loopPtr, everLooped>>
allVars == <<vars, threadVars>>

(***************************************************************************)
(* Owner: "new"; in Thread::start "created" (before it locks) and          *)
(* "waiting" (in cv_.wait); in startLoop "await"; "using" the loop; in the *)
(* destructor "quitting" (loop_ was not null) and "joining"; "done".       *)
(***************************************************************************)
OwnerPc == {"new", "created", "waiting", "await", "using", "quitting",
            "joining", "done"}

(***************************************************************************)
(* Child: "none"; in threadFuncWarper "begun" and "tidSet"; in threadFunc  *)
(* "called", "published" (loop_ is set), "looping", "cleared" (loop_ is    *)
(* null again); "ended".                                                   *)
(***************************************************************************)
ChildPc == {"none", "begun", "tidSet", "called", "published", "looping",
            "cleared", "ended"}

InitThread ==
    /\ Init
    /\ owner = "new"
    /\ child = "none"
    /\ loopPtr = FALSE
    /\ everLooped = FALSE

---------------------------------------------------------------------------
(* The owner.                                                              *)

\* Thread::start up to the construction of the std::thread.
OwnerCreates ==
    /\ owner = "new"
    /\ owner' = "created"
    /\ child' = "begun"
    /\ UNCHANGED <<vars, loopPtr, everLooped>>

\* Thread::start locks and waits, without a predicate.
OwnerWaits ==
    /\ owner = "created"
    /\ owner' = "waiting"
    /\ UNCHANGED <<vars, child, loopPtr, everLooped>>

\* A condition variable may wake up for no reason.
SpuriousWakeup ==
    /\ owner = "waiting"
    /\ owner' = "await"
    /\ UNCHANGED <<vars, child, loopPtr, everLooped>>

\* Mutant: startLoop does not wait for loop_.
OwnerGetsLoopAtOnce ==
    /\ owner = "await"
    /\ owner' = "using"
    /\ UNCHANGED <<vars, child, loopPtr, everLooped>>

\* startLoop waits for loop_ != nullptr and returns it.
OwnerGetsLoop ==
    /\ owner = "await"
    /\ loopPtr
    /\ owner' = "using"
    /\ UNCHANGED <<vars, child, loopPtr, everLooped>>

\* The owner hands functions to the loop that startLoop returned.
OwnerUses ==
    /\ owner = "using"
    /\ \E f \in Functions : QueueInLoop(Owner, f)
    /\ UNCHANGED threadVars

\* ~EventLoopThread: the test of loop_.
OwnerDestroys ==
    /\ owner = "using" /\ Owner \notin wakers
    /\ Patient => everLooped
    /\ owner' = IF loopPtr THEN "quitting" ELSE "done"
    /\ UNCHANGED <<vars, child, loopPtr, everLooped>>

\* Mutant: the destructor joins without quit().
OwnerJoinsOnly ==
    /\ owner = "quitting"
    /\ owner' = "joining"
    /\ UNCHANGED <<vars, child, loopPtr, everLooped>>

\* ~EventLoopThread: loop_->quit() on a loop that exists, up to the wakeup.
OwnerQuits ==
    /\ owner = "quitting"
    /\ child # "ended"
    /\ Quit(Owner)
    /\ owner' = "joining"
    /\ UNCHANGED <<child, loopPtr, everLooped>>

\* thread_.join() returns.
OwnerJoins ==
    /\ owner = "joining" /\ Owner \notin wakers
    /\ child = "ended"
    /\ owner' = "done"
    /\ UNCHANGED <<vars, child, loopPtr, everLooped>>

---------------------------------------------------------------------------
(* The child.                                                              *)

\* threadFuncWarper locks, sets tid_ and unlocks.
ChildSetsTid ==
    /\ child = "begun"
    /\ child' = "tidSet"
    /\ UNCHANGED <<vars, owner, loopPtr, everLooped>>

\* threadFuncWarper notifies the owner, if it waits by now.
ChildNotifies ==
    /\ child = "tidSet"
    /\ owner' = IF owner = "waiting" THEN "await" ELSE owner
    /\ child' = "called"
    /\ UNCHANGED <<vars, loopPtr, everLooped>>

\* threadFunc constructs the loop and publishes it in loop_.
ChildPublishes ==
    /\ child = "called"
    /\ loopPtr' = TRUE
    /\ child' = "published"
    /\ UNCHANGED <<vars, owner, everLooped>>

ChildLoops ==
    /\ child = "published"
    /\ StartLoop
    /\ child' = "looping"
    /\ everLooped' = TRUE
    /\ UNCHANGED <<owner, loopPtr>>

\* What happens inside loop().
ChildInLoop ==
    /\ child = "looping"
    /\ LoopStep \/ SelectTimeout
    /\ UNCHANGED threadVars

\* loop() has returned: loop_ = nullptr.
ChildClears ==
    /\ child = "looping" /\ ~looping
    /\ loopPtr' = FALSE
    /\ child' = "cleared"
    /\ UNCHANGED <<vars, owner, everLooped>>

\* threadFunc returns and destroys its EventLoop.
ChildEnds ==
    /\ child = "cleared"
    /\ child' = "ended"
    /\ UNCHANGED <<vars, owner, loopPtr, everLooped>>

---------------------------------------------------------------------------
(***************************************************************************)
(* Whoever got the loop from startLoop calls quit() on it while it exists. *)
(* Bound: one quit() is left for the destructor.                           *)
(***************************************************************************)
UserCallsQuit ==
    /\ UserQuits
    /\ owner \in {"using", "quitting", "joining"}
    /\ child # "ended"
    /\ quits + 1 < MaxQuits
    /\ \E t \in Threads : (t = Owner => owner = "using") /\ Quit(t)
    /\ UNCHANGED threadVars

CallerWakes ==
    /\ \E t \in Threads : Wakeup(t)
    /\ UNCHANGED threadVars

OwnerStep ==
    \/ OwnerCreates \/ OwnerWaits \/ OwnerGetsLoop \/ OwnerQuits \/ OwnerJoins

ChildStep ==
    \/ ChildSetsTid \/ ChildNotifies \/ ChildPublishes \/ ChildLoops
    \/ ChildClears \/ ChildEnds

NextThread ==
    \/ OwnerStep
    \/ ChildStep
    \/ SpuriousWakeup
    \/ OwnerUses
    \/ OwnerDestroys
    \/ ChildInLoop
    \/ UserCallsQuit
    \/ CallerWakes

SpecThread == InitThread /\ [][NextThread]_allVars

(***************************************************************************)
(* Fairness: both threads run, callers finish their calls, the loop works  *)
(* as in EventLoop, its epoll_wait timing out included (EPOLL_TIMEOUT is   *)
(* five seconds).  No spurious wakeup is owed to anybody.                  *)
(***************************************************************************)
FairThread ==
    /\ WF_allVars(OwnerStep)
    /\ WF_allVars(ChildStep)
    /\ WF_allVars(ChildInLoop)
    /\ WF_allVars(CallerWakes)

FairSpecThread == SpecThread /\ FairThread

---------------------------------------------------------------------------
(* Properties.                                                             *)

(***************************************************************************)
(* Types of the variables.                                                 *)
(***************************************************************************)
TypeOKThread ==
    /\ TypeOK
    /\ owner \in OwnerPc /\ child \in ChildPc
    /\ loopPtr \in BOOLEAN /\ everLooped \in BOOLEAN

(***************************************************************************)
(* The loop that startLoop returned exists as long as nobody has called    *)
(* quit(): no call of the owner is on a destroyed EventLoop, the loop does *)
(* not stop by itself, and the destructor finds loop_ to be quit.          *)
(***************************************************************************)
LoopOutlivesUse ==
    /\ TypeOKThread
    /\ owner \in {"using", "quitting"} /\ quits = 0 =>
          child \in {"published", "looping"} /\ loopPtr

(***************************************************************************)
(* After quit() the join of the loop's thread returns.                     *)
(***************************************************************************)
JoinReturns == owner = "joining" ~> owner = "done"

(***************************************************************************)
(* Thread::start synchronises with the new thread like a CountDownLatch:   *)
(* it returns once the thread runs.                                        *)
(***************************************************************************)
StartReturns == owner = "created" ~> owner = "await"

=============================================================================
