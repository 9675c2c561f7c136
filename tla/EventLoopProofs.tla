-------------------------- MODULE EventLoopProofs --------------------------
(***************************************************************************)
(* Proofs that EventLoop keeps its type, the order of its queue and its    *)
(* wakeups, that it implements SerialExecutor, and that EventLoopThread    *)
(* runs an EventLoop that outlives its use, for any threads, any functions *)
(* and any number of calls of quit().                                      *)
(***************************************************************************)
EXTENDS EventLoopThread, SequenceTheorems, TLAPS

\* The loop thread's flags and locals follow its program counter.
LocalsExact ==
    /\ looping <=> pc # "idle"
    /\ calling <=> pc = "calling"
    /\ pc # "handling" => active = {}
    /\ pc # "calling" => functions = <<>>

\* Only the loop thread reads the eventfd, so what made it active is there.
WakeupReadable == "wakeup" \in active => wakeupFd > 0

(***************************************************************************)
(* NoLostWakeup is not inductive: it must hold wherever the loop thread    *)
(* can reach epoll_wait from without a swap in between.                    *)
(***************************************************************************)
PendingSignalled ==
    pc # "handling" /\ (\E i \in 1..Len(pending) : pending[i] \notin early)
        => Signalled

IInv ==
    /\ TypeOK
    /\ LocalsExact
    /\ WakeupReadable
    /\ QueueOrder
    /\ PendingSignalled
    /\ QuitNotMissed

---------------------------------------------------------------------------
\* What queueInLoop emplaces is at the back of the whole order.
LEMMA EmplaceKeepsOrder ==
    ASSUME NEW S, NEW e \in Seq(S), NEW b \in Seq(S), NEW p \in Seq(S),
           NEW f \in S
    PROVE  e \o b \o Append(p, f) = Append(e \o b \o p, f)
<1>1. /\ e \o b \in Seq(S)
      /\ e \o b \o p \in Seq(S)
      /\ <<f>> \in Seq(S)
  BY ConcatProperties
<1>2. Append(p, f) = p \o <<f>> /\ Append(e \o b \o p, f) = (e \o b \o p) \o <<f>>
  BY <1>1, AppendIsConcat
<1>3. (e \o b) \o (p \o <<f>>) = ((e \o b) \o p) \o <<f>>
  BY <1>1, ConcatAssociative
<1> QED BY <1>2, <1>3

\* The same of the queue in a state of the loop.
LEMMA EmplacedLast ==
    ASSUME TypeOK, NEW f \in Functions
    PROVE  executed \o functions \o Append(pending, f)
           = Append(executed \o functions \o pending, f)
<1>1. /\ executed \in Seq(Functions)
      /\ functions \in Seq(Functions)
      /\ pending \in Seq(Functions)
  BY DEF TypeOK
<1> QED BY <1>1, EmplaceKeepsOrder

\* A function that returns moves from the batch to the executed ones.
LEMMA ReturnKeepsOrder ==
    ASSUME NEW S, NEW e \in Seq(S), NEW b \in Seq(S), b # <<>>
    PROVE  Append(e, Head(b)) \o Tail(b) = e \o b
<1>1. Head(b) \in S /\ Tail(b) \in Seq(S) /\ <<Head(b)>> \in Seq(S)
  BY HeadTailProperties
<1>2. Append(e, Head(b)) = e \o <<Head(b)>>
  BY <1>1, AppendIsConcat
<1>3. (e \o <<Head(b)>>) \o Tail(b) = e \o (<<Head(b)>> \o Tail(b))
  BY <1>1, ConcatAssociative
<1>4. <<Head(b)>> \o Tail(b) = b
  BY <1>1, SMT
<1> QED BY <1>2, <1>3, <1>4

---------------------------------------------------------------------------
\* The constructor of EventLoop establishes the inductive invariant.
LEMMA InitIInv == Init => IInv
<1> SUFFICES ASSUME Init PROVE IInv
  OBVIOUS
<1>1. <<>> \in Seq(Functions) /\ <<>> \o <<>> \o <<>> = <<>>
  BY EmptySeq, ConcatEmptySeq
<1>2. TypeOK
  <2>1. looping \in BOOLEAN /\ running \in BOOLEAN /\ calling \in BOOLEAN
    BY Zenon DEF Init
  <2>2. 0 \in 0..MaxQuits /\ 0 \in Nat
    BY MaxQuitsAssumption
  <2> QED
    BY <1>1, <2>1, <2>2, Zenon DEF Init, TypeOK, LoopPc, Channels
<1>3. QueueOrder
  BY <1>1 DEF Init, QueueOrder
<1>4. PendingSignalled
  <2>1. Len(pending) = 0
    BY EmptySeq DEF Init
  <2> QED BY <2>1 DEF PendingSignalled
<1>5. LocalsExact /\ WakeupReadable /\ QuitNotMissed
  BY DEF Init, LocalsExact, WakeupReadable, QuitNotMissed
<1> QED
  BY <1>2, <1>3, <1>4, <1>5 DEF IInv

\* Every step of the loop and of its callers keeps the types.
LEMMA NextTypeOK == IInv /\ [Next]_vars => TypeOK'
<1> SUFFICES ASSUME IInv, [Next]_vars PROVE TypeOK'
  OBVIOUS
<1> USE MaxQuitsAssumption DEF IInv, TypeOK, LoopPc, Channels, loopVars
<1>1. ASSUME NEW t \in Threads, NEW f \in Functions, QueueInLoop(t, f)
      PROVE  TypeOK'
  BY <1>1 DEF QueueInLoop
<1>2. ASSUME NEW t \in Threads, Quit(t) PROVE TypeOK'
  <2>1. running' \in BOOLEAN
    BY <1>2, Zenon DEF Quit
  <2>2. quits' \in 0..MaxQuits
    BY <1>2 DEF Quit
  <2> QED BY <1>2, <2>1, <2>2, Zenon DEF Quit
<1>3. ASSUME NEW t \in Threads, Wakeup(t) PROVE TypeOK'
  BY <1>3 DEF Wakeup
<1>4. ASSUME NEW f \in Functions, QueueInLoopHere(f) PROVE TypeOK'
  BY <1>4 DEF QueueInLoopHere
<1>5. CASE QuitHere
  <2>1. running' \in BOOLEAN
    BY <1>5, Zenon DEF QuitHere
  <2>2. quits' \in 0..MaxQuits
    BY <1>5 DEF QuitHere
  <2> QED BY <1>5, <2>1, <2>2, Zenon DEF QuitHere
<1>6. CASE StartLoop
  BY <1>6 DEF StartLoop
<1>7. CASE CheckRunning
  BY <1>7 DEF CheckRunning
<1>8. ASSUME NEW io \in BOOLEAN, SelectReturns(io) PROVE TypeOK'
  BY <1>8 DEF SelectReturns
<1>9. CASE SelectTimeout
  BY <1>9 DEF SelectTimeout
<1>10. CASE HandleWakeup
  BY <1>10 DEF HandleWakeup, WakeupReadable
<1>11. CASE HandleIo
  BY <1>11 DEF HandleIo
<1>12. CASE SwapPending
  <2>1. <<>> \in Seq(Functions)
    BY EmptySeq
  <2> QED BY <1>12, <2>1 DEF SwapPending
<1>13. CASE FunctionReturns
  <2>1. Head(functions) \in Functions /\ Tail(functions) \in Seq(Functions)
    BY <1>13, HeadTailProperties DEF FunctionReturns
  <2> QED BY <1>13, <2>1 DEF FunctionReturns
<1>14. CASE EndPending
  BY <1>14 DEF EndPending
<1>15. CASE UNCHANGED vars
  BY <1>15 DEF vars
<1> QED
  BY <1>1, <1>2, <1>3, <1>4, <1>5, <1>6, <1>7, <1>8, <1>9, <1>10, <1>11,
     <1>12, <1>13, <1>14, <1>15 DEF Next, LoopStep, UserStep, ThreadStep

\* The flags and locals follow the program counter in every step.
LEMMA NextLocalsExact == IInv /\ [Next]_vars => LocalsExact'
<1> SUFFICES ASSUME IInv, [Next]_vars PROVE LocalsExact'
  OBVIOUS
<1> USE DEF IInv, LocalsExact, TypeOK, loopVars
<1>1. ASSUME NEW t \in Threads, NEW f \in Functions, QueueInLoop(t, f)
      PROVE  LocalsExact'
  BY <1>1 DEF QueueInLoop
<1>2. ASSUME NEW t \in Threads, Quit(t)
      PROVE  LocalsExact'
  BY <1>2 DEF Quit
<1>3. ASSUME NEW t \in Threads, Wakeup(t)
      PROVE  LocalsExact'
  BY <1>3 DEF Wakeup
<1>4. ASSUME NEW f \in Functions, QueueInLoopHere(f)
      PROVE  LocalsExact'
  BY <1>4 DEF QueueInLoopHere
<1>5. CASE QuitHere
  BY <1>5 DEF QuitHere
<1>6. CASE StartLoop
  BY <1>6 DEF StartLoop
<1>7. CASE CheckRunning
  BY <1>7 DEF CheckRunning
<1>8. ASSUME NEW io \in BOOLEAN, SelectReturns(io)
      PROVE  LocalsExact'
  BY <1>8 DEF SelectReturns
<1>9. CASE SelectTimeout
  BY <1>9 DEF SelectTimeout
<1>10. CASE HandleWakeup
  BY <1>10 DEF HandleWakeup
<1>11. CASE HandleIo
  BY <1>11 DEF HandleIo
<1>12. CASE SwapPending
  BY <1>12 DEF SwapPending
<1>13. CASE FunctionReturns
  BY <1>13 DEF FunctionReturns
<1>14. CASE EndPending
  BY <1>14 DEF EndPending
<1>15. CASE UNCHANGED vars
  BY <1>15 DEF vars
<1> QED
  BY <1>1, <1>2, <1>3, <1>4, <1>5, <1>6, <1>7, <1>8,
     <1>9, <1>10, <1>11, <1>12, <1>13, <1>14, <1>15
  DEF Next, LoopStep, UserStep, ThreadStep

\* Other threads only increase the eventfd, the loop thread reads it once.
LEMMA NextWakeupReadable == IInv /\ [Next]_vars => WakeupReadable'
<1> SUFFICES ASSUME IInv, [Next]_vars PROVE WakeupReadable'
  OBVIOUS
<1> USE DEF IInv, LocalsExact, WakeupReadable, TypeOK, Channels, loopVars
<1>1. ASSUME NEW t \in Threads, NEW f \in Functions, QueueInLoop(t, f)
      PROVE  WakeupReadable'
  BY <1>1 DEF QueueInLoop
<1>2. ASSUME NEW t \in Threads, Quit(t)
      PROVE  WakeupReadable'
  BY <1>2 DEF Quit
<1>3. ASSUME NEW t \in Threads, Wakeup(t)
      PROVE  WakeupReadable'
  BY <1>3 DEF Wakeup
<1>4. ASSUME NEW f \in Functions, QueueInLoopHere(f)
      PROVE  WakeupReadable'
  BY <1>4 DEF QueueInLoopHere
<1>5. CASE QuitHere
  BY <1>5 DEF QuitHere
<1>6. CASE StartLoop
  BY <1>6 DEF StartLoop
<1>7. CASE CheckRunning
  BY <1>7 DEF CheckRunning
<1>8. ASSUME NEW io \in BOOLEAN, SelectReturns(io)
      PROVE  WakeupReadable'
  BY <1>8 DEF SelectReturns
<1>9. CASE SelectTimeout
  BY <1>9 DEF SelectTimeout
<1>10. CASE HandleWakeup
  BY <1>10 DEF HandleWakeup
<1>11. CASE HandleIo
  BY <1>11 DEF HandleIo
<1>12. CASE SwapPending
  BY <1>12 DEF SwapPending
<1>13. CASE FunctionReturns
  BY <1>13 DEF FunctionReturns
<1>14. CASE EndPending
  BY <1>14 DEF EndPending
<1>15. CASE UNCHANGED vars
  BY <1>15 DEF vars
<1> QED
  BY <1>1, <1>2, <1>3, <1>4, <1>5, <1>6, <1>7, <1>8,
     <1>9, <1>10, <1>11, <1>12, <1>13, <1>14, <1>15
  DEF Next, LoopStep, UserStep, ThreadStep

\* Whoever clears running_ under the blocked loop thread is about to wake it.
LEMMA NextQuitNotMissed == IInv /\ [Next]_vars => QuitNotMissed'
<1> SUFFICES ASSUME IInv, [Next]_vars PROVE QuitNotMissed'
  OBVIOUS
<1> USE DEF IInv, LocalsExact, QuitNotMissed, Signalled, TypeOK, loopVars
<1>1. ASSUME NEW t \in Threads, NEW f \in Functions, QueueInLoop(t, f)
      PROVE  QuitNotMissed'
  BY <1>1 DEF QueueInLoop
<1>2. ASSUME NEW t \in Threads, Quit(t)
      PROVE  QuitNotMissed'
  BY <1>2 DEF Quit
<1>3. ASSUME NEW t \in Threads, Wakeup(t)
      PROVE  QuitNotMissed'
  BY <1>3 DEF Wakeup
<1>4. ASSUME NEW f \in Functions, QueueInLoopHere(f)
      PROVE  QuitNotMissed'
  BY <1>4 DEF QueueInLoopHere
<1>5. CASE QuitHere
  BY <1>5 DEF QuitHere, InUserCode
<1>6. CASE StartLoop
  BY <1>6 DEF StartLoop
<1>7. CASE CheckRunning
  BY <1>7 DEF CheckRunning
<1>8. ASSUME NEW io \in BOOLEAN, SelectReturns(io)
      PROVE  QuitNotMissed'
  BY <1>8 DEF SelectReturns
<1>9. CASE SelectTimeout
  BY <1>9 DEF SelectTimeout
<1>10. CASE HandleWakeup
  BY <1>10 DEF HandleWakeup
<1>11. CASE HandleIo
  BY <1>11 DEF HandleIo
<1>12. CASE SwapPending
  BY <1>12 DEF SwapPending
<1>13. CASE FunctionReturns
  BY <1>13 DEF FunctionReturns
<1>14. CASE EndPending
  BY <1>14 DEF EndPending
<1>15. CASE UNCHANGED vars
  BY <1>15 DEF vars
<1> QED
  BY <1>1, <1>2, <1>3, <1>4, <1>5, <1>6, <1>7, <1>8,
     <1>9, <1>10, <1>11, <1>12, <1>13, <1>14, <1>15
  DEF Next, LoopStep, UserStep, ThreadStep

\* Every step moves functions along the order and none out of it.
LEMMA NextQueueOrder == IInv /\ [Next]_vars => QueueOrder'
<1> SUFFICES ASSUME IInv, [Next]_vars PROVE QueueOrder'
  OBVIOUS
<1> USE DEF IInv, QueueOrder, loopVars
<1>1. ASSUME NEW t \in Threads, NEW f \in Functions, QueueInLoop(t, f)
      PROVE  QueueOrder'
  <2>1. executed \o functions \o Append(pending, f)
          = Append(executed \o functions \o pending, f)
    BY EmplacedLast
  <2> QED BY <1>1, <2>1 DEF QueueInLoop
<1>2. ASSUME NEW t \in Threads, Quit(t)
      PROVE  QueueOrder'
  BY <1>2 DEF Quit
<1>3. ASSUME NEW t \in Threads, Wakeup(t)
      PROVE  QueueOrder'
  BY <1>3 DEF Wakeup
<1>4. ASSUME NEW f \in Functions, QueueInLoopHere(f)
      PROVE  QueueOrder'
  <2>1. executed \o functions \o Append(pending, f)
          = Append(executed \o functions \o pending, f)
    BY EmplacedLast
  <2> QED BY <1>4, <2>1 DEF QueueInLoopHere
<1>5. CASE QuitHere
  BY <1>5 DEF QuitHere
<1>6. CASE StartLoop
  BY <1>6 DEF StartLoop
<1>7. CASE CheckRunning
  BY <1>7 DEF CheckRunning
<1>8. ASSUME NEW io \in BOOLEAN, SelectReturns(io)
      PROVE  QueueOrder'
  BY <1>8 DEF SelectReturns
<1>9. CASE SelectTimeout
  BY <1>9 DEF SelectTimeout
<1>10. CASE HandleWakeup
  BY <1>10 DEF HandleWakeup
<1>11. CASE HandleIo
  BY <1>11 DEF HandleIo
<1>12. CASE SwapPending
  <2>1. functions = <<>>
    BY <1>12 DEF SwapPending, LocalsExact
  <2>2. executed \o <<>> \o pending = executed \o pending \o <<>>
    BY ConcatEmptySeq, ConcatProperties DEF TypeOK
  <2> QED BY <1>12, <2>1, <2>2 DEF SwapPending
<1>13. CASE FunctionReturns
  <2>1. executed' \o functions' = executed \o functions
    BY <1>13, ReturnKeepsOrder DEF FunctionReturns, TypeOK
  <2> QED BY <1>13, <2>1 DEF FunctionReturns
<1>14. CASE EndPending
  BY <1>14 DEF EndPending
<1>15. CASE UNCHANGED vars
  BY <1>15 DEF vars
<1> QED
  BY <1>1, <1>2, <1>3, <1>4, <1>5, <1>6, <1>7, <1>8,
     <1>9, <1>10, <1>11, <1>12, <1>13, <1>14, <1>15
  DEF Next, LoopStep, UserStep, ThreadStep

\* A function enters the queue with a signal, or before a swap that empties it.
LEMMA NextPendingSignalled == IInv /\ [Next]_vars => PendingSignalled'
<1> SUFFICES ASSUME IInv, [Next]_vars PROVE PendingSignalled'
  OBVIOUS
<1> USE DEF IInv, LocalsExact, PendingSignalled, Signalled, TypeOK, loopVars
<1>1. ASSUME NEW t \in Threads, NEW f \in Functions, QueueInLoop(t, f)
      PROVE  PendingSignalled'
  BY <1>1 DEF QueueInLoop
<1>2. ASSUME NEW t \in Threads, Quit(t)
      PROVE  PendingSignalled'
  BY <1>2 DEF Quit
<1>3. ASSUME NEW t \in Threads, Wakeup(t)
      PROVE  PendingSignalled'
  BY <1>3 DEF Wakeup
<1>4. ASSUME NEW f \in Functions, QueueInLoopHere(f)
      PROVE  PendingSignalled'
  <2>1. CASE pc = "idle"
    BY <1>4, <2>1 DEF QueueInLoopHere
  <2>2. CASE pc = "calling"
    BY <1>4, <2>2 DEF QueueInLoopHere
  <2>3. CASE pc = "handling"
    BY <1>4, <2>3 DEF QueueInLoopHere
  <2> QED BY <1>4, <2>1, <2>2, <2>3 DEF QueueInLoopHere, InUserCode
<1>5. CASE QuitHere
  BY <1>5 DEF QuitHere
<1>6. CASE StartLoop
  BY <1>6 DEF StartLoop
<1>7. CASE CheckRunning
  BY <1>7 DEF CheckRunning
<1>8. ASSUME NEW io \in BOOLEAN, SelectReturns(io)
      PROVE  PendingSignalled'
  BY <1>8 DEF SelectReturns
<1>9. CASE SelectTimeout
  BY <1>9 DEF SelectTimeout
<1>10. CASE HandleWakeup
  BY <1>10 DEF HandleWakeup
<1>11. CASE HandleIo
  BY <1>11 DEF HandleIo
<1>12. CASE SwapPending
  BY <1>12 DEF SwapPending
<1>13. CASE FunctionReturns
  BY <1>13 DEF FunctionReturns
<1>14. CASE EndPending
  BY <1>14 DEF EndPending
<1>15. CASE UNCHANGED vars
  BY <1>15 DEF vars
<1> QED
  BY <1>1, <1>2, <1>3, <1>4, <1>5, <1>6, <1>7, <1>8,
     <1>9, <1>10, <1>11, <1>12, <1>13, <1>14, <1>15
  DEF Next, LoopStep, UserStep, ThreadStep

---------------------------------------------------------------------------
\* The conjuncts together: every step keeps the inductive invariant.
LEMMA NextIInv == IInv /\ [Next]_vars => IInv'
  BY NextTypeOK, NextLocalsExact, NextWakeupReadable, NextQueueOrder,
     NextPendingSignalled, NextQuitNotMissed DEF IInv

(***************************************************************************)
(* The inductive invariant holds throughout every run of the loop and its  *)
(* callers.                                                                *)
(***************************************************************************)
THEOREM Invariance == Spec => []IInv
  BY InitIInv, NextIInv, PTL DEF Spec

(***************************************************************************)
(* The loop keeps the types of its state; the eventfd is never read below  *)
(* zero.                                                                   *)
(***************************************************************************)
THEOREM TypeCorrect == Spec => []TypeOK
<1>1. IInv => TypeOK
  BY DEF IInv
<1> QED BY <1>1, Invariance, PTL

(***************************************************************************)
(* Functions run in the order they were queued, none twice, none lost      *)
(* between pendingFunctions_ and the batch of doPendingFunctions.          *)
(***************************************************************************)
THEOREM OrderKept == Spec => []QueueOrder
<1>1. IInv => QueueOrder
  BY DEF IInv
<1> QED BY <1>1, Invariance, PTL

(***************************************************************************)
(* A loop thread blocked in epoll_wait with a function to run is being     *)
(* woken up.                                                               *)
(***************************************************************************)
THEOREM WakeupNotLost == Spec => []NoLostWakeup
<1>1. IInv => NoLostWakeup
  BY DEF IInv, PendingSignalled, NoLostWakeup
<1> QED BY <1>1, Invariance, PTL

(***************************************************************************)
(* A loop thread blocked in epoll_wait after a quit() is being woken up.   *)
(***************************************************************************)
THEOREM QuitSeen == Spec => []QuitNotMissed
<1>1. IInv => QuitNotMissed
  BY DEF IInv
<1> QED BY <1>1, Invariance, PTL

---------------------------------------------------------------------------
\* A new loop is a new executor.
LEMMA ExecutorInit == Init => Executor!Init
  BY ConcatEmptySeq, EmptySeq DEF Init, Executor!Init

\* What is emplaced comes last in what the executor has to do.
LEMMA EmplaceIsSubmit ==
    ASSUME TypeOK, NEW f \in Functions,
           pending' = Append(pending, f), UNCHANGED <<functions, executed>>
    PROVE  Executor!Submit(f)
<1>1. functions \in Seq(Functions) /\ pending \in Seq(Functions)
  BY DEF TypeOK
<1>2. functions \o Append(pending, f) = Append(functions \o pending, f)
  BY <1>1, AppendIsConcat, ConcatAssociative, ConcatProperties
<1> QED BY <1>2 DEF Executor!Submit

\* A function that returns was the first that the executor had to do.
LEMMA ReturnIsPerform ==
    ASSUME TypeOK, FunctionReturns PROVE Executor!Perform
<1>1. /\ functions \in Seq(Functions) /\ functions # <<>>
      /\ pending \in Seq(Functions)
  BY DEF TypeOK, FunctionReturns
<1>2. /\ functions \o pending # <<>>
      /\ Head(functions \o pending) = Head(functions)
      /\ Tail(functions \o pending) = Tail(functions) \o pending
  BY <1>1
<1> QED BY <1>2 DEF FunctionReturns, Executor!Perform

\* Every step of the loop is a step of the executor, or none.
LEMMA ExecutorStep == IInv /\ [Next]_vars => [Executor!Next]_(Executor!vars)
<1> SUFFICES ASSUME IInv, [Next]_vars
             PROVE  [Executor!Next]_(Executor!vars)
  OBVIOUS
<1> USE DEF IInv, loopVars
<1>1. ASSUME NEW t \in Threads, NEW f \in Functions, QueueInLoop(t, f)
      PROVE  Executor!Next
  BY <1>1, EmplaceIsSubmit DEF QueueInLoop, Executor!Next
<1>2. ASSUME NEW f \in Functions, QueueInLoopHere(f)
      PROVE  Executor!Next
  BY <1>2, EmplaceIsSubmit DEF QueueInLoopHere, Executor!Next
<1>3. CASE FunctionReturns
  BY <1>3, ReturnIsPerform DEF Executor!Next
<1>4. CASE SwapPending
  <2>1. functions = <<>> /\ pending \in Seq(Functions)
    BY <1>4 DEF SwapPending, LocalsExact, TypeOK
  <2>2. <<>> \o pending = pending \o <<>>
    BY <2>1, ConcatEmptySeq
  <2> QED BY <1>4, <2>1, <2>2 DEF SwapPending, Executor!vars
<1>5. ASSUME UNCHANGED <<functions, pending, executed>>
      PROVE  UNCHANGED Executor!vars
  BY <1>5 DEF Executor!vars
<1> QED
  BY <1>1, <1>2, <1>3, <1>4, <1>5
  DEF Next, LoopStep, UserStep, ThreadStep, Quit, Wakeup, QuitHere, StartLoop,
      CheckRunning, SelectReturns, SelectTimeout, HandleWakeup, HandleIo,
      EndPending, vars

(***************************************************************************)
(* The loop with its queue, batch and eventfd implements a serial          *)
(* executor.                                                               *)
(***************************************************************************)
THEOREM Refinement == Spec => ImplementsExecutor
  BY ExecutorInit, ExecutorStep, Invariance, PTL
  DEF Spec, ImplementsExecutor, Executor!Spec

---------------------------------------------------------------------------
(* EventLoopThread.                                                        *)

\* Every step of the owner and of the child thread is a step of the loop they
\* share, or leaves it alone.
LEMMA ThreadStepsAreLoopSteps == [NextThread]_allVars => [Next]_vars
<1> SUFFICES ASSUME [NextThread]_allVars PROVE [Next]_vars
  OBVIOUS
<1>1. Owner \in Threads
  BY EventLoopThreadAssumption
<1>2. CASE OwnerStep
  BY <1>1, <1>2 DEF OwnerStep, OwnerCreates, OwnerWaits, OwnerGetsLoop,
     OwnerQuits, OwnerJoins, Next, ThreadStep
<1>3. CASE ChildStep
  BY <1>3 DEF ChildStep, ChildSetsTid, ChildNotifies, ChildPublishes, ChildLoops,
     ChildClears, ChildEnds, Next
<1>4. CASE SpuriousWakeup \/ OwnerDestroys
  BY <1>4 DEF SpuriousWakeup, OwnerDestroys
<1>5. CASE OwnerUses
  BY <1>1, <1>5 DEF OwnerUses, Next, ThreadStep
<1>6. CASE ChildInLoop
  BY <1>6 DEF ChildInLoop, Next
<1>7. CASE UserCallsQuit \/ CallerWakes
  BY <1>7 DEF UserCallsQuit, CallerWakes, Next, ThreadStep
<1>8. CASE UNCHANGED allVars
  BY <1>8 DEF allVars
<1> QED BY <1>2, <1>3, <1>4, <1>5, <1>6, <1>7, <1>8 DEF NextThread

(***************************************************************************)
(* The EventLoop that a thread owns on its stack is an EventLoop: whatever *)
(* the owner and the child thread do, it behaves as specified there, so    *)
(* that all that is proved of EventLoop holds of it.                       *)
(***************************************************************************)
THEOREM ThreadRunsEventLoop == SpecThread => Spec
<1>1. InitThread => Init
  BY DEF InitThread
<1> QED BY <1>1, ThreadStepsAreLoopSteps, PTL DEF SpecThread, Spec

\* The child thread's way through threadFunc, and what the loop is doing there.
ChildExact ==
    /\ loopPtr <=> child \in {"published", "looping"}
    /\ child \in {"none", "begun", "tidSet", "called", "published"} => pc = "idle"

\* The child begins in Thread::start, and who came out of startLoop has seen
\* loop_ set.
OwnerBehindChild ==
    /\ owner = "new" => child = "none"
    /\ owner \in {"using", "quitting", "joining", "done"} =>
         child \in {"published", "looping", "cleared", "ended"}

(***************************************************************************)
(* LoopOutlivesUse is not inductive: loop() must not return by itself, so  *)
(* running_ stays set from the entry of loop() to the first quit().        *)
(***************************************************************************)
LoopsUntilQuit ==
    quits = 0 => /\ child = "looping" => running /\ looping
                 /\ child \notin {"cleared", "ended"}

ThreadInv ==
    /\ TypeOKThread
    /\ ChildExact
    /\ OwnerBehindChild
    /\ LoopsUntilQuit

\* Before Thread::start nothing of this has begun.
LEMMA InitThreadInv == InitThread => ThreadInv
<1> SUFFICES ASSUME InitThread PROVE ThreadInv
  OBVIOUS
<1>1. TypeOK
  BY InitIInv DEF InitThread, IInv
<1>2. loopPtr \in BOOLEAN /\ everLooped \in BOOLEAN
  BY Zenon DEF InitThread
<1> QED BY <1>1, <1>2 DEF InitThread, Init, ThreadInv, TypeOKThread, OwnerPc,
           ChildPc, ChildExact, OwnerBehindChild, LoopsUntilQuit

\* What the calls of other threads leave alone in the loop thread.
LEMMA CallsLeaveLoop ==
    ASSUME NEW t, \/ \E f \in Functions : QueueInLoop(t, f)
                  \/ Quit(t) \/ Wakeup(t)
    PROVE  /\ pc' = pc /\ looping' = looping
           /\ \/ quits' = quits /\ running' = running
              \/ quits' = quits + 1
BY DEF QueueInLoop, Quit, Wakeup, loopVars

\* Inside loop() nothing but the test of running_ resets looping_.
LEMMA InsideLoop ==
    ASSUME LoopStep \/ SelectTimeout
    PROVE  /\ running' = running /\ quits' = quits
           /\ looping' = looping \/ looping' = running
BY DEF LoopStep, SelectTimeout, CheckRunning, SelectReturns, HandleWakeup, HandleIo,
       SwapPending, FunctionReturns, EndPending

\* Every step keeps the invariant of the two threads.
LEMMA NextThreadInv ==
    TypeOK' /\ ThreadInv /\ [NextThread]_allVars => ThreadInv'
<1> SUFFICES ASSUME TypeOK', ThreadInv, [NextThread]_allVars PROVE ThreadInv'
  OBVIOUS
<1> USE DEF ThreadInv, TypeOKThread, OwnerPc, ChildPc, ChildExact,
            OwnerBehindChild, LoopsUntilQuit, threadVars
<1>1. quits \in Nat
  BY DEF TypeOK
<1>2. UNCHANGED vars => /\ pc' = pc /\ looping' = looping /\ quits' = quits
                        /\ running' = running
  BY DEF vars
<1>3. CASE OwnerCreates
  BY <1>2, <1>3 DEF OwnerCreates
<1>4. CASE OwnerWaits \/ SpuriousWakeup \/ OwnerDestroys
  BY <1>2, <1>4 DEF OwnerWaits, SpuriousWakeup, OwnerDestroys
<1>5. CASE OwnerGetsLoop
  BY <1>2, <1>5 DEF OwnerGetsLoop
<1>6. CASE OwnerUses
  BY <1>1, <1>6, CallsLeaveLoop DEF OwnerUses
<1>7. CASE OwnerQuits
  BY <1>1, <1>7, CallsLeaveLoop DEF OwnerQuits
<1>8. CASE OwnerJoins
  BY <1>2, <1>8 DEF OwnerJoins
<1>9. CASE ChildSetsTid
  BY <1>2, <1>9 DEF ChildSetsTid
<1>10. CASE ChildNotifies
  BY <1>2, <1>10 DEF ChildNotifies
<1>11. CASE ChildPublishes
  BY <1>2, <1>11 DEF ChildPublishes
<1>12. CASE ChildLoops
  BY <1>12 DEF ChildLoops, StartLoop
<1>13. CASE ChildInLoop
  BY <1>13, InsideLoop DEF ChildInLoop
<1>14. CASE ChildClears
  BY <1>2, <1>14 DEF ChildClears
<1>15. CASE ChildEnds
  BY <1>2, <1>15 DEF ChildEnds
<1>16. CASE UserCallsQuit
  BY <1>1, <1>16, CallsLeaveLoop DEF UserCallsQuit
<1>17. CASE CallerWakes
  BY <1>1, <1>17, CallsLeaveLoop DEF CallerWakes
<1>18. CASE UNCHANGED allVars
  BY <1>2, <1>18 DEF allVars
<1> QED BY <1>3, <1>4, <1>5, <1>6, <1>7, <1>8, <1>9, <1>10, <1>11, <1>12, <1>13,
           <1>14, <1>15, <1>16, <1>17, <1>18 DEF NextThread, OwnerStep, ChildStep

(***************************************************************************)
(* The EventLoop on the child's stack outlives its use: until somebody     *)
(* calls quit(), the owner that came out of startLoop() has a loop that    *)
(* exists and is published in loop_, however the two threads are           *)
(* scheduled, with and without spurious wakeups.                           *)
(***************************************************************************)
THEOREM ThreadLoopOutlivesUse == SpecThread => []LoopOutlivesUse
<1>1. ThreadInv => LoopOutlivesUse
  BY DEF ThreadInv, LoopOutlivesUse, ChildExact, OwnerBehindChild, LoopsUntilQuit
<1>2. SpecThread => []TypeOK
  BY ThreadRunsEventLoop, TypeCorrect, PTL
<1> QED BY <1>1, <1>2, InitThreadInv, NextThreadInv, PTL DEF SpecThread
=============================================================================
