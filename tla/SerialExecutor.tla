-------------------------- MODULE SerialExecutor --------------------------
(***************************************************************************)
(* What EventLoop promises of the functions handed to it: they run one at  *)
(* a time, each once, in the order in which they were handed over.  How    *)
(* the batch is swapped out of the queue, the eventfd and the flags are    *)
(* not visible here.                                                       *)
(***************************************************************************)
EXTENDS Sequences

CONSTANT Functions

VARIABLES
    todo,       \* functions handed over that have not returned yet
    done        \* functions that have returned

vars == <<todo, done>>

Init == todo = <<>> /\ done = <<>>

Submit(f) ==
    /\ todo' = Append(todo, f)
    /\ UNCHANGED done

Perform ==
    /\ todo # <<>>
    /\ done' = Append(done, Head(todo))
    /\ todo' = Tail(todo)

Next == (\E f \in Functions : Submit(f)) \/ Perform

Spec == Init /\ [][Next]_vars

=============================================================================
