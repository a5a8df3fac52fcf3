------------------------------ MODULE CallStack ------------------------------
(***************************************************************************)
(* The calls of threads as sequences of steps.  todo[t] is what thread t   *)
(* still has to do before it is back in the program, the innermost call    *)
(* first; a step is a tuple of its name and arguments.                     *)
(***************************************************************************)
EXTENDS Integers, Sequences

CONSTANT Thread

VARIABLE todo

Idle(t) == todo[t] = <<>>
Quiet == \A t \in Thread : Idle(t)

Now(t, step) == todo[t] # <<>> /\ Head(todo[t])[1] = step
Arg(t, i) == Head(todo[t])[i + 1]

\* The step that t is at is over; the calls it makes come first.
Then(t, calls) == todo' = [todo EXCEPT ![t] = calls \o Tail(@)]

Call(t, steps) == Idle(t) /\ todo' = [todo EXCEPT ![t] = steps]

\* The steps that t has ahead of it.
Ahead(t) == {todo[t][i] : i \in DOMAIN todo[t]}
=============================================================================
