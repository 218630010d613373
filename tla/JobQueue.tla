------------------------------ MODULE JobQueue ------------------------------
(***************************************************************************)
(* What queue.JobQueue (pkg/queue/queue.go) promises: Enqueue adds a job   *)
(* at the tail, Dequeue takes the one at the head, and a closed queue      *)
(* takes no more jobs but still hands out the ones it has.                 *)
(***************************************************************************)
EXTENDS Naturals, Sequences

CONSTANT Jobs

VARIABLES
    items,     \* the waiting jobs, head first
    open       \* Close has not been called

Init == items = <<>> /\ open = TRUE

Enqueue(j) ==
    /\ open
    /\ items' = Append(items, j)
    /\ UNCHANGED open

Dequeue ==
    /\ items # <<>>
    /\ items' = Tail(items)
    /\ UNCHANGED open

Close ==
    /\ open' = FALSE
    /\ UNCHANGED items

Next == (\E j \in Jobs : Enqueue(j)) \/ Dequeue \/ Close

Spec == Init /\ [][Next]_<<items, open>>
=============================================================================
