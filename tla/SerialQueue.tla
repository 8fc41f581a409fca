----------------------------- MODULE SerialQueue -----------------------------
(***************************************************************************)
(* What the users of a JobQueue rely on: jobs run one at a time, each at   *)
(* most once, in the order in which the queue accepted them, and none      *)
(* starts once the queue is gone.                                          *)
(***************************************************************************)
EXTENDS Naturals, Sequences
CONSTANT Jobs
VARIABLES
    waiting,    \* accepted jobs that have not started, oldest first
    running,    \* the job that runs, in a set of at most one
    finished,   \* the jobs that have run, in that order
    gone        \* the queue's destructor has returned
vars == <<waiting, running, finished, gone>>

Known(j) ==
    \/ j \in running
    \/ \E i \in 1..Len(waiting) : waiting[i] = j
    \/ \E i \in 1..Len(finished) : finished[i] = j

Init == waiting = <<>> /\ running = {} /\ finished = <<>> /\ gone = FALSE

Accept(j) ==
    /\ ~Known(j)
    /\ waiting' = Append(waiting, j)
    /\ UNCHANGED <<running, finished, gone>>

Start ==
    /\ ~gone /\ running = {} /\ waiting # <<>>
    /\ running' = {Head(waiting)}
    /\ waiting' = Tail(waiting)
    /\ UNCHANGED <<finished, gone>>

Finish(j) ==
    /\ j \in running
    /\ running' = {}
    /\ finished' = Append(finished, j)
    /\ UNCHANGED <<waiting, gone>>

Leave ==
    /\ running = {}
    /\ gone' = TRUE
    /\ UNCHANGED <<waiting, running, finished>>

Next == (\E j \in Jobs : Accept(j) \/ Finish(j)) \/ Start \/ Leave
Spec == Init /\ [][Next]_vars
=============================================================================
