----------------------------- MODULE TaskQueue ------------------------------
(***************************************************************************)
(* What EventLoop promises to those who queue tasks for it: the tasks run  *)
(* in the order in which they were queued, each of them once.              *)
(***************************************************************************)
EXTENDS Naturals, Sequences

VARIABLES
    queue,       \* tasks that were queued and have not run
    ran          \* tasks that ran, in order

taskVars == <<queue, ran>>

\* The n-th task to be queued is number n.
Enqueue ==
    /\ queue' = Append(queue, Len(queue) + Len(ran) + 1)
    /\ UNCHANGED ran

Run ==
    /\ queue # <<>>
    /\ queue' = Tail(queue)
    /\ ran' = Append(ran, Head(queue))

\* A task that runs may queue another one.
RunAndEnqueue ==
    /\ queue # <<>>
    /\ queue' = Append(Tail(queue), Len(queue) + Len(ran) + 1)
    /\ ran' = Append(ran, Head(queue))

TaskInit == queue = <<>> /\ ran = <<>>
TaskNext == Enqueue \/ Run \/ RunAndEnqueue
TaskSpec == TaskInit /\ [][TaskNext]_taskVars
=============================================================================
