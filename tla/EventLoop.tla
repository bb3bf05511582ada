----------------------------- MODULE EventLoop ------------------------------
(***************************************************************************)
(* One EventLoop, the EventLoopThread that runs it, the threads that queue *)
(* functors for it and the owner that starts it and makes it quit.         *)
(*                                                                         *)
(* A functor is the number of the queueInLoop call that queued it.  The    *)
(* eventfd is a flag: its counter is positive.  epoll_wait returns when    *)
(* the flag is up, when a socket has an event, or after kPollTimeMs.       *)
(***************************************************************************)
EXTENDS Naturals, Sequences

CONSTANTS
    Producer,    \* threads other than the loop's that queue functors
    MaxTasks     \* bound on the functors of a behaviour

ASSUME MaxTasksAssumption == MaxTasks \in Nat

VARIABLES
    pc,          \* where the loop's thread is
    pending,     \* _pendingFunctors_
    functors,    \* what doPendingFunctor took and has not run yet
    ran,         \* the functors that ran
    calling,     \* _callingPendingFunctors_
    signal,      \* the eventfd is readable
    quitFlag,    \* _quit_
    prod,        \* where each producer is in queueInLoop
    owner        \* where the owner is: startLoop, ..., ~EventLoopThread

loopVars == <<pc, pending, functors, ran, calling, signal, quitFlag, prod, owner>>

LoopTypeOK ==
    /\ pc \in {"init", "start", "test", "poll", "events", "swap", "run",
               "stopped"}
    /\ pending \in Seq(Nat) /\ functors \in Seq(Nat) /\ ran \in Seq(Nat)
    /\ calling \in BOOLEAN /\ (calling <=> pc \in {"swap", "run"})
    /\ functors # <<>> => pc = "run"
    /\ signal \in BOOLEAN /\ quitFlag \in BOOLEAN
    /\ prod \in [Producer -> {"idle", "wake"}]
    /\ owner \in {"starting", "using", "wake", "joining", "joined"}

LoopInit ==
    /\ pc = "init"
    /\ pending = <<>> /\ functors = <<>> /\ ran = <<>>
    /\ calling = FALSE /\ signal = FALSE /\ quitFlag = FALSE
    /\ prod = [p \in Producer |-> "idle"]
    /\ owner = "starting"

Tasks == Len(ran) + Len(functors) + Len(pending)
NewTask == Append(pending, Tasks + 1)

-----------------------------------------------------------------------------
(* The loop's thread.                                                      *)

\* threadFunc publishes _loop_ and notifies startLoop.
Publish ==
    /\ pc = "init"
    /\ pc' = "start"
    /\ UNCHANGED <<pending, functors, ran, calling, signal, quitFlag, prod, owner>>

\* loop(): _quit_ = false.
StartLoop ==
    /\ pc = "start"
    /\ pc' = "test"
    /\ quitFlag' = FALSE
    /\ UNCHANGED <<pending, functors, ran, calling, signal, prod, owner>>

\* Mutant: the flag is cleared in every round.
TestQuit_Reset ==
    /\ pc = "test"
    /\ pc' = "poll" /\ quitFlag' = FALSE
    /\ UNCHANGED <<pending, functors, ran, calling, signal, prod, owner>>

\* while (!_quit_)
TestQuit ==
    /\ pc = "test"
    /\ pc' = IF quitFlag THEN "stopped" ELSE "poll"
    /\ UNCHANGED <<pending, functors, ran, calling, signal, quitFlag, prod,
                   owner>>

\* epoll_wait returns; handlerRead runs if the eventfd is among the events.
\* (A wakeup between the two is read as well: the functor is taken below.)
Poll ==
    /\ pc = "poll"
    /\ pc' = "events"
    /\ signal' = FALSE
    /\ UNCHANGED <<pending, functors, ran, calling, quitFlag, prod, owner>>

\* Mutant: a functor needs a wakeup only from another thread.
Wakes_Outside(running) == FALSE
\* queueInLoop in the loop's own thread: wakeup only if
\* _callingPendingFunctors_.
Wakes(running) == running

\* A channel's callback queues a functor.
EventQueues ==
    /\ pc = "events" /\ Tasks < MaxTasks
    /\ pending' = NewTask
    /\ signal' = IF Wakes(calling) THEN TRUE ELSE signal
    /\ UNCHANGED <<pc, functors, ran, calling, quitFlag, prod, owner>>

EventsDone ==
    /\ pc = "events"
    /\ pc' = "swap"
    /\ calling' = TRUE
    /\ UNCHANGED <<pending, functors, ran, signal, quitFlag, prod, owner>>

\* Mutant: the list is copied and cleared in two critical sections, and what
\* was queued in between is lost (here: the last functor).
Swap_Lossy ==
    /\ pc = "swap"
    /\ pc' = "run"
    /\ functors' = IF pending = <<>> THEN <<>>
                   ELSE SubSeq(pending, 1, Len(pending) - 1)
    /\ pending' = <<>>
    /\ UNCHANGED <<ran, calling, signal, quitFlag, prod, owner>>

Swap ==
    /\ pc = "swap"
    /\ pc' = "run"
    /\ functors' = pending
    /\ pending' = <<>>
    /\ UNCHANGED <<ran, calling, signal, quitFlag, prod, owner>>

\* cb()
RunFunctor ==
    /\ pc = "run" /\ functors # <<>>
    /\ ran' = Append(ran, Head(functors))
    /\ functors' = Tail(functors)
    /\ UNCHANGED <<pc, pending, calling, signal, quitFlag, prod, owner>>

\* A cb() that queues another functor for its own loop.
RunAndQueue ==
    /\ pc = "run" /\ functors # <<>> /\ Tasks < MaxTasks
    /\ ran' = Append(ran, Head(functors))
    /\ functors' = Tail(functors)
    /\ pending' = NewTask
    /\ signal' = IF Wakes(calling) THEN TRUE ELSE signal
    /\ UNCHANGED <<pc, calling, quitFlag, prod, owner>>

\* Mutant: _callingPendingFunctors_ stays set.
RunDone_StillCalling ==
    /\ pc = "run" /\ functors = <<>>
    /\ pc' = "test"
    /\ UNCHANGED <<pending, functors, ran, calling, signal, quitFlag, prod, owner>>

RunDone ==
    /\ pc = "run" /\ functors = <<>>
    /\ pc' = "test"
    /\ calling' = FALSE
    /\ UNCHANGED <<pending, functors, ran, signal, quitFlag, prod, owner>>

LoopThread ==
    \/ Publish \/ StartLoop \/ TestQuit \/ Poll \/ EventsDone \/ Swap
    \/ RunFunctor \/ RunAndQueue \/ RunDone

-----------------------------------------------------------------------------
(* Other threads.  They know the loop once startLoop has returned.         *)

Push(p) ==
    /\ owner = "using" /\ prod[p] = "idle" /\ Tasks < MaxTasks
    /\ pending' = NewTask
    /\ prod' = [prod EXCEPT ![p] = "wake"]
    /\ UNCHANGED <<pc, functors, ran, calling, signal, quitFlag, owner>>

Wakeup(p) ==
    /\ prod[p] = "wake"
    /\ signal' = TRUE
    /\ prod' = [prod EXCEPT ![p] = "idle"]
    /\ UNCHANGED <<pc, pending, functors, ran, calling, quitFlag, owner>>

startLoop ==
    /\ owner = "starting" /\ pc # "init"
    /\ owner' = "using"
    /\ UNCHANGED <<pc, pending, functors, ran, calling, signal, quitFlag, prod>>

\* ~EventLoopThread: quit() sets the flag ...
quit ==
    /\ owner = "using"
    /\ owner' = "wake"
    /\ quitFlag' = TRUE
    /\ UNCHANGED <<pc, pending, functors, ran, calling, signal, prod>>

\* ... and wakes the loop up; then join().
quitWakeup ==
    /\ owner = "wake"
    /\ owner' = "joining"
    /\ signal' = TRUE
    /\ UNCHANGED <<pc, pending, functors, ran, calling, quitFlag, prod>>

join ==
    /\ owner = "joining" /\ pc = "stopped"
    /\ owner' = "joined"
    /\ UNCHANGED <<pc, pending, functors, ran, calling, signal, quitFlag, prod>>

Owner == startLoop \/ quitWakeup \/ join

LoopNext ==
    \/ LoopThread \/ EventQueues \/ Owner \/ quit
    \/ \E p \in Producer : Push(p) \/ Wakeup(p)

LoopSpec == LoopInit /\ [][LoopNext]_loopVars

\* The threads run (epoll_wait returns after kPollTimeMs at the latest); what
\* is queued and whether the owner ever quits is up to the program.
LoopFairness ==
    /\ WF_loopVars(LoopThread) /\ WF_loopVars(Owner)
    /\ \A p \in Producer : WF_loopVars(Wakeup(p))
LoopFairSpec == LoopSpec /\ LoopFairness

-----------------------------------------------------------------------------
(* Properties.                                                             *)

\* The loop never waits in epoll_wait for its timeout while a functor is
\* queued: the eventfd is readable, or the thread that queued it is about to
\* write to it, or a quit is.
NoFunctorStranded ==
    pc = "poll" /\ pending # <<>> => signal \/ \E p \in Producer : prod[p] = "wake"

\* EventLoop implements TaskQueue: functors run in order, each once.
Abstract == INSTANCE TaskQueue WITH queue <- functors \o pending
Implements == Abstract!TaskSpec

\* Every functor runs, unless the loop is made to quit before.
EveryFunctorRuns ==
    \A n \in 1..MaxTasks : Tasks >= n ~> (Len(ran) >= n \/ quitFlag)

\* A quit that comes while the loop is running ends it.
QuitStopsRunningLoop ==
    (quitFlag /\ pc \notin {"init", "start"}) ~> pc = "stopped"

\* "Exit the event loop" (EventLoop.cc:80): whoever asked for it and waits for
\* the thread gets it.
QuitIsObeyed == owner = "joining" ~> owner = "joined"
=============================================================================
