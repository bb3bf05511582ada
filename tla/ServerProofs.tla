---------------------------- MODULE ServerProofs ----------------------------
(***************************************************************************)
(* What a channel says of itself is what epoll has, for any number of      *)
(* clients, loops and descriptors: no epoll_ctl of the program can fail.   *)
(* And nothing that the loops still look at - epoll's set, the pollers'    *)
(* maps, the lists of active channels, the queues of functors - refers to  *)
(* a connection whose descriptor has been closed: the steps that queue a   *)
(* functor, and the functors, hand a connection's last reference on until  *)
(* its channel is removed (HolderInv).                                     *)
(***************************************************************************)
EXTENDS TcpServer, SequenceTheorems, TLAPS

PollerOK ==
    /\ events \in [Channel -> EventSet]
    /\ index \in [Channel -> {"new", "added", "deleted"}]
    /\ watch \in [Channel -> EventSet \cup {Unwatched}]
    /\ PollerAgrees

\* The functors that wait, or are about to run.
FunctorsOK ==
    /\ pending \in [Loop -> Seq(Functor)] /\ batch \in [Loop -> Seq(Functor)]

\* A loop that is to accept finds a client that waits.
AcceptOK ==
    /\ backlog \in Seq(Client)
    /\ active \in [Loop -> SUBSET (Channel \X EventSet)]
    /\ <<Listener, {"read"}>> \in active[Main] => backlog # <<>>

ServerInv == PollerOK /\ FunctorsOK /\ AcceptOK

LEMMA MainIsLoop == Main \in Loop /\ 1..NumThreads \subseteq Loop
BY ServerAssumption DEF Main, Loop, ServerAssumption

-----------------------------------------------------------------------------
(* The poller.                                                             *)

LEMMA UpdateKeeps ==
    ASSUME PollerOK, NEW ch \in Channel, NEW wanted \in EventSet,
           updateChannel(ch, wanted)
    PROVE  PollerOK'
<1>1. Unwatched \notin EventSet
  BY DEF Unwatched, EventSet
<1>2. events' = [events EXCEPT ![ch] = wanted]
  BY DEF updateChannel
<1>3. events' \in [Channel -> EventSet]
  BY <1>2 DEF PollerOK
<1>4. watch[ch] = (IF index[ch] = "added" THEN events[ch] ELSE Unwatched)
      /\ events[ch] \in EventSet /\ ~fatal
  BY DEF PollerOK, PollerAgrees
<1>5. CASE index[ch] \in {"new", "deleted"}
  <2>1. watch[ch] = Unwatched
    BY <1>4, <1>5
  <2>2. /\ index' = [index EXCEPT ![ch] = "added"]
        /\ watch' = [watch EXCEPT ![ch] = wanted] /\ fatal' = fatal
    BY <1>5, <2>1 DEF updateChannel, update, Index_Added
  <2>3. QED
    BY <1>2, <1>3, <2>2 DEF PollerOK, PollerAgrees
<1>6. CASE index[ch] = "added" /\ wanted = {}
  <2>1. /\ index' = [index EXCEPT ![ch] = "deleted"]
        /\ watch' = [watch EXCEPT ![ch] = Unwatched] /\ fatal' = fatal
    BY <1>6 DEF updateChannel
  <2>2. QED
    BY <1>2, <1>3, <2>1 DEF PollerOK, PollerAgrees
<1>7. CASE index[ch] = "added" /\ wanted # {}
  <2>1. watch[ch] # Unwatched
    BY <1>1, <1>4, <1>7
  <2>2. watch' = [watch EXCEPT ![ch] = wanted] /\ UNCHANGED <<index, fatal>>
    BY <1>7, <2>1 DEF updateChannel, update
  <2>3. QED
    BY <1>2, <1>3, <1>7, <2>2 DEF PollerOK, PollerAgrees
<1>8. QED
  BY <1>5, <1>6, <1>7 DEF PollerOK

\* connectDestroyed removes a channel, with or without its events.
LEMMA RemoveKeeps ==
    ASSUME PollerOK, NEW ch \in Channel, removeChannel(ch),
           events' = events \/ events' = [events EXCEPT ![ch] = {}]
    PROVE  PollerOK'
<1>1. events' \in [Channel -> EventSet]
      /\ \A d \in Channel \ {ch} : events'[d] = events[d]
  BY DEF PollerOK, EventSet
<1>2. /\ index' = [index EXCEPT ![ch] = "new"] /\ fatal' = fatal
      /\ watch' = IF index[ch] = "added" THEN [watch EXCEPT ![ch] = Unwatched]
                                         ELSE watch
  BY DEF removeChannel
<1>3. watch'[ch] = Unwatched /\ watch' \in [Channel -> EventSet \cup {Unwatched}]
      /\ \A d \in Channel \ {ch} : watch'[d] = watch[d]
  BY <1>2 DEF PollerOK, PollerAgrees
<1>4. QED
  BY <1>1, <1>2, <1>3 DEF PollerOK, PollerAgrees

LEMMA PollerSame == PollerOK /\ UNCHANGED pollerVars => PollerOK'
BY DEF PollerOK, PollerAgrees, pollerVars

-----------------------------------------------------------------------------
(* Functors.                                                               *)

LEMMA QueueKeeps ==
    ASSUME pending \in [Loop -> Seq(Functor)], NEW l, NEW c \in Client,
           NEW kind \in {"connectEstablished", "removeConnectionInLoop",
                         "connectDestroyed"},
           queueInLoop(l, kind, c)
    PROVE  pending' \in [Loop -> Seq(Functor)]
<1>1. <<kind, c>> \in Functor
  BY DEF Functor
<1>2. \A q \in Seq(Functor) : Append(q, <<kind, c>>) \in Seq(Functor)
  BY <1>1, AppendProperties
<1>3. pending' = [pending EXCEPT ![l] = Append(pending[l], <<kind, c>>)]
  BY DEF queueInLoop
<1>4. l \in Loop => Append(pending[l], <<kind, c>>) \in Seq(Functor)
  BY <1>2
<1>5. QED
  BY <1>3, <1>4

\* The functor that runs is one of those queued, and the others still are.
LEMMA RunsKeeps ==
    ASSUME FunctorsOK, NEW l \in Loop, NEW kind, NEW c, Runs(l, kind, c)
    PROVE  /\ c \in Client /\ batch' \in [Loop -> Seq(Functor)]
           /\ UNCHANGED <<clientVars, loopVars>>
<1>1. batch[l] \in Seq(Functor) /\ batch[l] # <<>> /\ Head(batch[l]) = <<kind, c>>
      /\ batch' = [batch EXCEPT ![l] = Tail(batch[l])]
  BY DEF FunctorsOK, Runs
<1>2. Head(batch[l]) \in Functor /\ Tail(batch[l]) \in Seq(Functor)
  BY <1>1, HeadTailProperties
<1>3. c \in Client
  BY <1>1, <1>2 DEF Functor
<1>4. batch' \in [Loop -> Seq(Functor)]
  BY <1>1, <1>2 DEF FunctorsOK
<1>5. QED
  BY <1>3, <1>4 DEF Runs

LEMMA AcceptSame ==
    AcceptOK /\ backlog' = backlog /\ active' = active => AcceptOK'
BY DEF AcceptOK

\* An event that is handled is no longer active.
LEMMA HandlesKeeps ==
    ASSUME AcceptOK, NEW l \in Loop, NEW ch, NEW revents, Handles(l, ch, revents)
    PROVE  /\ ch \in Channel /\ revents \in EventSet
           /\ active' \in [Loop -> SUBSET (Channel \X EventSet)]
           /\ active'[Main] \subseteq active[Main]
           /\ l = Main => active'[Main] = active[Main] \ {<<ch, revents>>}
<1>1. /\ <<ch, revents>> \in active[l] /\ active[l] \in SUBSET (Channel \X EventSet)
      /\ active' = [active EXCEPT ![l] = active[l] \ {<<ch, revents>>}]
  BY DEF AcceptOK, Handles
<1>2. QED
  BY <1>1, MainIsLoop DEF AcceptOK

-----------------------------------------------------------------------------
(* The steps.                                                              *)

LEMMA ServerInvInit == ServerInit => ServerInv
<1> SUFFICES ASSUME ServerInit PROVE ServerInv
  OBVIOUS
<1>1. PollerOK
  BY DEF ServerInit, PollerOK, PollerAgrees, EventSet
<1>2. <<>> \in Seq(Functor) /\ <<>> \in Seq(Client)
  BY EmptySeq
<1>3. FunctorsOK /\ AcceptOK
  BY <1>2, MainIsLoop DEF ServerInit, FunctorsOK, AcceptOK
<1>4. QED
  BY <1>1, <1>3 DEF ServerInv

LEMMA PollStep ==
    ASSUME ServerInv, NEW l \in Loop, poll(l)
    PROVE  ServerInv'
<1> DEFINE revents(ch, readable, writable) ==
              {"read" : d \in readable \cap {ch}} \cup {"write" : d \in writable \cap {ch}}
<1>1. PICK writable \in SUBSET Asked(l, "write") :
        LET readable == {ch \in Asked(l, "read") : HasInput(ch)}
        IN  \E found \in SUBSET (readable \cup writable) :
               active' = [active EXCEPT ![l] =
                            {<<ch, revents(ch, readable, writable)>> : ch \in found}]
  BY DEF poll
<1> DEFINE readable == {ch \in Asked(l, "read") : HasInput(ch)}
<1>2. PICK found \in SUBSET (readable \cup writable) :
         active' = [active EXCEPT ![l] =
                      {<<ch, revents(ch, readable, writable)>> : ch \in found}]
  BY <1>1
<1> DEFINE new == {<<ch, revents(ch, readable, writable)>> : ch \in found}
<1>3. found \subseteq Channel /\ readable \subseteq Channel
  BY DEF Asked
<1>4. \A ch : revents(ch, readable, writable) \in EventSet
  BY DEF EventSet
<1>5. new \in SUBSET (Channel \X EventSet)
  BY <1>3, <1>4
<1>6. active' \in [Loop -> SUBSET (Channel \X EventSet)]
  BY <1>2, <1>5 DEF ServerInv, AcceptOK
<1>7. <<Listener, {"read"}>> \in new => backlog # <<>>
  <2> SUFFICES ASSUME <<Listener, {"read"}>> \in new PROVE backlog # <<>>
    OBVIOUS
  <2>1. "read" \in revents(Listener, readable, writable)
    OBVIOUS
  <2>2. Listener \in readable
    BY <2>1
  <2>3. QED
    BY <2>2 DEF HasInput
<1>8. active'[Main] = new \/ active'[Main] = active[Main]
  BY <1>2, MainIsLoop DEF ServerInv, AcceptOK
<1>9. UNCHANGED <<clientVars, pollerVars, holderVars>>
  BY DEF poll
<1>10. backlog' = backlog /\ pending' = pending /\ batch' = batch
  BY <1>9 DEF clientVars, holderVars
<1> HIDE DEF new
<1>11. AcceptOK'
  BY <1>6, <1>7, <1>8, <1>10 DEF ServerInv, AcceptOK
<1>12. PollerOK' /\ FunctorsOK'
  BY <1>9, <1>10, PollerSame DEF ServerInv, FunctorsOK
<1>13. QED
  BY <1>11, <1>12 DEF ServerInv

LEMMA AcceptStep == ServerInv /\ Accept => ServerInv'
<1> SUFFICES ASSUME ServerInv, Accept PROVE ServerInv'
  OBVIOUS
<1>1. /\ Handles(Main, Listener, {"read"}) /\ UNCHANGED batch
      /\ <<Listener, {"read"}>> \in active[Main]
  BY DEF Accept, Handles
<1>2. backlog \in Seq(Client) /\ backlog # <<>>
  BY <1>1 DEF ServerInv, AcceptOK
<1>3. Head(backlog) \in Client /\ Tail(backlog) \in Seq(Client)
  BY <1>2, HeadTailProperties
<1>4. /\ active' \in [Loop -> SUBSET (Channel \X EventSet)]
      /\ <<Listener, {"read"}>> \notin active'[Main]
  <2>1. AcceptOK /\ Main \in Loop
    BY MainIsLoop DEF ServerInv
  <2>2. /\ active' \in [Loop -> SUBSET (Channel \X EventSet)]
        /\ active'[Main] = active[Main] \ {<<Listener, {"read"}>>}
    BY <1>1, <2>1, HandlesKeeps
  <2>3. QED
    BY <2>2
<1>5. CASE UNCHANGED pollerVars /\ newConnection(Head(backlog)) /\ backlog' = Tail(backlog)
  <2>1. queueInLoop(nextLoop, "connectEstablished", Head(backlog))
    BY <1>5 DEF newConnection
  <2>2. FunctorsOK'
    BY <1>1, <1>3, <2>1, QueueKeeps DEF ServerInv, FunctorsOK
  <2>3. QED
    BY <1>3, <1>4, <1>5, <2>2, PollerSame DEF ServerInv, AcceptOK
<1>6. CASE UNCHANGED <<pollerVars, pending, backlog>>
  BY <1>1, <1>2, <1>4, <1>6, PollerSame DEF ServerInv, FunctorsOK, AcceptOK
<1>7. QED
  BY <1>5, <1>6 DEF Accept, Refused

LEMMA HandlerCloseStep ==
    ASSUME ServerInv, NEW l \in Loop, NEW c \in Client, NEW revents,
           handlerClose(l, c, revents)
    PROVE  ServerInv'
<1>1. /\ Handles(l, c, revents) /\ updateChannel(c, {})
      /\ queueInLoop(Main, "removeConnectionInLoop", c)
      /\ UNCHANGED <<clientVars, batch>>
  BY DEF handlerClose, DisableAll
<1>2. PollerOK'
  BY <1>1, UpdateKeeps DEF ServerInv, Channel, EventSet
<1>3. FunctorsOK'
  BY <1>1, QueueKeeps DEF ServerInv, FunctorsOK
<1>4. AcceptOK'
  BY <1>1, HandlesKeeps DEF ServerInv, AcceptOK, clientVars
<1>5. QED
  BY <1>2, <1>3, <1>4 DEF ServerInv

LEMMA HandleReadWriteStep ==
    ASSUME ServerInv, NEW l \in Loop, NEW c \in Client, NEW revents,
           handleReadWrite(l, c, revents)
    PROVE  ServerInv'
<1>1. /\ Handles(l, c, revents) /\ backlog' = backlog
      /\ pending' = pending /\ batch' = batch
  BY DEF handleReadWrite, holderVars
<1>2. c \in Channel /\ events[c] \in EventSet
  BY DEF Channel, ServerInv, PollerOK
<1>3. /\ events[c] \cup {"write"} \in EventSet /\ events[c] \ {"write"} \in EventSet
  BY <1>2 DEF EventSet
<1>4. \/ updateChannel(c, events[c] \cup {"write"})
      \/ updateChannel(c, events[c] \ {"write"})
      \/ UNCHANGED pollerVars
  BY DEF handleReadWrite, EnableWriting, DisableWriting
<1>5. PollerOK'
  BY <1>2, <1>3, <1>4, UpdateKeeps, PollerSame DEF ServerInv
<1>6. AcceptOK'
  BY <1>1, HandlesKeeps DEF ServerInv, AcceptOK
<1>7. QED
  BY <1>1, <1>5, <1>6 DEF ServerInv, FunctorsOK

LEMMA TakeBatchStep ==
    ASSUME ServerInv, NEW l \in Loop, TakeBatch(l)
    PROVE  ServerInv'
<1>1. /\ batch' = [batch EXCEPT ![l] = pending[l]]
      /\ pending' = [pending EXCEPT ![l] = <<>>]
      /\ UNCHANGED <<clientVars, pollerVars, active>>
  BY DEF TakeBatch
<1>2. <<>> \in Seq(Functor) /\ pending[l] \in Seq(Functor)
  BY EmptySeq DEF ServerInv, FunctorsOK
<1>3. FunctorsOK'
  BY <1>1, <1>2 DEF ServerInv, FunctorsOK
<1>4. QED
  BY <1>1, <1>3, PollerSame, AcceptSame DEF ServerInv, clientVars

LEMMA ConnectEstablishedStep ==
    ASSUME ServerInv, NEW l \in Loop, NEW c, connectEstablished(l, c)
    PROVE  ServerInv'
<1>1. /\ Runs(l, "connectEstablished", c)
      /\ updateChannel(c, events[c] \cup {"read"}) /\ pending' = pending
  BY DEF connectEstablished, EnableReading
<1>2. /\ c \in Client /\ batch' \in [Loop -> Seq(Functor)]
      /\ UNCHANGED <<clientVars, loopVars>>
  BY <1>1, RunsKeeps DEF ServerInv
<1>3. c \in Channel /\ events[c] \cup {"read"} \in EventSet
  BY <1>2 DEF Channel, ServerInv, PollerOK, EventSet
<1>4. PollerOK'
  BY <1>1, <1>3, UpdateKeeps DEF ServerInv
<1>5. QED
  BY <1>1, <1>2, <1>4, AcceptSame DEF ServerInv, FunctorsOK, clientVars, loopVars

LEMMA RemoveConnectionStep ==
    ASSUME ServerInv, NEW c, removeConnectionInLoop(c)
    PROVE  ServerInv'
<1>1. /\ Runs(Main, "removeConnectionInLoop", c) /\ UNCHANGED pollerVars
      /\ queueInLoop(loopOf[c], "connectDestroyed", c)
  BY DEF removeConnectionInLoop
<1>2. /\ c \in Client /\ batch' \in [Loop -> Seq(Functor)]
      /\ UNCHANGED <<clientVars, loopVars>>
  BY <1>1, MainIsLoop, RunsKeeps DEF ServerInv
<1>3. FunctorsOK'
  BY <1>1, <1>2, QueueKeeps DEF ServerInv, FunctorsOK
<1>4. QED
  BY <1>1, <1>2, <1>3, PollerSame, AcceptSame DEF ServerInv, clientVars, loopVars

LEMMA ConnectDestroyedStep ==
    ASSUME ServerInv, NEW l \in Loop, NEW c, connectDestroyed(l, c)
    PROVE  ServerInv'
<1>1. /\ Runs(l, "connectDestroyed", c) /\ removeChannel(c) /\ pending' = pending
      /\ events' = events \/ events' = [events EXCEPT ![c] = {}]
  BY DEF connectDestroyed
<1>2. /\ c \in Client /\ batch' \in [Loop -> Seq(Functor)]
      /\ UNCHANGED <<clientVars, loopVars>>
  BY <1>1, RunsKeeps DEF ServerInv
<1>3. PollerOK'
  BY <1>1, <1>2, RemoveKeeps DEF ServerInv, Channel
<1>4. QED
  BY <1>1, <1>2, <1>3, AcceptSame DEF ServerInv, FunctorsOK, clientVars, loopVars

LEMMA startStep == ServerInv /\ start => ServerInv'
<1> SUFFICES ASSUME ServerInv, start PROVE ServerInv'
  OBVIOUS
<1>1. /\ updateChannel(Listener, events[Listener] \cup {"read"})
      /\ UNCHANGED <<clientVars, holderVars, loopVars>>
  BY DEF start, listen, EnableReading
<1>2. Listener \in Channel /\ events[Listener] \cup {"read"} \in EventSet
  BY DEF Channel, ServerInv, PollerOK, EventSet
<1>3. PollerOK'
  BY <1>1, <1>2, UpdateKeeps DEF ServerInv
<1>4. QED
  BY <1>1, <1>3, AcceptSame
     DEF ServerInv, FunctorsOK, clientVars, holderVars, loopVars

LEMMA ConnectStep ==
    ASSUME ServerInv, NEW c \in Client, Connect(c)
    PROVE  ServerInv'
<1>1. /\ backlog' = Append(backlog, c)
      /\ UNCHANGED <<pollerVars, holderVars, loopVars>>
  BY DEF Connect, ClientUnchanged
<1>2. backlog' \in Seq(Client) /\ backlog' # <<>>
  BY <1>1, AppendProperties DEF ServerInv, AcceptOK
<1>3. AcceptOK'
  BY <1>1, <1>2 DEF ServerInv, AcceptOK, loopVars
<1>4. QED
  BY <1>1, <1>3, PollerSame DEF ServerInv, FunctorsOK, holderVars

\* The other steps are of clients, of other threads, or end a batch.
LEMMA OtherSteps ==
    ServerInv /\ UNCHANGED <<backlog, active, pollerVars, pending, batch>> => ServerInv'
BY PollerSame, AcceptSame DEF ServerInv, FunctorsOK

LEMMA LoopStepKeeps ==
    ASSUME ServerInv, NEW l \in Loop, LoopStep(l)
    PROVE  ServerInv'
<1>1. CASE poll(l)
  BY <1>1, PollStep
<1>2. CASE HandlerEvent(l)
  BY <1>2, HandlerCloseStep, HandleReadWriteStep DEF HandlerEvent
<1>3. CASE TakeBatch(l)
  BY <1>3, TakeBatchStep
<1>4. CASE RunFunctor(l)
  BY <1>4, ConnectEstablishedStep, ConnectDestroyedStep DEF RunFunctor
<1>5. CASE EndBatch(l)
  BY <1>5, OtherSteps DEF EndBatch, clientVars
<1>6. QED
  BY <1>1, <1>2, <1>3, <1>4, <1>5 DEF LoopStep

\* For any number of clients, loops and descriptors, and any behaviour of the
\* clients and of the threads that hold connections: what a channel says of
\* itself is what epoll has, and no epoll_ctl fails (EPollPoller::updateChannel
\* and removeChannel, as Acceptor and TcpConnection use them).
THEOREM PollerCorrect == ServerSpec => []PollerAgrees
<1>1. ServerInv /\ [ServerNext]_serverVars => ServerInv'
  <2> SUFFICES ASSUME ServerInv, [ServerNext]_serverVars PROVE ServerInv'
    OBVIOUS
  <2>1. CASE UNCHANGED serverVars
    BY <2>1, OtherSteps DEF serverVars, clientVars, pollerVars, holderVars, loopVars
  <2>2. CASE MainStep
    <3>1. CASE LoopStep(Main)
      BY <3>1, MainIsLoop, LoopStepKeeps
    <3>2. CASE start
      BY <3>2, startStep
    <3>3. CASE Accept
      BY <3>3, AcceptStep
    <3>4. CASE removeConnectionInLoop(Head(batch[Main])[2])
      BY <3>4, RemoveConnectionStep
    <3>5. QED
      BY <2>2, <3>1, <3>2, <3>3, <3>4 DEF MainStep
  <2>3. ASSUME NEW l \in 1..NumThreads, LoopStep(l) PROVE ServerInv'
    BY <2>3, MainIsLoop, LoopStepKeeps
  <2>4. ASSUME NEW c \in Client, Connect(c) \/ HangUp(c) PROVE ServerInv'
    BY <2>4, ConnectStep, OtherSteps DEF HangUp, ClientUnchanged, holderVars, loopVars
  <2>5. ASSUME NEW c \in Busy, SendRequest(c) \/ Borrow(c) \/ Return(c)
        PROVE  ServerInv'
    BY <2>5, OtherSteps
       DEF SendRequest, Borrow, Return, ClientUnchanged, clientVars, holderVars, loopVars
  <2>6. ASSUME NEW c \in Lingering, Forget(c) PROVE ServerInv'
    BY <2>6, OtherSteps DEF Forget, clientVars, loopVars
  <2>7. QED
    BY <2>1, <2>2, <2>3, <2>4, <2>5, <2>6 DEF ServerNext
<1>2. ServerInv => PollerAgrees
  BY DEF ServerInv, PollerOK
<1>3. QED
  BY <1>1, <1>2, ServerInvInit, PTL DEF ServerSpec

-----------------------------------------------------------------------------
(* The functors of a connection, in whatever queue they are.               *)

Kind == {"connectEstablished", "removeConnectionInLoop", "connectDestroyed"}

\* No client has two functors in a queue; the functors of a queue; two queues
\* without a common client.
Once(s) == \A i, j \in 1..Len(s) : s[i][2] = s[j][2] => i = j
Of(s) == {s[i] : i \in 1..Len(s)}
Apart(s, t) == \A x \in Of(s), y \in Of(t) : x[2] # y[2]

\* In batches b and pending functors p there is at most one of each client.
OneEach(b, p) ==
    /\ \A l \in Loop : Once(b[l]) /\ Once(p[l])
    /\ \A l, m \in Loop : Apart(b[l], p[m])
    /\ \A l, m \in Loop : l # m => Apart(b[l], b[m]) /\ Apart(p[l], p[m])

\* The functor of kind k for c is among those of loop l.
Has(b, p, l, k, c) == <<k, c>> \in Of(b[l]) \cup Of(p[l])

Queues == [Loop -> Seq(Functor)]

NoneOf(b, p, c) == \A m \in Loop, j \in Kind : ~Has(b, p, m, j, c)

\* What a loop and queueInLoop do with the queues.
IsRun(b, b1, l, k, c) ==
    b[l] # <<>> /\ Head(b[l]) = <<k, c>> /\ b1 = [b EXCEPT ![l] = Tail(b[l])]
IsQueued(p, p1, l, k, c) == p1 = [p EXCEPT ![l] = Append(p[l], <<k, c>>)]
IsTaken(b, b1, p, p1, l) ==
    b[l] = <<>> /\ b1 = [b EXCEPT ![l] = p[l]] /\ p1 = [p EXCEPT ![l] = <<>>]

LEMMA TailOnce ==
    ASSUME NEW s \in Seq(Functor), s # <<>>, Once(s)
    PROVE  /\ Once(Tail(s)) /\ Head(s) \in Of(s)
           /\ Of(Tail(s)) = {x \in Of(s) : x[2] # Head(s)[2]}
<1> DEFINE t == Tail(s)
<1>1. /\ Len(s) \in Nat /\ Len(s) > 0 /\ Head(s) = s[1]
      /\ Len(t) = Len(s) - 1 /\ \A i \in 1..Len(t) : t[i] = s[i + 1]
  <2>1. Len(s) \in Nat /\ Len(s) # 0
    BY LenProperties, EmptySeq
  <2>2. /\ Len(t) = Len(s) - 1 /\ Head(s) = s[1]
        /\ \A i \in 1..Len(t) : t[i] = s[i + 1]
    BY HeadTailProperties
  <2>3. QED
    BY <2>1, <2>2
<1> HIDE DEF t
<1>2. \A i \in 1..Len(t) : i + 1 \in 1..Len(s) /\ i + 1 # 1
  BY <1>1
<1>3. Once(t)
  <2>1. ASSUME NEW i \in 1..Len(t), NEW j \in 1..Len(t), t[i][2] = t[j][2] PROVE i = j
    <3>1. s[i + 1][2] = s[j + 1][2]
      BY <1>1, <2>1
    <3>2. i + 1 = j + 1
      BY <1>2, <3>1 DEF Once
    <3>3. QED
      BY <1>1, <3>2
  <2>2. QED
    BY <2>1 DEF Once
<1>4. Head(s) \in Of(s)
  BY <1>1 DEF Of
<1>5. ASSUME NEW x \in Of(t) PROVE x \in Of(s) /\ x[2] # s[1][2]
  <2>1. PICK i \in 1..Len(t) : x = t[i]
    BY DEF Of
  <2>2. x = s[i + 1]
    BY <1>1, <2>1
  <2>3. 1 \in 1..Len(s)
    BY <1>1
  <2>4. QED
    BY <1>2, <2>2, <2>3 DEF Of, Once
<1>6. ASSUME NEW x \in Of(s), x[2] # s[1][2] PROVE x \in Of(t)
  <2>1. PICK i \in 1..Len(s) : x = s[i]
    BY DEF Of
  <2>2. i # 1
    BY <1>6, <2>1
  <2>3. i - 1 \in 1..Len(t) /\ (i - 1) + 1 = i
    BY <1>1, <2>2
  <2>4. t[i - 1] = s[i]
    BY <1>1, <2>3
  <2>5. QED
    BY <2>1, <2>3, <2>4 DEF Of
<1>7. QED
  BY <1>1, <1>3, <1>4, <1>5, <1>6 DEF t

LEMMA AppendOnce ==
    ASSUME NEW s \in Seq(Functor), NEW x \in Functor, Once(s),
           \A y \in Of(s) : y[2] # x[2]
    PROVE  Once(Append(s, x)) /\ Of(Append(s, x)) = Of(s) \cup {x}
<1> DEFINE t == Append(s, x)
<1>1. /\ Len(s) \in Nat /\ Len(t) = Len(s) + 1
      /\ \A i \in 1..Len(s) : t[i] = s[i]
      /\ t[Len(s) + 1] = x
  BY AppendProperties, LenProperties
<1> HIDE DEF t
<1>2. \A i \in 1..Len(t) : i \in 1..Len(s) \/ i = Len(s) + 1
  BY <1>1
<1>3. \A i \in 1..Len(s) : i \in 1..Len(t) /\ t[i][2] # x[2]
  BY <1>1 DEF Of
<1>4. Len(s) + 1 \in 1..Len(t)
  BY <1>1
<1>5. Once(t)
  <2>1. ASSUME NEW i \in 1..Len(t), NEW j \in 1..Len(t), t[i][2] = t[j][2] PROVE i = j
    <3>1. CASE i \in 1..Len(s) /\ j \in 1..Len(s)
      BY <1>1, <2>1, <3>1 DEF Once
    <3>2. CASE i = Len(s) + 1 /\ j \in 1..Len(s)
      BY <1>1, <1>3, <2>1, <3>2
    <3>3. CASE i \in 1..Len(s) /\ j = Len(s) + 1
      BY <1>1, <1>3, <2>1, <3>3
    <3>4. QED
      BY <1>2, <3>1, <3>2, <3>3
  <2>2. QED
    BY <2>1 DEF Once
<1>6. Of(t) = Of(s) \cup {x}
  BY <1>1, <1>2, <1>3, <1>4 DEF Of
<1>7. QED
  BY <1>5, <1>6 DEF t

LEMMA EmptyOnce == Once(<<>>) /\ Of(<<>>) = {}
BY DEF Once, Of

LEMMA OfFunctors ==
    ASSUME NEW b \in Queues, NEW l \in Loop, NEW x \in Of(b[l])
    PROVE  x \in Functor /\ x = <<x[1], x[2]>> /\ x[1] \in Kind /\ x[2] \in Client
<1>1. b[l] \in Seq(Functor)
  BY DEF Queues
<1>2. PICK i \in 1..Len(b[l]) : x = b[l][i]
  BY DEF Of
<1>3. x \in Functor
  BY <1>1, <1>2, ElementOfSeq
<1>4. QED
  BY <1>3 DEF Functor, Kind

\* The functor at the front of a batch is taken: none of its client is left.
LEMMA RunEach ==
    ASSUME NEW b \in Queues, NEW p \in Queues, OneEach(b, p), NEW l \in Loop,
           NEW k, NEW c, NEW b1, IsRun(b, b1, l, k, c)
    PROVE  /\ b1 \in Queues /\ OneEach(b1, p) /\ Has(b, p, l, k, c)
           /\ k \in Kind /\ c \in Client
           /\ \A m \in Loop : \A j, d : Has(b1, p, m, j, d) <=> Has(b, p, m, j, d) /\ d # c
<1>1. b[l] \in Seq(Functor)
  BY DEF Queues
<1>2. /\ Once(Tail(b[l])) /\ <<k, c>> \in Of(b[l])
      /\ Of(Tail(b[l])) = {x \in Of(b[l]) : x[2] # c}
      /\ Tail(b[l]) \in Seq(Functor)
  BY <1>1, TailOnce, HeadTailProperties DEF OneEach, IsRun
<1>3. \A m \in Loop : b1[m] = IF m = l THEN Tail(b[l]) ELSE b[m]
  BY DEF Queues, IsRun
<1>4. b1 \in Queues
  BY <1>2 DEF Queues, IsRun
<1>5. \A m \in Loop : Of(b1[m]) = {x \in Of(b[m]) : x[2] # c}
  <2>1. ASSUME NEW m \in Loop, m # l PROVE \A x \in Of(b[m]) : x[2] # c
    BY <1>2, <2>1 DEF OneEach, Apart
  <2>2. QED
    BY <1>2, <1>3, <2>1
<1>6. \A m \in Loop : \A x \in Of(p[m]) : x[2] # c
  BY <1>2 DEF OneEach, Apart
<1>7. OneEach(b1, p)
  <2>1. \A m \in Loop : Once(b1[m])
    BY <1>2, <1>3 DEF OneEach
  <2>2. QED
    BY <1>5, <2>1 DEF OneEach, Apart
<1>8. \A m \in Loop : \A j, d : Has(b1, p, m, j, d) <=> Has(b, p, m, j, d) /\ d # c
  <2>1. ASSUME NEW m \in Loop, NEW j, NEW d
        PROVE  Has(b1, p, m, j, d) <=> Has(b, p, m, j, d) /\ d # c
    <3>1. <<j, d>>[2] = d
      OBVIOUS
    <3>2. QED
      BY <1>5, <1>6, <3>1 DEF Has
  <2>2. QED
    BY <2>1
<1>9. k \in Kind /\ c \in Client
  BY <1>2, OfFunctors
<1>10. QED
  BY <1>2, <1>4, <1>7, <1>8, <1>9 DEF Has

\* A functor is queued for a client that has none.
LEMMA QueueEach ==
    ASSUME NEW b \in Queues, NEW p \in Queues, OneEach(b, p), NEW l \in Loop,
           NEW k \in Kind, NEW c \in Client,
           NoneOf(b, p, c), NEW p1, IsQueued(p, p1, l, k, c)
    PROVE  /\ p1 \in Queues /\ OneEach(b, p1)
           /\ \A m \in Loop : \A j, d : Has(b, p1, m, j, d) <=>
                 Has(b, p, m, j, d) \/ (m = l /\ j = k /\ d = c)
<1>1. p[l] \in Seq(Functor) /\ <<k, c>> \in Functor /\ <<k, c>>[2] = c
  BY DEF Queues, Functor, Kind
<1>2. ASSUME NEW m \in Loop
      PROVE  \A x \in Of(b[m]) \cup Of(p[m]) : x[2] # c
  <2>1. ASSUME NEW x \in Of(b[m]) \cup Of(p[m]) PROVE x[2] # c
    <3>1. x = <<x[1], x[2]>> /\ x[1] \in Kind
      BY OfFunctors
    <3>2. Has(b, p, m, x[1], x[2])
      BY <3>1 DEF Has
    <3>3. QED
      BY <3>1, <3>2 DEF NoneOf
  <2>2. QED
    BY <2>1
<1>3. /\ Once(Append(p[l], <<k, c>>)) /\ Append(p[l], <<k, c>>) \in Seq(Functor)
      /\ Of(Append(p[l], <<k, c>>)) = Of(p[l]) \cup {<<k, c>>}
  <2>1. Once(p[l]) /\ \A y \in Of(p[l]) : y[2] # <<k, c>>[2]
    BY <1>1, <1>2 DEF OneEach
  <2>2. QED
    BY <1>1, <2>1, AppendOnce, AppendProperties
<1>4. \A m \in Loop : p1[m] = IF m = l THEN Append(p[l], <<k, c>>) ELSE p[m]
  BY DEF Queues, IsQueued
<1>5. p1 \in Queues
  BY <1>3 DEF Queues, IsQueued
<1>6. \A m \in Loop : Of(p1[m]) = Of(p[m]) \cup {x \in {<<k, c>>} : m = l}
  BY <1>3, <1>4
<1>7. OneEach(b, p1)
  <2>1. \A m \in Loop : Once(p1[m])
    BY <1>3, <1>4 DEF OneEach
  <2>2. \A m, n \in Loop : Apart(b[m], p1[n])
    BY <1>1, <1>2, <1>6 DEF OneEach, Apart
  <2>3. \A m, n \in Loop : m # n => Apart(p1[m], p1[n])
    BY <1>1, <1>2, <1>6 DEF OneEach, Apart
  <2>4. QED
    BY <2>1, <2>2, <2>3 DEF OneEach
<1>8. ASSUME NEW m \in Loop, NEW j, NEW d
      PROVE  Has(b, p1, m, j, d) <=> Has(b, p, m, j, d) \/ (m = l /\ j = k /\ d = c)
  BY <1>6 DEF Has
<1>9. QED
  BY <1>5, <1>7, <1>8

\* The pending functors become the batch.
LEMMA TakeEach ==
    ASSUME NEW b \in Queues, NEW p \in Queues, OneEach(b, p), NEW l \in Loop,
           NEW b1, NEW p1, IsTaken(b, b1, p, p1, l)
    PROVE  /\ b1 \in Queues /\ p1 \in Queues /\ OneEach(b1, p1)
           /\ \A m \in Loop : \A j, d : Has(b1, p1, m, j, d) <=> Has(b, p, m, j, d)
<1>1. Once(<<>>) /\ Of(<<>>) = {}
  BY EmptyOnce
<1>2. /\ \A m \in Loop : b1[m] = IF m = l THEN p[l] ELSE b[m]
      /\ \A m \in Loop : p1[m] = IF m = l THEN <<>> ELSE p[m]
  BY DEF Queues, IsTaken
<1>3. b1 \in Queues /\ p1 \in Queues
  <2>1. <<>> \in Seq(Functor) /\ p[l] \in Seq(Functor)
    BY EmptySeq DEF Queues
  <2>2. QED
    BY <2>1 DEF Queues, IsTaken
<1>4. OneEach(b1, p1)
  <2>1. \A m \in Loop : Once(b1[m]) /\ Once(p1[m])
    BY <1>1, <1>2 DEF IsTaken, OneEach
  <2>2. \A m, n \in Loop : Apart(b1[m], p1[n])
    BY <1>1, <1>2 DEF IsTaken, OneEach, Apart
  <2>3. \A m, n \in Loop : m # n => Apart(b1[m], b1[n]) /\ Apart(p1[m], p1[n])
    BY <1>1, <1>2 DEF IsTaken, OneEach, Apart
  <2>4. QED
    BY <2>1, <2>2, <2>3 DEF OneEach
<1>5. ASSUME NEW m \in Loop, NEW j, NEW d
      PROVE  Has(b1, p1, m, j, d) <=> Has(b, p, m, j, d)
  BY <1>1, <1>2 DEF IsTaken, Has
<1>6. QED
  BY <1>3, <1>4, <1>5

\* A queued functor is one that refers to its client.
LEMMA QueuedIsHas ==
    ASSUME NEW b \in Queues, NEW p \in Queues, NEW l \in Loop, NEW c
    PROVE  Queued(p[l], c) \/ Queued(b[l], c) <=> \E k \in Kind : Has(b, p, l, k, c)
<1>1. ASSUME NEW q \in Queues
      PROVE  Queued(q[l], c) <=> \E k \in Kind : <<k, c>> \in Of(q[l])
  <2>1. ASSUME Queued(q[l], c) PROVE \E k \in Kind : <<k, c>> \in Of(q[l])
    <3>1. PICK i \in 1..Len(q[l]) : q[l][i][2] = c
      BY <2>1 DEF Queued
    <3>2. q[l][i] \in Of(q[l])
      BY DEF Of
    <3>3. q[l][i] = <<q[l][i][1], q[l][i][2]>> /\ q[l][i][1] \in Kind
      BY <3>2, OfFunctors
    <3>4. QED
      BY <3>1, <3>2, <3>3
  <2>2. ASSUME NEW k \in Kind, <<k, c>> \in Of(q[l]) PROVE Queued(q[l], c)
    BY <2>2 DEF Queued, Keeps, Of
  <2>3. QED
    BY <2>1, <2>2
<1>2. QED
  BY <1>1 DEF Has

-----------------------------------------------------------------------------
(* The invariant.                                                          *)

RestTypes ==
    /\ peer \in [Client -> {"new", "connected", "closed"}]
    /\ unread \subseteq Client
    /\ fd \in [Channel -> Fd \cup {NoFd, ListenFd}]
    /\ nextLoop \in 1..NumThreads /\ loopOf \in [Channel -> Loop]
    /\ state \in [Client -> {"none", "connecting", "connected", "disconnected"}]
    /\ channelmap \in [Loop -> [Fd \cup {ListenFd} -> Channel \cup {None}]]
    /\ connections \subseteq Client /\ held \subseteq Client
    /\ borrowed \subseteq Client
    /\ phase \in [Loop -> {"polling", "handling", "running"}]
    /\ room \in [Loop -> Nat \ {0}]
    /\ ran \in [Loop -> SUBSET Client]
    /\ fatal \in BOOLEAN

\* The functor of kind k for c waits for loop l, or for its turn there.
Task(l, k, c) == Has(batch, pending, l, k, c)

\* A functor meets its connection in the state, and in the loop, that it is for.
TasksFit ==
    \A l \in Loop, c \in Client :
        /\ Task(l, "connectEstablished", c) => state[c] = "connecting" /\ loopOf[c] = l
        /\ Task(l, "removeConnectionInLoop", c) => state[c] = "disconnected" /\ l = Main
        /\ Task(l, "connectDestroyed", c) => state[c] = "disconnected" /\ loopOf[c] = l

\* The server keeps a connection until connectDestroyed is queued, and that
\* keeps it until its channel is removed.
Kept(c) == c \in connections \/ Task(loopOf[c], "connectDestroyed", c)
Lives(c) ==
    /\ index[c] # "new" => state[c] \in {"connected", "disconnected"} /\ Kept(c)
    /\ index[c] = "added" <=> state[c] = "connected"
    /\ state[c] = "connected" => "read" \in events[c]
    /\ state[c] \in {"connecting", "connected"} => c \in connections
AllLive == \A c \in Client : Lives(c)

\* The maps of the pollers hold channels under the descriptor they have.
Mapped ==
    \A l \in Loop, f \in Fd : channelmap[l][f] # None =>
        /\ channelmap[l][f] \in Client /\ index[channelmap[l][f]] # "new"
        /\ fd[channelmap[l][f]] = f /\ loopOf[channelmap[l][f]] = l

\* A loop that handles events handles those of connections that are its own,
\* and up.
ActiveLive ==
    \A l \in Loop : \A a \in active[l] :
        /\ phase[l] = "handling"
        /\ a[1] \in Client => loopOf[a[1]] = l /\ state[a[1]] = "connected"
        /\ \A b \in active[l] : a[1] = b[1] => a = b

\* Whoever waits for accept has not been accepted, and waits once.
Waiting ==
    /\ \A i, j \in 1..Len(backlog) : backlog[i] = backlog[j] => i = j
    /\ \A i \in 1..Len(backlog) : state[backlog[i]] = "none" /\ peer[backlog[i]] # "new"
    /\ \A c \in Client : peer[c] = "new" => state[c] = "none"

\* A connection that somebody holds has a descriptor.
Opened ==
    /\ fd[Listener] = ListenFd
    /\ \A c \in Client : Referenced(c) => fd[c] # NoFd

BatchesEnd == \A l \in Loop : phase[l] # "running" => batch[l] = <<>>

HolderInv ==
    /\ ServerInv /\ RestTypes /\ OneEach(batch, pending)
    /\ TasksFit /\ AllLive /\ Mapped /\ ActiveLive /\ Waiting /\ Opened /\ BatchesEnd

LEMMA ServerFacts ==
    /\ Main \in Loop /\ 1..NumThreads \subseteq Loop /\ Main \notin 1..NumThreads
    /\ Client \subseteq Channel /\ Listener \in Channel /\ Listener \notin Client
    /\ NoFd \notin Fd /\ ListenFd \notin Fd /\ ListenFd # NoFd
    /\ None \notin Channel /\ Busy \subseteq Client
    /\ Kind = {"connectEstablished", "removeConnectionInLoop", "connectDestroyed"}
<1>1. NumThreads \in Nat \ {0} /\ MaxFds \in Nat
  BY ServerAssumption DEF ServerAssumption
<1>2. /\ Main \in Loop /\ 1..NumThreads \subseteq Loop /\ Main \notin 1..NumThreads
      /\ NoFd \notin Fd /\ ListenFd \notin Fd /\ ListenFd # NoFd
  BY <1>1 DEF Main, Loop, NoFd, Fd, ListenFd
<1>3. QED
  BY <1>2, ServerAssumption DEF ServerAssumption, Channel, Kind

LEMMA QueuesType == FunctorsOK => batch \in Queues /\ pending \in Queues
BY DEF FunctorsOK, Queues

\* What refers to a connection.
LEMMA ReferencedIs ==
    ASSUME FunctorsOK, NEW c
    PROVE  Referenced(c) <=>
              \/ c \in connections \cup held \cup borrowed
              \/ \E l \in Loop : c \in ran[l] \/ \E k \in Kind : Task(l, k, c)
<1>1. \A l \in Loop : Queued(pending[l], c) \/ Queued(batch[l], c)
                         <=> \E k \in Kind : Task(l, k, c)
  BY QueuesType, QueuedIsHas DEF Task
<1>2. QED
  BY <1>1 DEF Referenced

LEMMA HolderInit == ServerInit => HolderInv
<1> SUFFICES ASSUME ServerInit PROVE HolderInv
  OBVIOUS
<1> USE DEF ServerInit
<1>1. ServerInv
  BY ServerInvInit
<1>2. RestTypes
  <2>1. NumThreads \in Nat \ {0} /\ InitEvents \in Nat \ {0} /\ 1 \in 1..NumThreads
    BY ServerAssumption DEF ServerAssumption
  <2>2. QED
    BY <2>1, ServerFacts DEF RestTypes
<1>3. \A l \in Loop : batch[l] = <<>> /\ pending[l] = <<>>
  OBVIOUS
<1>4. OneEach(batch, pending) /\ \A l \in Loop : \A k, c : ~Task(l, k, c)
  BY <1>3, EmptyOnce DEF OneEach, Apart, Task, Has
<1>5. TasksFit /\ AllLive
  BY <1>4, ServerFacts DEF TasksFit, AllLive, Lives
<1>6. Mapped /\ ActiveLive /\ BatchesEnd
  BY DEF Mapped, ActiveLive, BatchesEnd
<1>7. Waiting
  <2>1. Len(<<>>) = 0
    BY EmptySeq
  <2>2. QED
    BY <2>1 DEF Waiting
<1>8. Opened
  <2>1. \A c \in Client : ~Referenced(c)
    BY <1>1, <1>4, ReferencedIs DEF ServerInv
  <2>2. QED
    BY <2>1, ServerFacts DEF Opened
<1>9. QED
  BY <1>1, <1>2, <1>4, <1>5, <1>6, <1>7, <1>8 DEF HolderInv

\* The invariant is what is wanted.
LEMMA NothingDanglesThen == HolderInv => NothingDangles
<1> SUFFICES ASSUME HolderInv PROVE NothingDangles
  OBVIOUS
<1>1. FunctorsOK /\ \A l \in Loop : active[l] \subseteq Channel \X EventSet
  BY DEF HolderInv, ServerInv, AcceptOK
<1>2. \A c \in Client : Referenced(c) => fd[c] # NoFd
  BY DEF HolderInv, Opened
<1>3. fd[Listener] # NoFd
  BY ServerFacts DEF HolderInv, Opened
<1>4. \A c \in Client : index[c] # "new" \/ c \in connections => fd[c] # NoFd
  <2>1. ASSUME NEW c \in Client, index[c] # "new" \/ c \in connections
        PROVE  Referenced(c)
    <3>1. Kept(c)
      BY <2>1 DEF HolderInv, AllLive, Lives, Kept
    <3>2. loopOf[c] \in Loop /\ "connectDestroyed" \in Kind
      BY ServerFacts DEF HolderInv, RestTypes
    <3>3. QED
      BY <1>1, <3>1, <3>2, ReferencedIs DEF Kept
  <2>2. QED
    BY <1>2, <2>1
<1>5. \A ch \in Channel : watch[ch] # Unwatched => fd[ch] # NoFd
  <2>1. \A ch \in Channel : watch[ch] # Unwatched => index[ch] = "added"
    BY DEF HolderInv, ServerInv, PollerOK, PollerAgrees
  <2>2. QED
    BY <1>3, <1>4, <2>1 DEF Channel
<1>6. \A l \in Loop, f \in Fd : channelmap[l][f] # None =>
          fd[channelmap[l][f]] = f /\ loopOf[channelmap[l][f]] = l
  BY DEF HolderInv, Mapped
<1>7. \A l \in Loop : \A a \in active[l] : fd[a[1]] # NoFd
  <2>1. ASSUME NEW l \in Loop, NEW a \in active[l] PROVE fd[a[1]] # NoFd
    <3>1. a[1] \in Channel
      BY <1>1
    <3>2. CASE a[1] \in Client
      <4>1. state[a[1]] = "connected"
        BY <3>2 DEF HolderInv, ActiveLive
      <4>2. a[1] \in connections
        BY <3>2, <4>1 DEF HolderInv, AllLive, Lives
      <4>3. QED
        BY <1>4, <3>2, <4>2
    <3>3. QED
      BY <1>3, <3>1, <3>2 DEF Channel
  <2>2. QED
    BY <2>1
<1>8. ASSUME NEW l \in Loop, NEW q \in {pending, batch}, NEW i \in 1..Len(q[l])
      PROVE  fd[q[l][i][2]] # NoFd
  <2>1. q \in Queues
    BY <1>1, QueuesType
  <2>2. q[l][i] \in Of(q[l])
    BY DEF Of
  <2>3. q[l][i][2] \in Client
    BY <2>1, <2>2, OfFunctors
  <2>4. Queued(q[l], q[l][i][2])
    BY DEF Queued, Keeps
  <2>5. Referenced(q[l][i][2])
    BY <2>4 DEF Referenced
  <2>6. QED
    BY <1>2, <2>3, <2>5
<1>9. QED
  BY <1>5, <1>6, <1>7, <1>8 DEF NothingDangles

LEMMA TaskNext ==
    ASSUME NEW l, NEW k, NEW c
    PROVE  Task(l, k, c)' <=> Has(batch', pending', l, k, c)
BY DEF Task, Has, Of

LEMMA ReferencedNext ==
    ASSUME FunctorsOK', NEW c
    PROVE  Referenced(c)' <=>
              \/ c \in connections' \cup held' \cup borrowed'
              \/ \E l \in Loop : c \in ran'[l] \/ \E k \in Kind : Task(l, k, c)'
<1>1. batch' \in Queues /\ pending' \in Queues
  BY DEF FunctorsOK, Queues
<1>2. \A l \in Loop : Queued(pending[l], c)' \/ Queued(batch[l], c)'
                         <=> \E k \in Kind : Task(l, k, c)'
  <2>1. \A l \in Loop : Queued(pending'[l], c) \/ Queued(batch'[l], c)
                         <=> \E k \in Kind : Has(batch', pending', l, k, c)
    BY <1>1, QueuedIsHas
  <2>2. QED
    BY <2>1, TaskNext DEF Queued, Keeps
<1>3. QED
  BY <1>2 DEF Referenced

\* A connection without functors.
LEMMA NoTasks ==
    ASSUME HolderInv, NEW c \in Client, state[c] \in {"none", "connected"}
    PROVE  NoneOf(batch, pending, c)
BY ServerFacts DEF HolderInv, TasksFit, Task, NoneOf

(* What a step leaves alone.                                               *)

LEMMA SameTasks ==
    ASSUME HolderInv, UNCHANGED <<batch, pending, state, loopOf>>
    PROVE  OneEach(batch, pending)' /\ TasksFit' /\ \A l, k, c : Task(l, k, c)' <=> Task(l, k, c)
<1>1. \A l, k, c : Task(l, k, c)' <=> Task(l, k, c)
  BY TaskNext DEF Task
<1>2. OneEach(batch, pending)'
  BY DEF HolderInv, OneEach, Apart, Once, Of
<1>3. TasksFit'
  BY <1>1 DEF HolderInv, TasksFit
<1>4. QED
  BY <1>1, <1>2, <1>3

LEMMA SameLives ==
    ASSUME HolderInv, UNCHANGED <<index, events, state, connections, loopOf>>,
           \A l, k, c : Task(l, k, c)' <=> Task(l, k, c)
    PROVE  AllLive'
<1>1. ASSUME NEW c \in Client PROVE Lives(c)'
  <2>1. Lives(c)
    BY DEF HolderInv, AllLive
  <2>2. Kept(c)' <=> Kept(c)
    BY DEF Kept
  <2>3. QED
    BY <2>1, <2>2 DEF Lives
<1>2. QED
  BY <1>1 DEF AllLive

LEMMA SameMapped ==
    ASSUME HolderInv, channelmap' = channelmap,
           \A c \in Client : index[c] # "new" =>
               index'[c] # "new" /\ fd'[c] = fd[c] /\ loopOf'[c] = loopOf[c]
    PROVE  Mapped'
<1>1. ASSUME NEW l \in Loop, NEW f \in Fd, channelmap[l][f] # None
      PROVE  /\ channelmap[l][f] \in Client /\ index'[channelmap[l][f]] # "new"
             /\ fd'[channelmap[l][f]] = f /\ loopOf'[channelmap[l][f]] = l
  BY <1>1 DEF HolderInv, Mapped
<1>2. QED
  BY <1>1 DEF Mapped

\* What is active only goes.
LEMMA SameActive ==
    ASSUME HolderInv, phase' = phase, \A l \in Loop : active'[l] \subseteq active[l],
           \A l \in Loop : \A a \in active'[l] :
              a[1] \in Client => /\ loopOf'[a[1]] = loopOf[a[1]]
                                 /\ state'[a[1]] = state[a[1]]
    PROVE  ActiveLive'
BY DEF HolderInv, ActiveLive

LEMMA SameWaiting ==
    ASSUME HolderInv, UNCHANGED <<peer, backlog>>,
           \A c \in Client : state[c] = "none" => state'[c] = "none"
    PROVE  Waiting'
<1>1. \A i \in 1..Len(backlog) : backlog[i] \in Client
  <2>1. backlog \in Seq(Client)
    BY DEF HolderInv, ServerInv, AcceptOK
  <2>2. QED
    BY <2>1, ElementOfSeq
<1>2. QED
  BY <1>1 DEF HolderInv, Waiting

LEMMA SameOpened ==
    ASSUME HolderInv, fd' = fd, \A c \in Client : Referenced(c)' => Referenced(c)
    PROVE  Opened'
BY DEF HolderInv, Opened

LEMMA DescriptorsDo ==
    ASSUME NEW given \in [Channel -> Fd \cup {NoFd, ListenFd}], Descriptors(given)
    PROVE  /\ fd' \in [Channel -> Fd \cup {NoFd, ListenFd}]
           /\ \A ch \in Channel :
                 fd'[ch] = IF ch \in Client /\ ~Referenced(ch)' THEN NoFd ELSE given[ch]
<1>1. fd' = [ch \in Channel |->
                IF ch \in Client /\ ~Referenced(ch)' THEN NoFd ELSE given[ch]]
  BY DEF Descriptors
<1>2. QED
  BY <1>1

LEMMA OpenedStep ==
    ASSUME NEW given \in [Channel -> Fd \cup {NoFd, ListenFd}], Descriptors(given),
           given[Listener] = ListenFd,
           \A c \in Client : Referenced(c)' => given[c] # NoFd
    PROVE  Opened'
BY DescriptorsDo, ServerFacts DEF Opened

\* While a channel is known to its poller its descriptor is not given back.
LEMMA FdKept ==
    ASSUME FunctorsOK', AllLive', loopOf' \in [Channel -> Loop],
           NEW given \in [Channel -> Fd \cup {NoFd, ListenFd}], Descriptors(given),
           NEW c \in Client, index'[c] # "new"
    PROVE  fd'[c] = given[c]
<1>1. Kept(c)'
  BY DEF AllLive, Lives
<1>2. loopOf'[c] \in Loop /\ "connectDestroyed" \in Kind /\ c \in Channel
  BY ServerFacts
<1>3. Referenced(c)'
  BY <1>1, <1>2, ReferencedNext DEF Kept
<1>4. QED
  BY <1>2, <1>3, DescriptorsDo

\* The parts put together.
LEMMA HolderNext ==
    ASSUME ServerInv', RestTypes', OneEach(batch, pending)', TasksFit', AllLive',
           Mapped', ActiveLive', Waiting', Opened', BatchesEnd'
    PROVE  HolderInv'
BY DEF HolderInv

(* The steps, and the parts.                                               *)

LEMMA HolderPoll ==
    ASSUME HolderInv, NEW l \in Loop, poll(l)
    PROVE  HolderInv'
<1>1. ServerInv'
  BY PollStep DEF HolderInv
<1>2. /\ UNCHANGED <<clientVars, fd, nextLoop, loopOf, state, pollerVars, holderVars>>
      /\ phase[l] = "polling" /\ phase' = [phase EXCEPT ![l] = "handling"]
      /\ room' = [room EXCEPT ![l] = room[l]] \/ room' = [room EXCEPT ![l] = 2 * room[l]]
  BY DEF poll, Resized
<1>3. UNCHANGED <<peer, backlog, unread, fd, nextLoop, loopOf, state, events, index, watch,
                  channelmap, fatal, connections, held, borrowed, pending, batch, ran>>
  BY <1>2 DEF clientVars, pollerVars, holderVars
<1>4. RestTypes'
  <2>1. room \in [Loop -> Nat \ {0}] /\ phase \in [Loop -> {"polling", "handling", "running"}]
    BY DEF HolderInv, RestTypes
  <2>2. room' \in [Loop -> Nat \ {0}] /\ phase' \in [Loop -> {"polling", "handling", "running"}]
    BY <1>2, <2>1
  <2>3. QED
    BY <1>3, <2>2 DEF HolderInv, RestTypes
<1>5. OneEach(batch, pending)' /\ TasksFit' /\ \A m, k, c : Task(m, k, c)' <=> Task(m, k, c)
  BY <1>3, SameTasks
<1>6. AllLive'
  BY <1>3, <1>5, SameLives
<1>7. Mapped'
  BY <1>3, SameMapped
<1>8. Waiting' /\ Opened'
  <2>1. \A c \in Client : Referenced(c)' => Referenced(c)
    BY <1>3 DEF Referenced
  <2>2. QED
    BY <1>3, <2>1, SameWaiting, SameOpened
<1>9. BatchesEnd'
  <2>1. phase \in [Loop -> {"polling", "handling", "running"}]
    BY DEF HolderInv, RestTypes
  <2>2. QED
    BY <1>2, <1>3, <2>1 DEF HolderInv, BatchesEnd
<1>10. ActiveLive'
  <2>1. active \in [Loop -> SUBSET (Channel \X EventSet)]
    BY DEF HolderInv, ServerInv, AcceptOK
  <2>2. PICK found :
           /\ found \subseteq {ch \in Channel : loopOf[ch] = l /\ watch[ch] # Unwatched}
           /\ \A m \in Loop \ {l} : active'[m] = active[m]
           /\ \A a \in active'[l] : a[1] \in found
           /\ \A a, b \in active'[l] : a[1] = b[1] => a = b
    <3>1. PICK writable \in SUBSET Asked(l, "write") :
            LET readable == {ch \in Asked(l, "read") : HasInput(ch)}
            IN  \E found \in SUBSET (readable \cup writable) :
                   active' = [active EXCEPT ![l] =
                      {<<ch, {"read" : d \in readable \cap {ch}}
                                \cup {"write" : d \in writable \cap {ch}}>> :
                          ch \in found}]
      BY DEF poll
    <3> DEFINE readable == {ch \in Asked(l, "read") : HasInput(ch)}
               revents(ch) == {"read" : d \in readable \cap {ch}}
                                 \cup {"write" : d \in writable \cap {ch}}
    <3>2. PICK found \in SUBSET (readable \cup writable) :
             active' = [active EXCEPT ![l] = {<<ch, revents(ch)>> : ch \in found}]
      BY <3>1
    <3>3. found \subseteq {ch \in Channel : loopOf[ch] = l /\ watch[ch] # Unwatched}
      BY <3>2 DEF Asked, Unwatched
    <3> HIDE DEF revents, readable
    <3>4. /\ active'[l] = {<<ch, revents(ch)>> : ch \in found}
          /\ \A m \in Loop \ {l} : active'[m] = active[m]
      BY <2>1, <3>2
    <3>5. \A a \in active'[l] : a[1] \in found /\ a = <<a[1], revents(a[1])>>
      BY <3>4
    <3>6. \A a, b \in active'[l] : a[1] = b[1] => a = b
      <4>1. ASSUME NEW a \in active'[l], NEW b \in active'[l], a[1] = b[1]
            PROVE  a = b
        <5>1. <<a[1], revents(a[1])>> = <<b[1], revents(b[1])>>
          BY <4>1
        <5>2. QED
          BY <3>5, <5>1
      <4>2. QED
        BY <4>1
    <3>7. QED
      BY <3>3, <3>4, <3>5, <3>6
  <2>3. /\ phase'[l] = "handling" /\ \A m \in Loop \ {l} : phase'[m] = phase[m]
    BY <1>2 DEF HolderInv, RestTypes
  <2>4. ASSUME NEW c \in Client, c \in found
        PROVE  loopOf[c] = l /\ state[c] = "connected"
    <3>1. c \in Channel /\ watch[c] # Unwatched /\ loopOf[c] = l
      BY <2>2, <2>4
    <3>2. index[c] = "added"
      BY <3>1 DEF HolderInv, ServerInv, PollerOK, PollerAgrees
    <3>3. QED
      BY <3>1, <3>2 DEF HolderInv, AllLive, Lives
  <2>5. QED
    BY <1>3, <2>2, <2>3, <2>4 DEF HolderInv, ActiveLive
<1>11. QED
  BY <1>1, <1>4, <1>5, <1>6, <1>7, <1>8, <1>9, <1>10, HolderNext

\* An event of a client is handled: the client is up, and has no other.
LEMMA HandlesDoes ==
    ASSUME HolderInv, NEW l \in Loop, NEW c \in Client, NEW revents, Handles(l, c, revents)
    PROVE  /\ state[c] = "connected" /\ loopOf[c] = l /\ index[c] = "added"
           /\ c \in connections /\ "read" \in events[c]
           /\ \A m \in Loop : active'[m] \subseteq active[m]
           /\ \A m \in Loop : \A a \in active'[m] : a[1] # c
           /\ phase' = phase /\ room' = room
<1>1. /\ <<c, revents>> \in active[l] /\ active \in [Loop -> SUBSET (Channel \X EventSet)]
      /\ active' = [active EXCEPT ![l] = active[l] \ {<<c, revents>>}]
      /\ phase' = phase /\ room' = room
  BY DEF HolderInv, ServerInv, AcceptOK, Handles
<1>2. /\ state[c] = "connected" /\ loopOf[c] = l
      /\ \A a \in active[l] : a[1] = c => a = <<c, revents>>
  BY <1>1 DEF HolderInv, ActiveLive
<1>3. index[c] = "added" /\ c \in connections /\ "read" \in events[c]
  BY <1>2 DEF HolderInv, AllLive, Lives
<1>4. \A m \in Loop : active'[m] = IF m = l THEN active[l] \ {<<c, revents>>} ELSE active[m]
  BY <1>1
<1>5. \A m \in Loop : \A a \in active[m] : a[1] = c => m = l
  BY <1>2 DEF HolderInv, ActiveLive
<1>6. QED
  BY <1>1, <1>2, <1>3, <1>4, <1>5

LEMMA HolderReadWrite ==
    ASSUME HolderInv, NEW l \in Loop, NEW c \in Client, NEW revents,
           handleReadWrite(l, c, revents)
    PROVE  HolderInv'
<1>1. ServerInv'
  BY HandleReadWriteStep DEF HolderInv
<1>2. Handles(l, c, revents) /\ unread' \subseteq unread
      /\ UNCHANGED <<peer, backlog, fd, nextLoop, loopOf, state, holderVars>>
  BY DEF handleReadWrite
<1>3. UNCHANGED <<connections, held, borrowed, pending, batch, ran>>
  BY <1>2 DEF holderVars
<1>4. /\ state[c] = "connected" /\ index[c] = "added" /\ "read" \in events[c]
      /\ \A m \in Loop : active'[m] \subseteq active[m]
      /\ phase' = phase /\ room' = room
  BY <1>2, HandlesDoes
<1>5. /\ index' = index /\ channelmap' = channelmap /\ fatal' \in BOOLEAN
      /\ events' = events \/ \E wanted : "read" \in wanted
                                           /\ events' = [events EXCEPT ![c] = wanted]
  <2>1. fatal \in BOOLEAN
    BY DEF HolderInv, RestTypes
  <2>2. CASE UNCHANGED pollerVars
    BY <2>1, <2>2 DEF pollerVars
  <2>3. ASSUME NEW wanted, "read" \in wanted, updateChannel(c, wanted)
        PROVE  /\ index' = index /\ channelmap' = channelmap /\ fatal' \in BOOLEAN
               /\ events' = [events EXCEPT ![c] = wanted]
    BY <1>4, <2>1, <2>3 DEF updateChannel, update
  <2>4. CASE EnableWriting(c)
    <3>1. "read" \in events[c] \cup {"write"}
      BY <1>4
    <3>2. QED
      BY <2>3, <2>4, <3>1 DEF EnableWriting
  <2>5. CASE DisableWriting(c)
    <3>1. "read" \in events[c] \ {"write"}
      BY <1>4
    <3>2. QED
      BY <2>3, <2>5, <3>1 DEF DisableWriting
  <2>6. QED
    BY <2>2, <2>4, <2>5 DEF handleReadWrite
<1>6. RestTypes'
  BY <1>2, <1>3, <1>4, <1>5 DEF HolderInv, RestTypes
<1>7. OneEach(batch, pending)' /\ TasksFit' /\ \A m, k, d : Task(m, k, d)' <=> Task(m, k, d)
  BY <1>2, <1>3, SameTasks
<1>8. AllLive'
  <2>1. ASSUME NEW d \in Client PROVE Lives(d)'
    <3>1. Lives(d)
      BY DEF HolderInv, AllLive
    <3>2. Kept(d)' <=> Kept(d)
      BY <1>2, <1>3, <1>7 DEF Kept
    <3>3. "read" \in events[d] => "read" \in events'[d]
      <4>1. events \in [Channel -> EventSet] /\ d \in Channel
        BY ServerFacts DEF HolderInv, ServerInv, PollerOK
      <4>2. QED
        BY <1>5, <4>1
    <3>4. QED
      BY <1>2, <1>3, <1>5, <3>1, <3>2, <3>3 DEF Lives
  <2>2. QED
    BY <2>1 DEF AllLive
<1>9. Mapped'
  BY <1>2, <1>5, SameMapped
<1>10. ActiveLive'
  BY <1>2, <1>4, SameActive
<1>11. Waiting' /\ Opened'
  <2>1. \A d \in Client : Referenced(d)' => Referenced(d)
    BY <1>3 DEF Referenced
  <2>2. QED
    BY <1>2, <2>1, SameWaiting, SameOpened
<1>12. BatchesEnd'
  BY <1>3, <1>4 DEF HolderInv, BatchesEnd
<1>13. QED
  BY <1>1, <1>6, <1>7, <1>8, <1>9, <1>10, <1>11, <1>12, HolderNext

LEMMA HolderClose ==
    ASSUME HolderInv, NEW l \in Loop, NEW c \in Client, NEW revents,
           handlerClose(l, c, revents)
    PROVE  HolderInv'
<1>1. ServerInv'
  BY HandlerCloseStep DEF HolderInv
<1>2. /\ Handles(l, c, revents) /\ updateChannel(c, {})
      /\ state' = [state EXCEPT ![c] = "disconnected"]
      /\ held' \subseteq held
      /\ queueInLoop(Main, "removeConnectionInLoop", c)
      /\ UNCHANGED <<clientVars, nextLoop, loopOf, connections, borrowed, batch, ran>>
      /\ Descriptors(fd)
  BY DEF handlerClose, DisableAll, LetsGo
<1>3. UNCHANGED <<peer, backlog, unread>>
  BY <1>2 DEF clientVars
<1>4. /\ state[c] = "connected" /\ index[c] = "added" /\ c \in connections
      /\ \A m \in Loop : active'[m] \subseteq active[m]
      /\ \A m \in Loop : \A a \in active'[m] : a[1] # c
      /\ phase' = phase /\ room' = room
  BY <1>2, HandlesDoes
<1>5. /\ index' = [index EXCEPT ![c] = "deleted"] /\ channelmap' = channelmap
      /\ fatal' = fatal /\ events' = [events EXCEPT ![c] = {}]
  BY <1>2, <1>4 DEF updateChannel
<1>6. /\ fd \in [Channel -> Fd \cup {NoFd, ListenFd}] /\ c \in Channel
      /\ index \in [Channel -> {"new", "added", "deleted"}]
      /\ events \in [Channel -> EventSet]
      /\ state \in [Client -> {"none", "connecting", "connected", "disconnected"}]
      /\ FunctorsOK /\ FunctorsOK' /\ loopOf' \in [Channel -> Loop]
  BY <1>1, <1>2, ServerFacts DEF HolderInv, RestTypes, ServerInv, PollerOK
<1>7. fd' \in [Channel -> Fd \cup {NoFd, ListenFd}]
  BY <1>2, <1>6, DescriptorsDo
<1>8. RestTypes'
  <2>1. state' \in [Client -> {"none", "connecting", "connected", "disconnected"}]
    BY <1>2, <1>6
  <2>2. QED
    BY <1>2, <1>3, <1>4, <1>5, <1>7, <2>1 DEF HolderInv, RestTypes
<1>9. /\ OneEach(batch, pending)'
      /\ \A m \in Loop : \A k, d : Task(m, k, d)' <=>
            Task(m, k, d) \/ (m = Main /\ k = "removeConnectionInLoop" /\ d = c)
  <2>1. /\ batch \in Queues /\ pending \in Queues /\ OneEach(batch, pending)
        /\ Main \in Loop /\ "removeConnectionInLoop" \in Kind
        /\ NoneOf(batch, pending, c)
    BY <1>4, <1>6, QueuesType, ServerFacts, NoTasks DEF HolderInv
  <2>2. PICK p1 : p1 = pending'
    OBVIOUS
  <2>3. IsQueued(pending, p1, Main, "removeConnectionInLoop", c)
    BY <1>2, <2>2 DEF queueInLoop, IsQueued
  <2>4. /\ OneEach(batch, p1)
        /\ \A m \in Loop : \A k, d : Has(batch, p1, m, k, d) <=>
              Has(batch, pending, m, k, d)
                 \/ (m = Main /\ k = "removeConnectionInLoop" /\ d = c)
    BY <2>1, <2>3, QueueEach
  <2>5. OneEach(batch', pending') /\ batch' = batch
    BY <1>2, <2>2, <2>4
  <2>6. OneEach(batch, pending)'
    BY <2>5 DEF OneEach, Apart, Once, Of
  <2>7. QED
    BY <2>2, <2>4, <2>5, <2>6, TaskNext DEF Task
<1>10. TasksFit'
  <2>1. ASSUME NEW m \in Loop, NEW d \in Client, NEW k \in Kind, Task(m, k, d)'
        PROVE  \/ d # c /\ Task(m, k, d)
               \/ d = c /\ k = "removeConnectionInLoop" /\ m = Main
    BY <1>4, <1>9, <2>1, NoTasks DEF Task, NoneOf
  <2>2. QED
    BY <1>2, <1>6, <2>1, ServerFacts DEF HolderInv, TasksFit
<1>11. AllLive'
  <2>1. ASSUME NEW d \in Client PROVE Lives(d)'
    <3>1. Lives(d) /\ loopOf[d] \in Loop
      BY ServerFacts DEF HolderInv, AllLive, RestTypes
    <3>2. Kept(d) => Kept(d)'
      BY <1>2, <1>9, <3>1 DEF Kept
    <3>3. CASE d = c
      <4>1. index'[d] = "deleted" /\ state'[d] = "disconnected" /\ d \in connections'
        BY <1>2, <1>4, <1>5, <1>6, <3>3
      <4>2. QED
        BY <4>1 DEF Lives, Kept
    <3>4. CASE d # c
      <4>1. index'[d] = index[d] /\ state'[d] = state[d] /\ events'[d] = events[d]
        BY <1>2, <1>5, <1>6, <3>4, ServerFacts
      <4>2. QED
        BY <1>2, <3>1, <3>2, <4>1 DEF Lives
    <3>5. QED
      BY <3>3, <3>4
  <2>2. QED
    BY <2>1 DEF AllLive
<1>12. Mapped'
  <2>1. ASSUME NEW d \in Client, index[d] # "new"
        PROVE  index'[d] # "new" /\ fd'[d] = fd[d] /\ loopOf'[d] = loopOf[d]
    <3>1. index'[d] # "new" /\ loopOf' = loopOf
      BY <1>2, <1>5, <1>6, <2>1, ServerFacts
    <3>2. QED
      BY <1>2, <1>6, <1>11, <3>1, FdKept
  <2>2. QED
    BY <1>5, <2>1, SameMapped
<1>13. ActiveLive'
  BY <1>2, <1>4, <1>6, SameActive
<1>14. Waiting'
  BY <1>2, <1>3, <1>4, <1>6, SameWaiting
<1>15. Opened'
  <2>1. ASSUME NEW d \in Client, Referenced(d)' PROVE Referenced(d)
    <3>1. c \in connections
      BY <1>4
    <3>2. \/ d \in connections \cup held \cup borrowed
          \/ \E m \in Loop : d \in ran[m] \/ \E k \in Kind : Task(m, k, d)'
      BY <1>2, <1>6, <2>1, ReferencedNext
    <3>3. QED
      BY <1>6, <1>9, <3>1, <3>2, ReferencedIs
  <2>2. QED
    BY <1>2, <1>6, <2>1, OpenedStep DEF HolderInv, Opened
<1>16. BatchesEnd'
  BY <1>2, <1>4 DEF HolderInv, BatchesEnd
<1>17. QED
  BY <1>1, <1>8, <1>9, <1>10, <1>11, <1>12, <1>13, <1>14, <1>15, <1>16, HolderNext

LEMMA HolderTake ==
    ASSUME HolderInv, NEW l \in Loop, TakeBatch(l)
    PROVE  HolderInv'
<1>1. ServerInv'
  BY TakeBatchStep DEF HolderInv
<1>2. /\ phase[l] = "handling" /\ active[l] = {}
      /\ phase' = [phase EXCEPT ![l] = IF pending[l] = <<>> THEN "polling" ELSE "running"]
      /\ batch' = [batch EXCEPT ![l] = pending[l]]
      /\ pending' = [pending EXCEPT ![l] = <<>>]
      /\ UNCHANGED <<clientVars, fd, nextLoop, loopOf, state, pollerVars, connections,
                     held, borrowed, ran, active, room>>
  BY DEF TakeBatch
<1>3. UNCHANGED <<peer, backlog, unread, events, index, channelmap, fatal>>
  BY <1>2 DEF clientVars, pollerVars
<1>4. /\ FunctorsOK /\ FunctorsOK' /\ batch \in Queues /\ pending \in Queues
      /\ OneEach(batch, pending)
      /\ phase \in [Loop -> {"polling", "handling", "running"}]
  BY <1>1, QueuesType DEF HolderInv, RestTypes, ServerInv
<1>5. RestTypes'
  <2>1. phase' \in [Loop -> {"polling", "handling", "running"}]
    BY <1>2, <1>4
  <2>2. QED
    BY <1>2, <1>3, <2>1 DEF HolderInv, RestTypes
<1>6. OneEach(batch, pending)' /\ \A m \in Loop : \A k, d : Task(m, k, d)' <=> Task(m, k, d)
  <2>1. batch[l] = <<>>
    BY <1>2 DEF HolderInv, BatchesEnd
  <2>2. PICK b1, p1 : b1 = batch' /\ p1 = pending'
    OBVIOUS
  <2>3. IsTaken(batch, b1, pending, p1, l)
    BY <1>2, <2>1, <2>2 DEF IsTaken
  <2>4. /\ OneEach(b1, p1)
        /\ \A m \in Loop : \A k, d : Has(b1, p1, m, k, d) <=> Has(batch, pending, m, k, d)
    BY <1>4, <2>3, TakeEach
  <2>5. OneEach(batch', pending')
    BY <2>2, <2>4
  <2>6. OneEach(batch, pending)'
    BY <2>5 DEF OneEach, Apart, Once, Of
  <2>7. QED
    BY <2>2, <2>4, <2>6, TaskNext DEF Task
<1>7. TasksFit'
  BY <1>2, <1>6 DEF HolderInv, TasksFit
<1>8. AllLive'
  <2>1. ASSUME NEW c \in Client PROVE Lives(c)'
    <3>1. Lives(c) /\ loopOf[c] \in Loop
      BY ServerFacts DEF HolderInv, AllLive, RestTypes
    <3>2. Kept(c)' <=> Kept(c)
      BY <1>2, <1>6, <3>1 DEF Kept
    <3>3. QED
      BY <1>2, <1>3, <3>1, <3>2 DEF Lives
  <2>2. QED
    BY <2>1 DEF AllLive
<1>9. Mapped'
  BY <1>2, <1>3, SameMapped
<1>10. ActiveLive'
  <2>1. \A m \in Loop : \A a \in active[m] : phase'[m] = phase[m]
    BY <1>2, <1>4
  <2>2. QED
    BY <1>2, <2>1 DEF HolderInv, ActiveLive
<1>11. Waiting' /\ Opened'
  <2>1. ASSUME NEW c \in Client, Referenced(c)' PROVE Referenced(c)
    BY <1>2, <1>4, <1>6, <2>1, ReferencedIs, ReferencedNext
  <2>2. QED
    BY <1>2, <1>3, <2>1, SameWaiting, SameOpened
<1>12. BatchesEnd'
  BY <1>2, <1>4 DEF HolderInv, BatchesEnd, Queues
<1>13. QED
  BY <1>1, <1>5, <1>6, <1>7, <1>8, <1>9, <1>10, <1>11, <1>12, HolderNext

\* Of what a loop does when it runs a functor, what they have in common.
LEMMA RunsDoes ==
    ASSUME HolderInv, NEW l \in Loop, NEW k, NEW c, Runs(l, k, c)
    PROVE  /\ c \in Client /\ k \in Kind /\ Task(l, k, c)
           /\ batch' \in Queues /\ OneEach(batch', pending)
           /\ \A m \in Loop : \A j, d :
                 Has(batch', pending, m, j, d) <=> Task(m, j, d) /\ d # c
           /\ ran' \in [Loop -> SUBSET Client]
           /\ \A m \in Loop : ran'[m] \subseteq ran[m] \cup {c}
           /\ UNCHANGED <<peer, backlog, unread, nextLoop, loopOf, borrowed, phase,
                          active, room>>
           /\ BatchesEnd'
<1>1. /\ phase[l] = "running" /\ batch[l] # <<>> /\ Head(batch[l]) = <<k, c>>
      /\ batch' = [batch EXCEPT ![l] = Tail(batch[l])]
      /\ ran' = [ran EXCEPT ![l] = ran[l] \cup {d \in {c} : Keeps(Head(batch[l]))}]
      /\ UNCHANGED <<peer, backlog, unread, nextLoop, loopOf, borrowed, phase,
                     active, room>>
  BY DEF Runs, clientVars, loopVars
<1>2. batch \in Queues /\ pending \in Queues /\ OneEach(batch, pending)
      /\ ran \in [Loop -> SUBSET Client]
  BY QueuesType DEF HolderInv, ServerInv, RestTypes
<1>3. PICK b1 : b1 = batch'
  OBVIOUS
<1>4. IsRun(batch, b1, l, k, c)
  BY <1>1, <1>3 DEF IsRun
<1>5. /\ b1 \in Queues /\ OneEach(b1, pending) /\ Has(batch, pending, l, k, c)
      /\ k \in Kind /\ c \in Client
      /\ \A m \in Loop : \A j, d :
            Has(b1, pending, m, j, d) <=> Has(batch, pending, m, j, d) /\ d # c
  BY <1>2, <1>4, RunEach
<1>6. /\ ran' \in [Loop -> SUBSET Client]
      /\ \A m \in Loop : ran'[m] \subseteq ran[m] \cup {c}
  <2>1. {d \in {c} : Keeps(Head(batch[l]))} = {c}
    BY DEF Keeps
  <2>2. ran' = [ran EXCEPT ![l] = ran[l] \cup {c}]
    BY <1>1, <2>1
  <2>3. QED
    BY <1>2, <1>5, <2>2
<1>7. BatchesEnd'
  <2>1. \A m \in Loop : phase[m] # "running" => m # l /\ batch'[m] = batch[m]
    BY <1>1, <1>2 DEF Queues
  <2>2. QED
    BY <1>1, <2>1 DEF HolderInv, BatchesEnd
<1>8. QED
  BY <1>1, <1>3, <1>5, <1>6, <1>7 DEF Task

\* The same, when nothing is queued meanwhile.
LEMMA RunsOnly ==
    ASSUME HolderInv, NEW l \in Loop, NEW k, NEW c, Runs(l, k, c), pending' = pending
    PROVE  /\ OneEach(batch, pending)'
           /\ \A m \in Loop : \A j, d : Task(m, j, d)' <=> Task(m, j, d) /\ d # c
<1>1. OneEach(batch', pending')
      /\ \A m \in Loop : \A j, d : Has(batch', pending', m, j, d) <=> Task(m, j, d) /\ d # c
  BY RunsDoes
<1>2. OneEach(batch, pending)'
  BY <1>1 DEF OneEach, Apart, Once, Of
<1>3. QED
  BY <1>1, <1>2, TaskNext

LEMMA HolderEstablished ==
    ASSUME HolderInv, NEW l \in Loop, NEW c, connectEstablished(l, c)
    PROVE  HolderInv'
<1>1. ServerInv'
  BY ConnectEstablishedStep DEF HolderInv
<1>2. /\ Runs(l, "connectEstablished", c)
      /\ state' = [state EXCEPT ![c] = "connected"]
      /\ updateChannel(c, events[c] \cup {"read"})
      /\ held' = held \cup {c}
      /\ connections' = connections /\ pending' = pending
      /\ Descriptors(fd)
  BY DEF connectEstablished, EnableReading
<1>3. /\ c \in Client /\ Task(l, "connectEstablished", c)
      /\ ran' \in [Loop -> SUBSET Client]
      /\ \A m \in Loop : ran'[m] \subseteq ran[m] \cup {c}
      /\ UNCHANGED <<peer, backlog, unread, nextLoop, loopOf, borrowed, phase,
                     active, room>>
      /\ BatchesEnd'
  BY <1>2, RunsDoes
<1>4. /\ state[c] = "connecting" /\ loopOf[c] = l /\ c \in connections
      /\ index[c] = "new"
  <2>1. state[c] = "connecting" /\ loopOf[c] = l
    BY <1>3 DEF HolderInv, TasksFit
  <2>2. QED
    BY <1>3, <2>1 DEF HolderInv, AllLive, Lives
<1>5. /\ fd \in [Channel -> Fd \cup {NoFd, ListenFd}] /\ c \in Channel
      /\ index \in [Channel -> {"new", "added", "deleted"}]
      /\ events \in [Channel -> EventSet]
      /\ state \in [Client -> {"none", "connecting", "connected", "disconnected"}]
      /\ channelmap \in [Loop -> [Fd \cup {ListenFd} -> Channel \cup {None}]]
      /\ FunctorsOK /\ FunctorsOK' /\ loopOf' \in [Channel -> Loop] /\ fatal \in BOOLEAN
  BY <1>1, <1>3, ServerFacts DEF HolderInv, RestTypes, ServerInv, PollerOK
<1>6. /\ index' = [index EXCEPT ![c] = "added"]
      /\ events' = [events EXCEPT ![c] = events[c] \cup {"read"}]
      /\ channelmap' = [channelmap EXCEPT ![l][fd[c]] = c]
      /\ fatal' \in BOOLEAN
  BY <1>2, <1>4, <1>5 DEF updateChannel, update, Index_Added
<1>7. fd' \in [Channel -> Fd \cup {NoFd, ListenFd}]
  BY <1>2, <1>5, DescriptorsDo
<1>8. RestTypes'
  <2>1. state' \in [Client -> {"none", "connecting", "connected", "disconnected"}]
    BY <1>2, <1>5
  <2>2. channelmap' \in [Loop -> [Fd \cup {ListenFd} -> Channel \cup {None}]]
    BY <1>5, <1>6
  <2>3. held' \subseteq Client
    BY <1>2, <1>3 DEF HolderInv, RestTypes
  <2>4. QED
    BY <1>2, <1>3, <1>6, <1>7, <2>1, <2>2, <2>3 DEF HolderInv, RestTypes
<1>9. /\ OneEach(batch, pending)'
      /\ \A m \in Loop : \A j, d : Task(m, j, d)' <=> Task(m, j, d) /\ d # c
  BY <1>2, RunsOnly
<1>10. TasksFit'
  <2>1. ASSUME NEW d \in Client, d # c PROVE state'[d] = state[d] /\ loopOf'[d] = loopOf[d]
    BY <1>2, <1>3, <1>5, <2>1
  <2>2. QED
    BY <1>9, <2>1 DEF HolderInv, TasksFit
<1>11. AllLive'
  <2>1. ASSUME NEW d \in Client PROVE Lives(d)'
    <3>1. Lives(d) /\ loopOf[d] \in Loop /\ loopOf'[d] = loopOf[d]
      BY <1>3, ServerFacts DEF HolderInv, AllLive, RestTypes
    <3>2. CASE d = c
      <4>1. index'[d] = "added" /\ state'[d] = "connected" /\ d \in connections'
            /\ "read" \in events'[d]
        BY <1>2, <1>4, <1>5, <1>6, <3>2
      <4>2. QED
        BY <4>1 DEF Lives, Kept
    <3>3. CASE d # c
      <4>1. index'[d] = index[d] /\ state'[d] = state[d] /\ events'[d] = events[d]
        BY <1>2, <1>5, <1>6, <3>3, ServerFacts
      <4>2. Kept(d)' <=> Kept(d)
        BY <1>2, <1>9, <3>1, <3>3 DEF Kept
      <4>3. QED
        BY <1>2, <3>1, <4>1, <4>2 DEF Lives
    <3>4. QED
      BY <3>2, <3>3
  <2>2. QED
    BY <2>1 DEF AllLive
<1>12. \A d \in Client : index'[d] # "new" => fd'[d] = fd[d]
  BY <1>2, <1>5, <1>11, FdKept
<1>13. Mapped'
  <2>1. ASSUME NEW m \in Loop, NEW f \in Fd, channelmap'[m][f] # None
        PROVE  /\ channelmap'[m][f] \in Client /\ index'[channelmap'[m][f]] # "new"
               /\ fd'[channelmap'[m][f]] = f /\ loopOf'[channelmap'[m][f]] = m
    <3>1. CASE m = l /\ f = fd[c]
      <4>1. channelmap'[m][f] = c /\ index'[c] = "added"
        BY <1>5, <1>6, <3>1
      <4>2. QED
        BY <1>3, <1>4, <1>12, <3>1, <4>1
    <3>2. CASE ~(m = l /\ f = fd[c])
      <4>1. channelmap'[m][f] = channelmap[m][f]
        BY <1>5, <1>6, <3>2
      <4>2. PICK d \in Client : /\ d = channelmap[m][f] /\ index[d] # "new"
                                /\ fd[d] = f /\ loopOf[d] = m
        BY <2>1, <4>1 DEF HolderInv, Mapped
      <4>3. index'[d] # "new"
        BY <1>5, <1>6, <4>2, ServerFacts
      <4>4. QED
        BY <1>3, <1>12, <4>1, <4>2, <4>3
    <3>3. QED
      BY <3>1, <3>2
  <2>2. QED
    BY <2>1 DEF Mapped
<1>14. ActiveLive'
  <2>1. ASSUME NEW m \in Loop, NEW a \in active[m], a[1] \in Client
        PROVE  loopOf'[a[1]] = loopOf[a[1]] /\ state'[a[1]] = state[a[1]]
    <3>1. state[a[1]] = "connected"
      BY <2>1 DEF HolderInv, ActiveLive
    <3>2. a[1] # c
      BY <1>4, <3>1
    <3>3. QED
      BY <1>2, <1>3, <1>5, <2>1, <3>2
  <2>2. QED
    BY <1>3, <2>1, SameActive
<1>15. Waiting'
  BY <1>2, <1>3, <1>4, <1>5, SameWaiting
<1>16. Opened'
  <2>1. ASSUME NEW d \in Client, Referenced(d)' PROVE Referenced(d)
    <3>1. \/ d \in connections \cup held \cup {c} \cup borrowed
          \/ \E m \in Loop : d \in ran[m] \cup {c} \/ \E k \in Kind : Task(m, k, d)
      BY <1>2, <1>3, <1>5, <1>9, <2>1, ReferencedNext
    <3>2. QED
      BY <1>4, <1>5, <3>1, ReferencedIs
  <2>2. QED
    BY <1>2, <1>5, <2>1, OpenedStep DEF HolderInv, Opened
<1>17. QED
  BY <1>1, <1>3, <1>8, <1>9, <1>10, <1>11, <1>13, <1>14, <1>15, <1>16, HolderNext

LEMMA HolderRemove ==
    ASSUME HolderInv, NEW c, removeConnectionInLoop(c)
    PROVE  HolderInv'
<1>1. ServerInv'
  BY RemoveConnectionStep DEF HolderInv
<1>2. /\ Main \in Loop /\ Runs(Main, "removeConnectionInLoop", c)
      /\ connections' = connections \ {c}
      /\ queueInLoop(loopOf[c], "connectDestroyed", c)
      /\ UNCHANGED <<state, pollerVars, held>>
      /\ Descriptors(fd)
  BY ServerFacts DEF removeConnectionInLoop
<1>3. /\ c \in Client /\ Task(Main, "removeConnectionInLoop", c)
      /\ batch' \in Queues /\ OneEach(batch', pending)
      /\ \A m \in Loop : \A j, d : Has(batch', pending, m, j, d) <=> Task(m, j, d) /\ d # c
      /\ ran' \in [Loop -> SUBSET Client]
      /\ \A m \in Loop : ran'[m] \subseteq ran[m] \cup {c}
      /\ UNCHANGED <<peer, backlog, unread, nextLoop, loopOf, borrowed, phase,
                     active, room>>
      /\ BatchesEnd'
  BY <1>2, RunsDoes
<1>4. UNCHANGED <<events, index, channelmap, fatal>>
  BY <1>2 DEF pollerVars
<1>5. state[c] = "disconnected"
  BY <1>2, <1>3 DEF HolderInv, TasksFit
<1>6. /\ fd \in [Channel -> Fd \cup {NoFd, ListenFd}]
      /\ FunctorsOK /\ FunctorsOK' /\ loopOf \in [Channel -> Loop]
      /\ loopOf[c] \in Loop /\ pending \in Queues
  BY <1>1, <1>3, ServerFacts, QueuesType DEF HolderInv, RestTypes, ServerInv
<1>7. fd' \in [Channel -> Fd \cup {NoFd, ListenFd}]
  BY <1>2, <1>6, DescriptorsDo
<1>8. RestTypes'
  BY <1>2, <1>3, <1>4, <1>7 DEF HolderInv, RestTypes
<1>9. /\ OneEach(batch, pending)'
      /\ \A m \in Loop : \A j, d : Task(m, j, d)' <=>
            \/ Task(m, j, d) /\ d # c
            \/ m = loopOf[c] /\ j = "connectDestroyed" /\ d = c
  <2>1. PICK b1, p1 : b1 = batch' /\ p1 = pending'
    OBVIOUS
  <2>2. IsQueued(pending, p1, loopOf[c], "connectDestroyed", c)
    BY <1>2, <2>1 DEF queueInLoop, IsQueued
  <2>3. b1 \in Queues /\ OneEach(b1, pending) /\ NoneOf(b1, pending, c)
        /\ "connectDestroyed" \in Kind
    BY <1>3, <2>1, ServerFacts DEF NoneOf
  <2>4. /\ OneEach(b1, p1)
        /\ \A m \in Loop : \A j, d : Has(b1, p1, m, j, d) <=>
              Has(b1, pending, m, j, d)
                 \/ (m = loopOf[c] /\ j = "connectDestroyed" /\ d = c)
    BY <1>3, <1>6, <2>2, <2>3, QueueEach
  <2>5. OneEach(batch', pending')
    BY <2>1, <2>4
  <2>6. OneEach(batch, pending)'
    BY <2>5 DEF OneEach, Apart, Once, Of
  <2>7. QED
    BY <1>3, <2>1, <2>4, <2>6, TaskNext
<1>10. TasksFit'
  <2>1. ASSUME NEW m \in Loop, NEW d \in Client, NEW k \in Kind, Task(m, k, d)'
        PROVE  \/ Task(m, k, d)
               \/ d = c /\ k = "connectDestroyed" /\ m = loopOf[c]
    BY <1>9, <2>1
  <2>2. QED
    BY <1>2, <1>3, <1>5, <2>1, ServerFacts DEF HolderInv, TasksFit
<1>11. AllLive'
  <2>1. ASSUME NEW d \in Client PROVE Lives(d)'
    <3>1. Lives(d) /\ loopOf[d] \in Loop
      BY ServerFacts DEF HolderInv, AllLive, RestTypes
    <3>2. Kept(d) => Kept(d)'
      <4>1. CASE d = c
        BY <1>3, <1>6, <1>9, <4>1 DEF Kept
      <4>2. CASE d # c
        BY <1>2, <1>3, <1>9, <3>1, <4>2 DEF Kept
      <4>3. QED
        BY <4>1, <4>2
    <3>3. state[d] \in {"connecting", "connected"} => d # c
      BY <1>5
    <3>4. QED
      BY <1>2, <1>4, <3>1, <3>2, <3>3 DEF Lives
  <2>2. QED
    BY <2>1 DEF AllLive
<1>12. Mapped'
  <2>1. ASSUME NEW d \in Client, index[d] # "new"
        PROVE  index'[d] # "new" /\ fd'[d] = fd[d] /\ loopOf'[d] = loopOf[d]
    BY <1>2, <1>3, <1>4, <1>6, <1>11, <2>1, FdKept
  <2>2. QED
    BY <1>4, <2>1, SameMapped
<1>13. ActiveLive'
  BY <1>2, <1>3, SameActive
<1>14. Waiting'
  BY <1>2, <1>3, SameWaiting
<1>15. Opened'
  <2>1. ASSUME NEW d \in Client, Referenced(d)' PROVE Referenced(d)
    <3>1. \/ d \in connections \cup held \cup {c} \cup borrowed
          \/ \E m \in Loop : d \in ran[m] \cup {c} \/ \E k \in Kind : Task(m, k, d)
      BY <1>2, <1>3, <1>6, <1>9, <2>1, ReferencedNext
    <3>2. Referenced(c)
      BY <1>2, <1>3, <1>6, ReferencedIs, ServerFacts
    <3>3. QED
      BY <1>6, <3>1, <3>2, ReferencedIs
  <2>2. QED
    BY <1>2, <1>6, <2>1, OpenedStep DEF HolderInv, Opened
<1>16. QED
  BY <1>1, <1>3, <1>8, <1>9, <1>10, <1>11, <1>12, <1>13, <1>14, <1>15, HolderNext

LEMMA HolderDestroyed ==
    ASSUME HolderInv, NEW l \in Loop, NEW c, connectDestroyed(l, c)
    PROVE  HolderInv'
<1>1. ServerInv'
  BY ConnectDestroyedStep DEF HolderInv
<1>2. /\ Runs(l, "connectDestroyed", c) /\ removeChannel(c)
      /\ connections' = connections /\ pending' = pending
      /\ Descriptors(fd)
      /\ state[c] # "connected" => UNCHANGED <<state, events, held>>
  BY DEF connectDestroyed
<1>3. /\ c \in Client /\ Task(l, "connectDestroyed", c)
      /\ ran' \in [Loop -> SUBSET Client]
      /\ \A m \in Loop : ran'[m] \subseteq ran[m] \cup {c}
      /\ UNCHANGED <<peer, backlog, unread, nextLoop, loopOf, borrowed, phase,
                     active, room>>
      /\ BatchesEnd'
  BY <1>2, RunsDoes
<1>4. state[c] = "disconnected" /\ loopOf[c] = l
  BY <1>3 DEF HolderInv, TasksFit
<1>5. /\ fd \in [Channel -> Fd \cup {NoFd, ListenFd}] /\ c \in Channel
      /\ index \in [Channel -> {"new", "added", "deleted"}]
      /\ channelmap \in [Loop -> [Fd \cup {ListenFd} -> Channel \cup {None}]]
      /\ FunctorsOK /\ FunctorsOK' /\ loopOf' \in [Channel -> Loop]
  <2>1. FunctorsOK /\ FunctorsOK' /\ RestTypes
    BY <1>1 DEF HolderInv, ServerInv
  <2>2. index \in [Channel -> {"new", "added", "deleted"}]
    BY DEF HolderInv, ServerInv, PollerOK
  <2>3. QED
    BY <1>3, <2>1, <2>2, ServerFacts DEF RestTypes
<1>6. /\ UNCHANGED <<state, events, held, fatal>>
      /\ index' = [index EXCEPT ![c] = "new"]
      /\ channelmap' = [channelmap EXCEPT ![l][fd[c]] = None]
  BY <1>2, <1>4 DEF removeChannel
<1>7. fd' \in [Channel -> Fd \cup {NoFd, ListenFd}]
  BY <1>2, <1>5, DescriptorsDo
<1>8. RestTypes'
  <2>1. channelmap' \in [Loop -> [Fd \cup {ListenFd} -> Channel \cup {None}]]
    BY <1>5, <1>6
  <2>2. QED
    BY <1>2, <1>3, <1>6, <1>7, <2>1 DEF HolderInv, RestTypes
<1>9. /\ OneEach(batch, pending)'
      /\ \A m \in Loop : \A j, d : Task(m, j, d)' <=> Task(m, j, d) /\ d # c
  BY <1>2, RunsOnly
<1>10. TasksFit'
  BY <1>3, <1>6, <1>9 DEF HolderInv, TasksFit
<1>11. AllLive'
  <2>1. ASSUME NEW d \in Client PROVE Lives(d)'
    <3>1. Lives(d) /\ loopOf[d] \in Loop /\ loopOf'[d] = loopOf[d]
      BY <1>3, ServerFacts DEF HolderInv, AllLive, RestTypes
    <3>2. CASE d = c
      <4>1. index'[d] = "new" /\ state'[d] = "disconnected"
        BY <1>4, <1>5, <1>6, <3>2
      <4>2. QED
        BY <4>1 DEF Lives
    <3>3. CASE d # c
      <4>1. index'[d] = index[d]
        BY <1>5, <1>6, <3>3, ServerFacts
      <4>2. Kept(d)' <=> Kept(d)
        BY <1>2, <1>9, <3>1, <3>3 DEF Kept
      <4>3. QED
        BY <1>2, <1>6, <3>1, <4>1, <4>2 DEF Lives
    <3>4. QED
      BY <3>2, <3>3
  <2>2. QED
    BY <2>1 DEF AllLive
<1>12. Mapped'
  <2>1. ASSUME NEW m \in Loop, NEW f \in Fd, channelmap'[m][f] # None
        PROVE  /\ channelmap'[m][f] \in Client /\ index'[channelmap'[m][f]] # "new"
               /\ fd'[channelmap'[m][f]] = f /\ loopOf'[channelmap'[m][f]] = m
    <3>1. ~(m = l /\ f = fd[c])
      BY <1>5, <1>6, <2>1
    <3>2. channelmap'[m][f] = channelmap[m][f]
      BY <1>5, <1>6, <3>1
    <3>3. PICK d \in Client : /\ d = channelmap[m][f] /\ index[d] # "new"
                              /\ fd[d] = f /\ loopOf[d] = m
      BY <2>1, <3>2 DEF HolderInv, Mapped
    <3>4. d # c
      BY <1>4, <3>1, <3>3
    <3>5. index'[d] # "new"
      BY <1>5, <1>6, <3>3, <3>4, ServerFacts
    <3>6. fd'[d] = fd[d]
      BY <1>2, <1>5, <1>11, <3>5, FdKept
    <3>7. QED
      BY <1>3, <3>2, <3>3, <3>5, <3>6
  <2>2. QED
    BY <2>1 DEF Mapped
<1>13. ActiveLive'
  BY <1>3, <1>6, SameActive
<1>14. Waiting'
  BY <1>3, <1>6, SameWaiting
<1>15. Opened'
  <2>1. ASSUME NEW d \in Client, Referenced(d)' PROVE Referenced(d)
    <3>1. \/ d \in connections \cup held \cup borrowed
          \/ \E m \in Loop : d \in ran[m] \cup {c} \/ \E k \in Kind : Task(m, k, d)
      BY <1>2, <1>3, <1>5, <1>6, <1>9, <2>1, ReferencedNext
    <3>2. Referenced(c)
      BY <1>3, <1>5, ReferencedIs, ServerFacts
    <3>3. QED
      BY <1>5, <3>1, <3>2, ReferencedIs
  <2>2. QED
    BY <1>2, <1>5, <2>1, OpenedStep DEF HolderInv, Opened
<1>16. QED
  BY <1>1, <1>3, <1>8, <1>9, <1>10, <1>11, <1>12, <1>13, <1>14, <1>15, HolderNext

\* The batch is over: what it kept may go.
LEMMA HolderEnd ==
    ASSUME HolderInv, NEW l \in Loop, EndBatch(l)
    PROVE  HolderInv'
<1>1. /\ phase[l] = "running" /\ batch[l] = <<>>
      /\ phase' = [phase EXCEPT ![l] = "polling"]
      /\ ran' = [ran EXCEPT ![l] = {}]
      /\ UNCHANGED <<clientVars, nextLoop, loopOf, state, pollerVars, connections,
                     held, borrowed, pending, batch, active, room>>
      /\ Descriptors(fd)
  BY DEF EndBatch
<1>2. UNCHANGED <<peer, backlog, unread, events, index, channelmap, fatal>>
  BY <1>1 DEF clientVars, pollerVars
<1>3. ServerInv'
  BY <1>1, <1>2, OtherSteps DEF HolderInv
<1>4. /\ fd \in [Channel -> Fd \cup {NoFd, ListenFd}]
      /\ phase \in [Loop -> {"polling", "handling", "running"}]
      /\ ran \in [Loop -> SUBSET Client]
      /\ FunctorsOK /\ FunctorsOK' /\ loopOf' \in [Channel -> Loop]
  BY <1>1, <1>3 DEF HolderInv, RestTypes, ServerInv
<1>5. fd' \in [Channel -> Fd \cup {NoFd, ListenFd}]
  BY <1>1, <1>4, DescriptorsDo
<1>6. RestTypes'
  <2>1. /\ phase' \in [Loop -> {"polling", "handling", "running"}]
        /\ ran' \in [Loop -> SUBSET Client]
    BY <1>1, <1>4
  <2>2. QED
    BY <1>1, <1>2, <1>5, <2>1 DEF HolderInv, RestTypes
<1>7. OneEach(batch, pending)' /\ TasksFit' /\ \A m, k, d : Task(m, k, d)' <=> Task(m, k, d)
  BY <1>1, SameTasks
<1>8. AllLive'
  BY <1>1, <1>2, <1>7, SameLives
<1>9. Mapped'
  <2>1. \A d \in Client : index[d] # "new" => fd'[d] = fd[d]
    BY <1>1, <1>2, <1>4, <1>8, FdKept
  <2>2. QED
    BY <1>1, <1>2, <2>1, SameMapped
<1>10. ActiveLive'
  <2>1. \A m \in Loop : \A a \in active[m] : phase'[m] = phase[m]
    BY <1>1, <1>4 DEF HolderInv, ActiveLive
  <2>2. QED
    BY <1>1, <2>1 DEF HolderInv, ActiveLive
<1>11. Waiting'
  BY <1>1, <1>2, SameWaiting
<1>12. Opened'
  <2>1. \A m \in Loop : ran'[m] \subseteq ran[m]
    BY <1>1, <1>4
  <2>2. ASSUME NEW d \in Client, Referenced(d)' PROVE Referenced(d)
    BY <1>1, <1>4, <1>7, <2>1, <2>2, ReferencedIs, ReferencedNext
  <2>3. QED
    BY <1>1, <1>4, <2>2, OpenedStep DEF HolderInv, Opened
<1>13. BatchesEnd'
  BY <1>1, <1>4 DEF HolderInv, BatchesEnd
<1>14. QED
  BY <1>3, <1>6, <1>7, <1>8, <1>9, <1>10, <1>11, <1>12, <1>13, HolderNext

LEMMA HolderStart ==
    ASSUME HolderInv, start
    PROVE  HolderInv'
<1>1. ServerInv'
  BY startStep DEF HolderInv
<1>2. /\ index[Listener] = "new"
      /\ updateChannel(Listener, events[Listener] \cup {"read"})
      /\ UNCHANGED <<clientVars, fd, nextLoop, loopOf, state, holderVars, loopVars>>
  BY DEF start, listen, EnableReading
<1>3. UNCHANGED <<peer, backlog, unread, connections, held, borrowed, pending, batch,
                  ran, phase, active, room>>
  BY <1>2 DEF clientVars, holderVars, loopVars
<1>4. /\ fd[Listener] = ListenFd /\ index \in [Channel -> {"new", "added", "deleted"}]
      /\ events \in [Channel -> EventSet]
      /\ channelmap \in [Loop -> [Fd \cup {ListenFd} -> Channel \cup {None}]]
      /\ fatal \in BOOLEAN /\ FunctorsOK
  BY DEF HolderInv, Opened, RestTypes, ServerInv, PollerOK
<1>5. /\ index' = [index EXCEPT ![Listener] = "added"]
      /\ events' = [events EXCEPT ![Listener] = events[Listener] \cup {"read"}]
      /\ channelmap' = [channelmap EXCEPT ![loopOf[Listener]][ListenFd] = Listener]
      /\ fatal' \in BOOLEAN
  BY <1>2, <1>4 DEF updateChannel, update, Index_Added
<1>6. RestTypes'
  <2>1. channelmap' \in [Loop -> [Fd \cup {ListenFd} -> Channel \cup {None}]]
    BY <1>4, <1>5, ServerFacts
  <2>2. QED
    BY <1>2, <1>3, <1>5, <2>1 DEF HolderInv, RestTypes
<1>7. OneEach(batch, pending)' /\ TasksFit' /\ \A m, k, d : Task(m, k, d)' <=> Task(m, k, d)
  BY <1>2, <1>3, SameTasks
<1>8. \A d \in Client : index'[d] = index[d] /\ events'[d] = events[d]
  BY <1>4, <1>5, ServerFacts
<1>9. AllLive'
  <2>1. ASSUME NEW d \in Client PROVE Lives(d)'
    <3>1. Lives(d)
      BY DEF HolderInv, AllLive
    <3>2. Kept(d)' <=> Kept(d)
      BY <1>2, <1>3, <1>7 DEF Kept
    <3>3. QED
      BY <1>2, <1>3, <1>8, <3>1, <3>2 DEF Lives
  <2>2. QED
    BY <2>1 DEF AllLive
<1>10. Mapped'
  <2>1. \A m \in Loop, f \in Fd : channelmap'[m][f] = channelmap[m][f]
    BY <1>4, <1>5, ServerFacts
  <2>2. \A m \in Loop, f \in Fd : channelmap[m][f] # None =>
           /\ channelmap[m][f] \in Client /\ index'[channelmap[m][f]] # "new"
           /\ fd[channelmap[m][f]] = f /\ loopOf[channelmap[m][f]] = m
    BY <1>8 DEF HolderInv, Mapped
  <2>3. QED
    BY <1>2, <2>1, <2>2 DEF Mapped
<1>11. ActiveLive'
  BY <1>2, <1>3, SameActive
<1>12. Waiting' /\ Opened'
  <2>1. \A d \in Client : Referenced(d)' => Referenced(d)
    BY <1>3 DEF Referenced
  <2>2. QED
    BY <1>2, <1>3, <2>1, SameWaiting, SameOpened
<1>13. BatchesEnd'
  BY <1>3 DEF HolderInv, BatchesEnd
<1>14. QED
  BY <1>1, <1>6, <1>7, <1>9, <1>10, <1>11, <1>12, <1>13, HolderNext

\* The first of the backlog: it has not been seen, and the others are others.
LEMMA FirstWaits ==
    ASSUME HolderInv, Accept
    PROVE  /\ backlog # <<>> /\ Head(backlog) \in Client
           /\ state[Head(backlog)] = "none" /\ index[Head(backlog)] = "new"
           /\ peer[Head(backlog)] # "new"
           /\ \A i \in 1..Len(Tail(backlog)) :
                 /\ i + 1 \in 1..Len(backlog) /\ Tail(backlog)[i] = backlog[i + 1]
                 /\ Tail(backlog)[i] # Head(backlog)
<1>1. backlog # <<>> /\ backlog \in Seq(Client)
  BY DEF HolderInv, ServerInv, AcceptOK, Accept, Handles
<1>2. /\ Len(backlog) \in Nat /\ Len(backlog) > 0
      /\ Head(backlog) = backlog[1] /\ Head(backlog) \in Client
      /\ Len(Tail(backlog)) = Len(backlog) - 1
      /\ \A i \in 1..Len(Tail(backlog)) : Tail(backlog)[i] = backlog[i + 1]
  <2>1. Len(backlog) \in Nat /\ Len(backlog) # 0
    BY <1>1, LenProperties, EmptySeq
  <2>2. /\ Head(backlog) = backlog[1] /\ Head(backlog) \in Client
        /\ Len(Tail(backlog)) = Len(backlog) - 1
        /\ \A i \in 1..Len(Tail(backlog)) : Tail(backlog)[i] = backlog[i + 1]
    BY <1>1, HeadTailProperties
  <2>3. QED
    BY <2>1, <2>2
<1>3. 1 \in 1..Len(backlog)
  BY <1>2
<1>4. state[Head(backlog)] = "none" /\ peer[Head(backlog)] # "new"
  BY <1>2, <1>3 DEF HolderInv, Waiting
<1>5. index[Head(backlog)] = "new"
  BY <1>2, <1>4 DEF HolderInv, AllLive, Lives
<1>6. ASSUME NEW i \in 1..Len(Tail(backlog))
      PROVE  i + 1 \in 1..Len(backlog) /\ i + 1 # 1
  BY <1>2
<1>7. ASSUME NEW i \in 1..Len(Tail(backlog))
      PROVE  Tail(backlog)[i] # Head(backlog)
  BY <1>2, <1>3, <1>6 DEF HolderInv, Waiting
<1>8. QED
  BY <1>1, <1>2, <1>4, <1>5, <1>6, <1>7

LEMMA HolderAccept ==
    ASSUME HolderInv, Accept
    PROVE  HolderInv'
<1>1. ServerInv'
  BY AcceptStep DEF HolderInv
<1>2. /\ UNCHANGED <<peer, unread, held, borrowed, batch, ran, phase, room>>
      /\ \A m \in Loop : active'[m] \subseteq active[m]
  <2>1. /\ Handles(Main, Listener, {"read"})
        /\ UNCHANGED <<peer, unread, held, borrowed, batch, ran>>
    BY DEF Accept
  <2>2. active \in [Loop -> SUBSET (Channel \X EventSet)]
    BY DEF HolderInv, ServerInv, AcceptOK
  <2>3. QED
    BY <2>1, <2>2 DEF Handles
<1>3. UNCHANGED <<events, index, channelmap, fatal>>
  BY DEF Accept, Refused, pollerVars
<1>4. BatchesEnd'
  BY <1>2 DEF HolderInv, BatchesEnd
<1>5. CASE UNCHANGED <<fd, loopOf, nextLoop, state, connections, pending, backlog>>
  <2>1. RestTypes'
    BY <1>2, <1>3, <1>5 DEF HolderInv, RestTypes
  <2>2. OneEach(batch, pending)' /\ TasksFit' /\ \A m, k, d : Task(m, k, d)' <=> Task(m, k, d)
    BY <1>2, <1>5, SameTasks
  <2>3. AllLive' /\ Mapped' /\ ActiveLive'
    BY <1>2, <1>3, <1>5, <2>2, SameLives, SameMapped, SameActive
  <2>4. Waiting' /\ Opened'
    <3>1. \A d \in Client : Referenced(d)' => Referenced(d)
      BY <1>2, <1>5 DEF Referenced
    <3>2. QED
      BY <1>2, <1>5, <3>1, SameWaiting, SameOpened
  <2>5. QED
    BY <1>1, <1>4, <2>1, <2>2, <2>3, <2>4, HolderNext
<1>6. ASSUME NEW f \in FreeFds, newConnection(Head(backlog)), backlog' = Tail(backlog),
             Descriptors([fd EXCEPT ![Head(backlog)] = f])
      PROVE  HolderInv'
  <2> DEFINE c == Head(backlog)
             given == [fd EXCEPT ![c] = f]
  <2>1. /\ backlog # <<>> /\ c \in Client /\ state[c] = "none" /\ index[c] = "new"
        /\ peer[c] # "new"
    BY FirstWaits
  <2>2. /\ loopOf' = [loopOf EXCEPT ![c] = nextLoop]
        /\ nextLoop' = IF nextLoop >= NumThreads THEN 1 ELSE nextLoop + 1
        /\ state' = [state EXCEPT ![c] = "connecting"]
        /\ connections' = connections \cup {c}
        /\ pending' = [pending EXCEPT ![nextLoop] = Append(pending[nextLoop],
                                                     <<"connectEstablished", c>>)]
        /\ Descriptors(given)
    BY <1>6 DEF newConnection, getNextLoop, queueInLoop
  <2>3. /\ fd \in [Channel -> Fd \cup {NoFd, ListenFd}] /\ fd[Listener] = ListenFd
        /\ f \in Fd /\ c \in Channel /\ c # Listener
        /\ state \in [Client -> {"none", "connecting", "connected", "disconnected"}]
        /\ nextLoop \in 1..NumThreads /\ nextLoop \in Loop
        /\ loopOf \in [Channel -> Loop]
        /\ FunctorsOK /\ FunctorsOK' /\ batch \in Queues /\ pending \in Queues
    BY <1>1, <2>1, ServerFacts, QueuesType
       DEF HolderInv, RestTypes, ServerInv, Opened, FreeFds
  <2>4. given \in [Channel -> Fd \cup {NoFd, ListenFd}] /\ given[Listener] = ListenFd
        /\ given[c] # NoFd /\ \A d \in Client : d # c => given[d] = fd[d]
    BY <2>3, ServerFacts
  <2> HIDE DEF given
  <2>5.
        /\ Tail(backlog) \in Seq(Client)
        /\ \A i \in 1..Len(Tail(backlog)) :
              /\ i + 1 \in 1..Len(backlog) /\ Tail(backlog)[i] = backlog[i + 1]
              /\ Tail(backlog)[i] # c
              /\ Tail(backlog)[i] \in Client
    <3>1. backlog \in Seq(Client) /\ Tail(backlog) \in Seq(Client)
      BY <2>1, HeadTailProperties DEF HolderInv, ServerInv, AcceptOK
    <3>2. \A i \in 1..Len(Tail(backlog)) : Tail(backlog)[i] \in Client
      BY <3>1, ElementOfSeq
    <3>3. QED
      BY <3>1, <3>2, FirstWaits
  <2> HIDE DEF c
  <2>6. RestTypes'
    <3>1. NumThreads \in Nat \ {0}
      BY ServerAssumption DEF ServerAssumption
    <3>2. nextLoop' \in 1..NumThreads
      BY <2>2, <2>3, <3>1
    <3>3. fd' \in [Channel -> Fd \cup {NoFd, ListenFd}]
      BY <2>2, <2>4, DescriptorsDo
    <3>4. /\ loopOf' \in [Channel -> Loop] /\ connections' \subseteq Client
          /\ state' \in [Client -> {"none", "connecting", "connected", "disconnected"}]
      BY <2>1, <2>2, <2>3 DEF HolderInv, RestTypes
    <3>5. QED
      BY <1>2, <1>3, <3>2, <3>3, <3>4 DEF HolderInv, RestTypes
  <2>7. /\ OneEach(batch, pending)'
        /\ \A m \in Loop : \A k, d : Task(m, k, d)' <=>
              Task(m, k, d) \/ (m = nextLoop /\ k = "connectEstablished" /\ d = c)
    <3>1. /\ OneEach(batch, pending) /\ "connectEstablished" \in Kind
          /\ NoneOf(batch, pending, c)
      BY <2>1, ServerFacts, NoTasks DEF HolderInv
    <3>2. PICK p1 : p1 = pending'
      OBVIOUS
    <3>3. IsQueued(pending, p1, nextLoop, "connectEstablished", c)
      BY <2>2, <3>2 DEF IsQueued
    <3>4. /\ OneEach(batch, p1)
          /\ \A m \in Loop : \A k, d : Has(batch, p1, m, k, d) <=>
                Has(batch, pending, m, k, d)
                   \/ (m = nextLoop /\ k = "connectEstablished" /\ d = c)
      BY <2>1, <2>3, <3>1, <3>3, QueueEach
    <3>5. OneEach(batch', pending') /\ batch' = batch
      BY <1>2, <3>2, <3>4
    <3>6. OneEach(batch, pending)'
      BY <3>5 DEF OneEach, Apart, Once, Of
    <3>7. QED
      BY <3>2, <3>4, <3>5, <3>6, TaskNext DEF Task
  <2>8. \A d \in Client : d # c => state'[d] = state[d] /\ loopOf'[d] = loopOf[d]
    BY <2>2, <2>3, ServerFacts
  <2>9. state'[c] = "connecting" /\ loopOf'[c] = nextLoop
    BY <2>1, <2>2, <2>3
  <2>10. TasksFit'
    <3>1. ASSUME NEW m \in Loop, NEW d \in Client, NEW k \in Kind, Task(m, k, d)'
          PROVE  \/ d # c /\ Task(m, k, d)
                 \/ d = c /\ k = "connectEstablished" /\ m = nextLoop
      BY <2>1, <2>7, <3>1, NoTasks DEF Task, NoneOf
    <3>2. QED
      BY <2>8, <2>9, <3>1, ServerFacts DEF HolderInv, TasksFit
  <2>11. AllLive'
    <3>1. ASSUME NEW d \in Client PROVE Lives(d)'
      <4>1. Lives(d) /\ loopOf[d] \in Loop
        BY ServerFacts DEF HolderInv, AllLive, RestTypes
      <4>2. CASE d = c
        BY <1>3, <2>1, <2>2, <2>9, <4>2 DEF Lives
      <4>3. CASE d # c
        <5>1. Kept(d) => Kept(d)'
          BY <2>2, <2>7, <2>8, <4>1, <4>3 DEF Kept
        <5>2. QED
          BY <1>3, <2>2, <2>8, <4>1, <4>3, <5>1 DEF Lives
      <4>4. QED
        BY <4>2, <4>3
    <3>2. QED
      BY <3>1 DEF AllLive
  <2>12. Mapped'
    <3>1. ASSUME NEW d \in Client, index[d] # "new"
          PROVE  index'[d] # "new" /\ fd'[d] = fd[d] /\ loopOf'[d] = loopOf[d]
      <4>1. d # c /\ index'[d] # "new"
        BY <1>3, <2>1, <3>1
      <4>2. loopOf' \in [Channel -> Loop]
        BY <2>6 DEF RestTypes
      <4>3. fd'[d] = given[d]
        BY <2>2, <2>3, <2>4, <2>11, <4>1, <4>2, FdKept
      <4>4. QED
        BY <2>4, <2>8, <4>1, <4>3
    <3>2. QED
      BY <1>3, <3>1, SameMapped
  <2>13. ActiveLive'
    <3>1. ASSUME NEW m \in Loop, NEW a \in active[m], a[1] \in Client
          PROVE  loopOf'[a[1]] = loopOf[a[1]] /\ state'[a[1]] = state[a[1]]
      <4>1. state[a[1]] = "connected"
        BY <3>1 DEF HolderInv, ActiveLive
      <4>2. QED
        BY <2>1, <2>8, <3>1, <4>1
    <3>2. QED
      BY <1>2, <3>1, SameActive
  <2>14. Waiting'
    <3>1. \A i, j \in 1..Len(Tail(backlog)) :
             Tail(backlog)[i] = Tail(backlog)[j] => i = j
      <4>1. ASSUME NEW i \in 1..Len(Tail(backlog)), NEW j \in 1..Len(Tail(backlog)),
                   Tail(backlog)[i] = Tail(backlog)[j]
            PROVE  i = j
        <5>1. i + 1 = j + 1
          BY <2>5, <4>1 DEF HolderInv, Waiting
        <5>2. QED
          BY <5>1
      <4>2. QED
        BY <4>1
    <3>2. \A i \in 1..Len(Tail(backlog)) :
             state'[Tail(backlog)[i]] = "none" /\ peer[Tail(backlog)[i]] # "new"
      BY <2>5, <2>8 DEF HolderInv, Waiting
    <3>3. \A d \in Client : peer[d] = "new" => state'[d] = "none"
      BY <2>1, <2>8 DEF HolderInv, Waiting
    <3>4. QED
      BY <1>2, <1>6, <3>1, <3>2, <3>3 DEF Waiting
  <2>15. Opened'
    <3>1. ASSUME NEW d \in Client, Referenced(d)' PROVE d = c \/ Referenced(d)
      <4>1. \/ d \in connections \cup {c} \cup held \cup borrowed
            \/ \E m \in Loop : d \in ran[m] \/ \E k \in Kind : Task(m, k, d)'
        BY <1>2, <2>2, <2>3, <3>1, ReferencedNext
      <4>2. QED
        BY <2>3, <2>7, <4>1, ReferencedIs
    <3>2. \A d \in Client : Referenced(d)' => given[d] # NoFd
      BY <2>4, <3>1 DEF HolderInv, Opened
    <3>3. QED
      BY <2>2, <2>4, <3>2, OpenedStep
  <2>16. QED
    BY <1>1, <1>4, <2>6, <2>7, <2>10, <2>11, <2>12, <2>13, <2>14, <2>15, HolderNext
<1>7. QED
  BY <1>5, <1>6 DEF Accept

LEMMA HolderConnect ==
    ASSUME HolderInv, NEW c \in Client, Connect(c)
    PROVE  HolderInv'
<1>1. ServerInv'
  BY ConnectStep DEF HolderInv
<1>2. /\ peer[c] = "new" /\ peer' = [peer EXCEPT ![c] = "connected"]
      /\ backlog' = Append(backlog, c) /\ unread' = unread
      /\ UNCHANGED <<fd, nextLoop, loopOf, state, pollerVars, holderVars, loopVars>>
  BY DEF Connect, ClientUnchanged
<1>3. UNCHANGED <<events, index, channelmap, fatal, connections, held, borrowed,
                  pending, batch, ran, phase, active, room>>
  BY <1>2 DEF pollerVars, holderVars, loopVars
<1>4. RestTypes'
  BY <1>2, <1>3 DEF HolderInv, RestTypes
<1>5. OneEach(batch, pending)' /\ TasksFit' /\ \A m, k, d : Task(m, k, d)' <=> Task(m, k, d)
  BY <1>2, <1>3, SameTasks
<1>6. AllLive' /\ Mapped' /\ ActiveLive'
  BY <1>2, <1>3, <1>5, SameLives, SameMapped, SameActive
<1>7. Opened'
  <2>1. \A d \in Client : Referenced(d)' => Referenced(d)
    BY <1>3 DEF Referenced
  <2>2. QED
    BY <1>2, <2>1, SameOpened
<1>8. Waiting'
  <2> DEFINE t == Append(backlog, c)
  <2>1. backlog \in Seq(Client) /\ peer \in [Client -> {"new", "connected", "closed"}]
    BY DEF HolderInv, ServerInv, AcceptOK, RestTypes
  <2>2. /\ Len(backlog) \in Nat /\ Len(t) = Len(backlog) + 1
        /\ \A i \in 1..Len(backlog) : t[i] = backlog[i]
        /\ t[Len(backlog) + 1] = c
    BY <2>1, AppendProperties, LenProperties
  <2>3. \A i \in 1..Len(backlog) : backlog[i] \in Client
    BY <2>1, ElementOfSeq
  <2> HIDE DEF t
  <2>4. \A i \in 1..Len(t) : i \in 1..Len(backlog) \/ i = Len(backlog) + 1
    BY <2>2
  <2>5. \A i \in 1..Len(backlog) :
           t[i] # c /\ t[i] \in Client /\ state[t[i]] = "none" /\ peer[t[i]] # "new"
    BY <1>2, <2>2, <2>3 DEF HolderInv, Waiting
  <2>6. state[c] = "none" /\ peer'[c] = "connected"
    BY <1>2, <2>1 DEF HolderInv, Waiting
  <2>7. \A d \in Client : d # c => peer'[d] = peer[d]
    BY <1>2, <2>1
  <2>8. ASSUME NEW i \in 1..Len(t), NEW j \in 1..Len(t), t[i] = t[j] PROVE i = j
    <3>1. CASE i \in 1..Len(backlog) /\ j \in 1..Len(backlog)
      BY <2>2, <2>8, <3>1 DEF HolderInv, Waiting
    <3>2. CASE ~(i \in 1..Len(backlog) /\ j \in 1..Len(backlog))
      BY <2>2, <2>4, <2>5, <2>8, <3>2
    <3>3. QED
      BY <3>1, <3>2
  <2>9. \A i \in 1..Len(t) : state[t[i]] = "none" /\ peer'[t[i]] # "new"
    BY <2>2, <2>4, <2>5, <2>6, <2>7
  <2>10. \A d \in Client : peer'[d] = "new" => state[d] = "none"
    BY <2>6, <2>7 DEF HolderInv, Waiting
  <2>11. backlog' = t /\ state' = state
    BY <1>2 DEF t
  <2>12. QED
    BY <2>8, <2>9, <2>10, <2>11 DEF Waiting
<1>9. BatchesEnd'
  BY <1>3 DEF HolderInv, BatchesEnd
<1>10. QED
  BY <1>1, <1>4, <1>5, <1>6, <1>7, <1>8, <1>9, HolderNext

\* What clients do otherwise, what another thread borrows, and steps that do
\* nothing.
LEMMA HolderOthers ==
    ASSUME HolderInv,
           UNCHANGED <<backlog, nextLoop, loopOf, state, pollerVars, connections,
                       pending, batch, ran, loopVars>>,
           held' \subseteq held,
           fd' = fd \/ Descriptors(fd),
           unread' \subseteq Client, borrowed' \subseteq Client,
           peer' \in [Client -> {"new", "connected", "closed"}],
           \A d \in Client : peer'[d] = "new" <=> peer[d] = "new",
           \A d \in borrowed' : d \in borrowed \cup held
    PROVE  HolderInv'
<1>1. UNCHANGED <<events, index, channelmap, fatal, phase, active, room>>
  BY DEF pollerVars, loopVars
<1>2. ServerInv'
  BY <1>1, OtherSteps DEF HolderInv
<1>3. /\ fd \in [Channel -> Fd \cup {NoFd, ListenFd}] /\ FunctorsOK /\ FunctorsOK'
      /\ loopOf' \in [Channel -> Loop]
  BY <1>2 DEF HolderInv, RestTypes, ServerInv
<1>4. RestTypes'
  <2>1. fd' \in [Channel -> Fd \cup {NoFd, ListenFd}]
    BY <1>3, DescriptorsDo
  <2>2. QED
    BY <1>1, <2>1 DEF HolderInv, RestTypes
<1>5. OneEach(batch, pending)' /\ TasksFit' /\ \A m, k, d : Task(m, k, d)' <=> Task(m, k, d)
  BY SameTasks
<1>6. AllLive' /\ ActiveLive'
  BY <1>1, <1>5, SameLives, SameActive
<1>7. Mapped'
  <2>1. \A d \in Client : index[d] # "new" => fd'[d] = fd[d]
    BY <1>1, <1>3, <1>6, FdKept
  <2>2. QED
    BY <1>1, <2>1, SameMapped
<1>8. Waiting'
  <2>1. \A i \in 1..Len(backlog) : backlog[i] \in Client
    <3>1. backlog \in Seq(Client)
      BY DEF HolderInv, ServerInv, AcceptOK
    <3>2. QED
      BY <3>1, ElementOfSeq
  <2>2. QED
    BY <2>1 DEF HolderInv, Waiting
<1>9. Opened'
  <2>1. ASSUME NEW d \in Client, Referenced(d)' PROVE Referenced(d)
    BY <1>3, <1>5, <2>1, ReferencedIs, ReferencedNext
  <2>2. CASE fd' = fd
    BY <2>1, <2>2, SameOpened
  <2>3. CASE Descriptors(fd)
    BY <1>3, <2>1, <2>3, OpenedStep DEF HolderInv, Opened
  <2>4. QED
    BY <2>2, <2>3
<1>10. BatchesEnd'
  BY <1>1 DEF HolderInv, BatchesEnd
<1>11. QED
  BY <1>2, <1>4, <1>5, <1>6, <1>7, <1>8, <1>9, <1>10, HolderNext

LEMMA HolderLoopStep ==
    ASSUME HolderInv, NEW l \in Loop, LoopStep(l)
    PROVE  HolderInv'
<1>1. CASE poll(l)
  BY <1>1, HolderPoll
<1>2. CASE HandlerEvent(l)
  BY <1>2, HolderClose, HolderReadWrite DEF HandlerEvent
<1>3. CASE TakeBatch(l)
  BY <1>3, HolderTake
<1>4. CASE RunFunctor(l)
  BY <1>4, HolderEstablished, HolderDestroyed DEF RunFunctor
<1>5. CASE EndBatch(l)
  BY <1>5, HolderEnd
<1>6. QED
  BY <1>1, <1>2, <1>3, <1>4, <1>5 DEF LoopStep

LEMMA HolderStep ==
    ASSUME HolderInv, [ServerNext]_serverVars
    PROVE  HolderInv'
<1>1. /\ unread \subseteq Client /\ borrowed \subseteq Client /\ held \subseteq Client
      /\ peer \in [Client -> {"new", "connected", "closed"}] /\ Busy \subseteq Client
  BY ServerFacts DEF HolderInv, RestTypes
<1>2. CASE UNCHANGED serverVars
  BY <1>1, <1>2, HolderOthers DEF serverVars, clientVars, holderVars
<1>3. CASE MainStep
  <2>1. Main \in Loop
    BY ServerFacts
  <2>2. QED
    BY <1>3, <2>1, HolderLoopStep, HolderStart, HolderAccept, HolderRemove DEF MainStep
<1>4. ASSUME NEW l \in 1..NumThreads, LoopStep(l) PROVE HolderInv'
  BY <1>4, ServerFacts, HolderLoopStep
<1>5. ASSUME NEW c \in Client, HangUp(c) PROVE HolderInv'
  <2>1. /\ peer' \in [Client -> {"new", "connected", "closed"}]
        /\ \A d \in Client : peer'[d] = "new" <=> peer[d] = "new"
    BY <1>1, <1>5 DEF HangUp
  <2>2. QED
    BY <1>1, <1>5, <2>1, HolderOthers DEF HangUp, ClientUnchanged, holderVars
<1>6. ASSUME NEW c \in Busy, SendRequest(c) PROVE HolderInv'
  BY <1>1, <1>6, HolderOthers DEF SendRequest, ClientUnchanged, holderVars
<1>7. ASSUME NEW c \in Busy, Borrow(c) \/ Return(c) PROVE HolderInv'
  <2>1. /\ borrowed' \subseteq Client /\ \A d \in borrowed' : d \in borrowed \cup held
        /\ fd' = fd \/ Descriptors(fd)
    BY <1>1, <1>7 DEF Borrow, Return
  <2>2. UNCHANGED <<peer, backlog, unread, nextLoop, loopOf, state, pollerVars,
                    connections, held, pending, batch, ran, loopVars>>
    BY <1>7 DEF Borrow, Return, clientVars
  <2>3. QED
    BY <1>1, <2>1, <2>2, HolderOthers
<1>8. ASSUME NEW c \in Lingering, Forget(c) PROVE HolderInv'
  <2>1. held' \subseteq held /\ (fd' = fd \/ Descriptors(fd))
    BY <1>8 DEF Forget
  <2>2. UNCHANGED <<peer, backlog, unread, nextLoop, loopOf, state, pollerVars,
                    connections, borrowed, pending, batch, ran, loopVars>>
    BY <1>8 DEF Forget, clientVars
  <2>3. QED
    BY <1>1, <2>1, <2>2, HolderOthers
<1>9. QED
  BY <1>2, <1>3, <1>4, <1>5, <1>6, <1>7, <1>8, HolderConnect DEF ServerNext

\* TcpServer and its loops: every variable has its type.
THEOREM ServerTypeCorrect == ServerSpec => []ServerTypeOK
<1>1. HolderInv /\ [ServerNext]_serverVars => HolderInv'
  BY HolderStep
<1>2. HolderInv => ServerTypeOK
  BY DEF HolderInv, RestTypes, ServerInv, PollerOK, FunctorsOK, AcceptOK, ServerTypeOK
<1>3. QED
  BY <1>1, <1>2, HolderInit, PTL DEF ServerSpec

\* No channel that is watched, mapped, active or about to be served by a functor
\* belongs to a connection whose descriptor ~Socket has closed.
THEOREM NoReferenceDangles == ServerSpec => []NothingDangles
<1>1. HolderInv /\ [ServerNext]_serverVars => HolderInv'
  BY HolderStep
<1>2. QED
  BY <1>1, HolderInit, NothingDanglesThen, PTL DEF ServerSpec
=============================================================================
