----------------------------- MODULE TcpServer ------------------------------
(***************************************************************************)
(* TcpServer with its Acceptor, its EventLoopThreadPool, and the Channel   *)
(* and the EPollPoller of every loop: how clients get a descriptor, a      *)
(* TcpConnection and a loop, how the loops learn of their events, and how  *)
(* all of that is given back.                                              *)
(*                                                                         *)
(* Loop 0 is the main loop, which polls the listening socket; loops 1 to   *)
(* NumThreads poll the connections.  A step is one epoll_wait, one         *)
(* HandlerEvent, or one functor.  A functor keeps its connection until the *)
(* batch it runs in has ended.  A connection is a shared_ptr's object: its *)
(* descriptor is closed when the last of its holders is gone, in whatever  *)
(* thread that is.                                                         *)
(*                                                                         *)
(* What is read and written, shutdown, and functors bound to a bare this   *)
(* are the subject of TcpConnection.  EPOLLHUP and EPOLLERR come with      *)
(* EPOLLIN, the read that follows ends the connection.                     *)
(***************************************************************************)
EXTENDS Naturals, Sequences, FiniteSets

CONSTANTS
    Client,        \* the connections that clients make, by their numbers
    Busy,          \* bound: those that send, that other threads use, and that
                   \* output piles up for
    Lingering,     \* those that a login on a second connection, or of a second
                   \* user on theirs, may leave in UserManager when they close
    Listener,      \* the channel of the listening socket
    None,          \* no channel
    NumThreads,    \* _numsThread_
    MaxFds,        \* descriptors that the process may still open
    InitEvents     \* kInitEventListSize

ASSUME ServerAssumption ==
    /\ NumThreads \in Nat \ {0} /\ MaxFds \in Nat /\ InitEvents \in Nat \ {0}
    /\ Client \subseteq Nat /\ Busy \cup Lingering \subseteq Client /\ Listener \notin Client
    /\ None \notin Client \cup {Listener}

Main == 0
Loop == 0..NumThreads
Channel == Client \cup {Listener}

\* Descriptors; 0 is none, and ListenFd that of the listening socket.
Fd == 1..MaxFds
ListenFd == MaxFds + 1
NoFd == 0

VARIABLES
    peer,          \* each client: "new", "connected" or "closed"
    backlog,       \* connections that wait for accept
    unread,        \* clients that have sent what the server has not read
    fd,            \* the descriptor of each channel
    nextLoop,      \* _next_ of the thread pool
    loopOf,        \* the loop of each channel
    state,         \* _state_ of each connection
    events, index, \* _events_ and _index_ of each channel
    watch,         \* what epoll has for each channel; Unwatched
    channelmap,    \* _channelmap_ of each poller
    connections,   \* TcpServer's two maps
    held,          \* UserManager and ConnManager hold these
    borrowed,      \* a handler of another thread holds these
    phase,         \* of each loop: "polling", "handling" or "running"
    active,        \* _activeChannels_ of each loop, with their revents
    room,          \* _events_.size() of each poller
    pending,       \* _pendingFunctors_ of each loop
    batch, ran,    \* functors taken, and the connections of those that ran
    fatal          \* epoll_ctl failed and LOG_FATAL ended the process

clientVars == <<peer, backlog, unread>>
pollerVars == <<events, index, watch, channelmap, fatal>>
holderVars == <<connections, held, borrowed, pending, batch, ran>>
loopVars == <<phase, active, room>>
serverVars == <<clientVars, fd, nextLoop, loopOf, state, pollerVars, holderVars,
                loopVars>>

Unwatched == {"nothing"}
EventSet == SUBSET {"read", "write"}
Functor == {"connectEstablished", "removeConnectionInLoop", "connectDestroyed"}
               \X Client

ServerTypeOK ==
    /\ peer \in [Client -> {"new", "connected", "closed"}]
    /\ backlog \in Seq(Client) /\ unread \subseteq Client
    /\ fd \in [Channel -> Fd \cup {NoFd, ListenFd}]
    /\ nextLoop \in 1..NumThreads /\ loopOf \in [Channel -> Loop]
    /\ state \in [Client -> {"none", "connecting", "connected", "disconnected"}]
    /\ events \in [Channel -> EventSet]
    /\ index \in [Channel -> {"new", "added", "deleted"}]
    /\ watch \in [Channel -> EventSet \cup {Unwatched}]
    /\ channelmap \in [Loop -> [Fd \cup {ListenFd} -> Channel \cup {None}]]
    /\ connections \subseteq Client /\ held \subseteq Client
    /\ borrowed \subseteq Client
    /\ phase \in [Loop -> {"polling", "handling", "running"}]
    /\ active \in [Loop -> SUBSET (Channel \X EventSet)]
    /\ room \in [Loop -> Nat \ {0}]
    /\ pending \in [Loop -> Seq(Functor)] /\ batch \in [Loop -> Seq(Functor)]
    /\ ran \in [Loop -> SUBSET Client]
    /\ fatal \in BOOLEAN

ServerInit ==
    /\ peer = [c \in Client |-> "new"] /\ backlog = <<>> /\ unread = {}
    /\ fd = [ch \in Channel |-> IF ch = Listener THEN ListenFd ELSE NoFd]
    /\ nextLoop = 1 /\ loopOf = [ch \in Channel |-> Main]
    /\ state = [c \in Client |-> "none"]
    /\ events = [ch \in Channel |-> {}]
    /\ index = [ch \in Channel |-> "new"]
    /\ watch = [ch \in Channel |-> Unwatched]
    /\ channelmap = [l \in Loop |-> [f \in Fd \cup {ListenFd} |-> None]]
    /\ connections = {} /\ held = {} /\ borrowed = {}
    /\ phase = [l \in Loop |-> "polling"]
    /\ active = [l \in Loop |-> {}]
    /\ room = [l \in Loop |-> InitEvents]
    /\ pending = [l \in Loop |-> <<>>] /\ batch = [l \in Loop |-> <<>>]
    /\ ran = [l \in Loop |-> {}]
    /\ fatal = FALSE

-----------------------------------------------------------------------------
(* Who keeps a connection.                                                 *)

\* Mutant: connectDestroyed is bound to the bare pointer.
Keeps_DestroyedBare(functor) == functor[1] # "connectDestroyed"
\* Every functor is bound to the shared_ptr.
Keeps(functor) == TRUE

Queued(queue, c) ==
    \E i \in 1..Len(queue) : queue[i][2] = c /\ Keeps(queue[i])

Referenced(c) ==
    \/ c \in connections \cup held \cup borrowed
    \/ \E l \in Loop :
          c \in ran[l] \/ Queued(pending[l], c) \/ Queued(batch[l], c)

\* ~Socket closes the descriptor of a connection that nobody holds any more.
\* The descriptors are otherwise as given.
Descriptors(given) ==
    fd' = [ch \in Channel |->
              IF ch \in Client /\ ~Referenced(ch)' THEN NoFd ELSE given[ch]]

queueInLoop(l, kind, c) ==
    pending' = [pending EXCEPT ![l] = Append(@, <<kind, c>>)]

-----------------------------------------------------------------------------
(* Channel and EPollPoller.                                                *)

\* Mutant: the index is not set.
Index_NotAdded(ch) == UNCHANGED index
Index_Added(ch) == index' = [index EXCEPT ![ch] = "added"]

\* EPOLL_CTL_ADD or EPOLL_CTL_MOD.
update(ch, wanted, possible) ==
    IF possible THEN watch' = [watch EXCEPT ![ch] = wanted] /\ UNCHANGED fatal
                ELSE fatal' = TRUE /\ UNCHANGED watch

\* Channel::update and EPollPoller::updateChannel, with the events given.
updateChannel(ch, wanted) ==
    /\ events' = [events EXCEPT ![ch] = wanted]
    /\ \/ /\ index[ch] \in {"new", "deleted"}
          /\ channelmap' =
                IF index[ch] = "new"
                THEN [channelmap EXCEPT ![loopOf[ch]][fd[ch]] = ch] ELSE channelmap
          /\ Index_Added(ch)
          /\ update(ch, wanted, watch[ch] = Unwatched)
       \/ /\ index[ch] = "added" /\ wanted = {}
          /\ watch' = [watch EXCEPT ![ch] = Unwatched]
          /\ index' = [index EXCEPT ![ch] = "deleted"]
          /\ UNCHANGED <<channelmap, fatal>>
       \/ /\ index[ch] = "added" /\ wanted # {}
          /\ update(ch, wanted, watch[ch] # Unwatched)
          /\ UNCHANGED <<index, channelmap>>

EnableReading(ch) == updateChannel(ch, events[ch] \cup {"read"})
EnableWriting(ch) == updateChannel(ch, events[ch] \cup {"write"})
DisableWriting(ch) == updateChannel(ch, events[ch] \ {"write"})
DisableAll(ch) == updateChannel(ch, {})

removeChannel(ch) ==
    /\ channelmap' = [channelmap EXCEPT ![loopOf[ch]][fd[ch]] = None]
    /\ watch' = IF index[ch] = "added" THEN [watch EXCEPT ![ch] = Unwatched]
                                       ELSE watch
    /\ index' = [index EXCEPT ![ch] = "new"]
    /\ UNCHANGED fatal

HasInput(ch) ==
    IF ch = Listener THEN backlog # <<>> ELSE ch \in unread \/ peer[ch] = "closed"
Asked(l, event) == {ch \in Channel : loopOf[ch] = l /\ event \in watch[ch]}

\* Mutant: the list keeps its size.
Resized_Never(l, found) == UNCHANGED room
\* The list was full: it is doubled.
Resized(l, found) ==
    room' = [room EXCEPT ![l] = IF Cardinality(found) = @ THEN 2 * @ ELSE @]

\* epoll_wait and fillActiveChannel.  It returns for an event or a wakeup; a
\* socket may take output at any time.  If more channels are ready than the
\* list has room for, any of them are returned.
poll(l) ==
    /\ phase[l] = "polling"
    /\ \E writable \in SUBSET Asked(l, "write") :
          LET readable == {ch \in Asked(l, "read") : HasInput(ch)}
              ready == readable \cup writable
              revents(ch) == {"read" : d \in readable \cap {ch}}
                                 \cup {"write" : d \in writable \cap {ch}}
          IN  /\ ready # {} \/ pending[l] # <<>>
              /\ \E found \in SUBSET ready :
                    /\ Cardinality(found) <= room[l]
                    /\ found = ready \/ Cardinality(found) = room[l]
                    /\ active' = [active EXCEPT ![l] =
                                     {<<ch, revents(ch)>> : ch \in found}]
                    /\ Resized(l, found)
    /\ phase' = [phase EXCEPT ![l] = "handling"]
    /\ UNCHANGED <<clientVars, fd, nextLoop, loopOf, state, pollerVars, holderVars>>

-----------------------------------------------------------------------------
(* HandlerEvent of one active channel.                                     *)

Handles(l, ch, revents) ==
    /\ phase[l] = "handling" /\ <<ch, revents>> \in active[l]
    /\ active' = [active EXCEPT ![l] = @ \ {<<ch, revents>>}]
    /\ UNCHANGED <<phase, room>>

\* getNextLoop
getNextLoop == nextLoop' = IF nextLoop >= NumThreads THEN 1 ELSE nextLoop + 1

FreeFds == {f \in Fd : \A ch \in Channel : fd[ch] # f}

\* newConnection
newConnection(c) ==
    /\ loopOf' = [loopOf EXCEPT ![c] = nextLoop]
    /\ getNextLoop
    /\ state' = [state EXCEPT ![c] = "connecting"]
    /\ connections' = connections \cup {c}
    /\ queueInLoop(nextLoop, "connectEstablished", c)

\* Mutant: EMFILE ends the listening.
Refused_NotListening == DisableAll(Listener)
\* EMFILE is logged.
Refused == UNCHANGED pollerVars

\* Acceptor::handlerRead accepts one connection, with the lowest descriptor
\* that is free.
Accept ==
    /\ Handles(Main, Listener, {"read"})
    /\ UNCHANGED <<peer, unread, held, borrowed, batch, ran>>
    /\ \/ \E f \in FreeFds :
             /\ \A g \in FreeFds : f <= g
             /\ newConnection(Head(backlog))
             /\ backlog' = Tail(backlog)
             /\ UNCHANGED pollerVars
             /\ Descriptors([fd EXCEPT ![Head(backlog)] = f])
       \/ /\ FreeFds = {}
          /\ Refused
          /\ UNCHANGED <<fd, loopOf, nextLoop, state, connections, pending, backlog>>

\* The connection callback takes a connection from the managers, by the user
\* id it is filed under: m_Conn2UserId keeps what a user's next login has
\* replaced, m_UserId2Conn what another user has logged in on.
LetsGo(c) == held' = held \ {c} \/ (c \in Lingering /\ UNCHANGED held)

\* handlerClose, for a read that finds the end: the connection callback runs,
\* removeConnection goes to the main loop.
handlerClose(l, c, revents) ==
    /\ Handles(l, c, revents)
    /\ "read" \in revents /\ c \notin unread /\ peer[c] = "closed"
    /\ state' = [state EXCEPT ![c] = "disconnected"]
    /\ DisableAll(c)
    /\ LetsGo(c)
    /\ queueInLoop(Main, "removeConnectionInLoop", c)
    /\ UNCHANGED <<clientVars, nextLoop, loopOf, connections, borrowed, batch, ran>>
    /\ Descriptors(fd)

\* handleRead of a message, handleWrite, or both.  Answers that the socket
\* does not take leave output to write, and handleWrite may end that.
handleReadWrite(l, c, revents) ==
    /\ Handles(l, c, revents)
    /\ "read" \in revents => c \in unread
    /\ unread' = unread \ (IF "read" \in revents THEN {c} ELSE {})
    /\ \/ /\ c \in Busy /\ "write" \notin events[c] /\ "read" \in revents
          /\ EnableWriting(c)
       \/ /\ "write" \in events[c] /\ "write" \in revents
          /\ DisableWriting(c)
       \/ UNCHANGED pollerVars
    /\ UNCHANGED <<peer, backlog, fd, nextLoop, loopOf, state, holderVars>>

-----------------------------------------------------------------------------
(* doPendingFunctor.                                                       *)

TakeBatch(l) ==
    /\ phase[l] = "handling" /\ active[l] = {}
    /\ phase' = [phase EXCEPT ![l] = IF pending[l] = <<>> THEN "polling"
                                                         ELSE "running"]
    /\ batch' = [batch EXCEPT ![l] = pending[l]]
    /\ pending' = [pending EXCEPT ![l] = <<>>]
    /\ UNCHANGED <<clientVars, fd, nextLoop, loopOf, state, pollerVars, connections,
                   held, borrowed, ran, active, room>>

\* The functors of the batch are destroyed.
EndBatch(l) ==
    /\ phase[l] = "running" /\ batch[l] = <<>>
    /\ phase' = [phase EXCEPT ![l] = "polling"]
    /\ ran' = [ran EXCEPT ![l] = {}]
    /\ UNCHANGED <<clientVars, nextLoop, loopOf, state, pollerVars, connections,
                   held, borrowed, pending, batch, active, room>>
    /\ Descriptors(fd)

Runs(l, kind, c) ==
    /\ phase[l] = "running" /\ batch[l] # <<>> /\ Head(batch[l]) = <<kind, c>>
    /\ batch' = [batch EXCEPT ![l] = Tail(@)]
    /\ ran' = [ran EXCEPT ![l] = @ \cup {d \in {c} : Keeps(Head(batch[l]))}]
    /\ UNCHANGED <<clientVars, nextLoop, loopOf, borrowed, loopVars>>

\* The connection callback files the connection with the managers.
connectEstablished(l, c) ==
    /\ Runs(l, "connectEstablished", c)
    /\ state' = [state EXCEPT ![c] = "connected"]
    /\ EnableReading(c)
    /\ held' = held \cup {c}
    /\ UNCHANGED <<connections, pending>>
    /\ Descriptors(fd)

removeConnectionInLoop(c) ==
    /\ Runs(Main, "removeConnectionInLoop", c)
    /\ connections' = connections \ {c}
    /\ queueInLoop(loopOf[c], "connectDestroyed", c)
    /\ UNCHANGED <<state, pollerVars, held>>
    /\ Descriptors(fd)

connectDestroyed(l, c) ==
    /\ Runs(l, "connectDestroyed", c)
    /\ IF state[c] = "connected"
       THEN /\ state' = [state EXCEPT ![c] = "disconnected"]
            /\ events' = [events EXCEPT ![c] = {}]
            /\ LetsGo(c)
       ELSE UNCHANGED <<state, events, held>>
    /\ removeChannel(c)
    /\ UNCHANGED <<connections, pending>>
    /\ Descriptors(fd)

-----------------------------------------------------------------------------
(* Start, clients, other threads.                                          *)

\* Acceptor::listen.
listen == EnableReading(Listener)

\* TcpServer::start: the loops of the pool run, the main loop listens.
start ==
    /\ index[Listener] = "new"
    /\ listen
    /\ UNCHANGED <<clientVars, fd, nextLoop, loopOf, state, holderVars, loopVars>>

ClientUnchanged ==
    UNCHANGED <<fd, nextLoop, loopOf, state, pollerVars, holderVars, loopVars>>

\* Clients are numbered in the order in which they connect.
Connect(c) ==
    /\ peer[c] = "new" /\ index[Listener] # "new"
    /\ \A d \in Client : d < c => peer[d] # "new"
    /\ peer' = [peer EXCEPT ![c] = "connected"]
    /\ backlog' = Append(backlog, c)
    /\ UNCHANGED unread /\ ClientUnchanged

\* What a client sends before it is accepted is as good as sent right after.
SendRequest(c) ==
    /\ peer[c] = "connected" /\ fd[c] # NoFd /\ unread' = unread \cup {c}
    /\ UNCHANGED <<peer, backlog>> /\ ClientUnchanged

HangUp(c) ==
    /\ peer[c] = "connected"
    /\ peer' = [peer EXCEPT ![c] = "closed"]
    /\ UNCHANGED <<backlog, unread>> /\ ClientUnchanged

\* A handler of another thread gets a connection from a manager ...
Borrow(c) ==
    /\ c \in held /\ borrowed' = borrowed \cup {c}
    /\ UNCHANGED <<clientVars, fd, nextLoop, loopOf, state, pollerVars, connections,
                   held, pending, batch, ran, loopVars>>

\* ... and lets it go.
Return(c) ==
    /\ c \in borrowed /\ borrowed' = borrowed \ {c}
    /\ UNCHANGED <<clientVars, nextLoop, loopOf, state, pollerVars, connections,
                   held, pending, batch, ran, loopVars>>
    /\ Descriptors(fd)

\* A later login or close of the same user, in any loop, may erase the last
\* entry of a connection that is closed.
Forget(c) ==
    /\ c \in held /\ state[c] = "disconnected" /\ held' = held \ {c}
    /\ UNCHANGED <<clientVars, nextLoop, loopOf, state, pollerVars, connections,
                   borrowed, pending, batch, ran, loopVars>>
    /\ Descriptors(fd)

-----------------------------------------------------------------------------
HandlerEvent(l) ==
    \E a \in active[l] : /\ a[1] \in Client
                         /\ \/ handlerClose(l, a[1], a[2])
                            \/ handleReadWrite(l, a[1], a[2])

RunFunctor(l) ==
    /\ batch[l] # <<>>
    /\ LET c == Head(batch[l])[2] IN
          connectEstablished(l, c) \/ connectDestroyed(l, c)

LoopStep(l) ==
    \/ poll(l) \/ HandlerEvent(l)
    \/ TakeBatch(l) \/ RunFunctor(l) \/ EndBatch(l)

MainStep ==
    \/ LoopStep(Main) \/ start \/ Accept
    \/ /\ batch[Main] # <<>>
       /\ removeConnectionInLoop(Head(batch[Main])[2])

ServerNext ==
    /\ ~fatal
    /\ \/ MainStep \/ \E l \in 1..NumThreads : LoopStep(l)
       \/ \E c \in Client : Connect(c) \/ HangUp(c)
       \/ \E c \in Busy : SendRequest(c) \/ Borrow(c) \/ Return(c)
       \/ \E c \in Lingering : Forget(c)

ServerSpec == ServerInit /\ [][ServerNext]_serverVars

\* The threads of the loops run, and so do the handlers of other threads.
ServerFairSpec ==
    /\ ServerSpec
    /\ WF_serverVars(~fatal /\ MainStep)
    /\ \A l \in 1..NumThreads : WF_serverVars(~fatal /\ LoopStep(l))
    /\ \A c \in Busy : WF_serverVars(~fatal /\ Return(c))

-----------------------------------------------------------------------------
(* Properties.                                                             *)

\* _events_ and _index_ of a channel say what epoll has: so no epoll_ctl fails
\* (a failed ADD or MOD ends the process), and the list of a poller is true.
PollerAgrees ==
    /\ \A ch \in Channel :
          watch[ch] = IF index[ch] = "added" THEN events[ch] ELSE Unwatched
    /\ ~fatal

\* epoll, the pollers' maps, the lists of active channels and the functors
\* refer to connections that still exist, under the descriptor they have.
\* Descriptors are reused, and the last holder of a connection may be a
\* handler in another thread: neither leaves a reference behind.
NothingDangles ==
    /\ \A ch \in Channel : watch[ch] # Unwatched => fd[ch] # NoFd
    /\ \A l \in Loop, f \in Fd : channelmap[l][f] # None =>
          fd[channelmap[l][f]] = f /\ loopOf[channelmap[l][f]] = l
    /\ \A l \in Loop : \A a \in active[l] : fd[a[1]] # NoFd
    /\ \A l \in Loop : \A i \in 1..Len(pending[l]) : fd[pending[l][i][2]] # NoFd
    /\ \A l \in Loop : \A i \in 1..Len(batch[l]) : fd[batch[l][i][2]] # NoFd

\* A connection whose client is gone gives its descriptor back, however much
\* the other clients send: what it still sent is read, its end is found, and
\* every holder lets it go.  Assumed: no second login has left an entry of it
\* in UserManager (UserManager.cc:16, 22-33), for such an entry keeps the
\* connection and its descriptor as long as it stays there.
FdsComeBack ==
    \A c \in Client \ Lingering :
        peer[c] = "closed" /\ fd[c] # NoFd ~> fd[c] = NoFd

\* Clients that wait are accepted as long as there are descriptors, also when
\* accept failed for them before.
WaitingAreAccepted ==
    backlog # <<>> /\ FreeFds # {} ~> backlog = <<>> \/ FreeFds = {}
=============================================================================
