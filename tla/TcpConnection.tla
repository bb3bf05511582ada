--------------------------- MODULE TcpConnection ----------------------------
(***************************************************************************)
(* One TcpConnection of TcpServer, from newConnection to its destructor:   *)
(* its loop, the main loop, the threads that send on it, the socket and    *)
(* the peer.                                                               *)
(*                                                                         *)
(* A functor is <<kind, message>>.  Those bound to a shared_ptr keep the   *)
(* object alive until the batch they run in has ended; sendInLoop is bound *)
(* to the bare this.  A message is MessageSize units, which a write may    *)
(* split, and a unit is a number; the output buffer is that of Buffer.     *)
(* The main loop's part of a close is one step: TcpServer has it whole.    *)
(***************************************************************************)
EXTENDS Buffer

CONSTANTS
    Sender,      \* threads of other loops that send on the connection
    MessageSize, \* units of a message
    MaxMessages, \* bound on the messages
    MayShutdown  \* the timer of the inactive release calls shutdown

ASSUME TcpAssumption ==
    MessageSize \in Nat \ {0} /\ MaxMessages \in Nat /\ MayShutdown \in BOOLEAN

VARIABLES
    state,       \* _state_
    events,      \* what its channel is registered for
    inMap,       \* TcpServer's maps hold it
    held,        \* UserManager and ConnManager hold it
    sender,      \* where each sender is
    mainQueue,   \* functors of the main loop
    ioQueue,     \* functors of its own loop
    batch, next, \* those doPendingFunctor has taken, and the next to run
    outbuf,      \* _outputBuffer_, of module Buffer
    wire,        \* the units written to the socket
    accepted,    \* the units that sendInLoop took over
    sent,        \* messages so far
    calls,       \* how often the connection callback ran, up and down
    peer,        \* "open", "closed" (FIN), "aborted" (RST) or "broken"
    shut,        \* the write side is shut down
    killed,      \* SIGPIPE
    dangling     \* a functor ran on the destroyed object

socketVars == <<outbuf, wire, accepted, peer, shut, killed>>
queueVars == <<mainQueue, ioQueue, batch, next>>
ownVars == <<state, events, inMap, held, calls>>
tcpVars == <<socketVars, queueVars, ownVars, sender, sent, dangling>>

Functor == ({"established", "remove", "destroyed"} \X {0})
              \cup ({"send"} \X (1..MaxMessages))

Output == Readable(outbuf)
Called(ups, downs) == [up |-> ups, down |-> downs]

TcpTypeOK ==
    /\ state \in {"connecting", "connected", "disconnecting", "disconnected"}
    /\ events \subseteq {"read", "write"}
    /\ inMap \in BOOLEAN /\ held \in BOOLEAN
    /\ sender \in [Sender -> {"idle", "found", "checked"}]
    /\ mainQueue \in Seq(Functor) /\ ioQueue \in Seq(Functor)
    /\ batch \in Seq(Functor) /\ next \in 1..(Len(batch) + 1)
    /\ IsBuffer(outbuf) /\ wire \in Seq(Nat) /\ accepted \in Seq(Nat)
    /\ sent \in 0..MaxMessages
    /\ calls \in {Called(0, 0), Called(1, 0), Called(1, 1)}
    /\ peer \in {"open", "closed", "aborted", "broken"}
    /\ shut \in BOOLEAN /\ killed \in BOOLEAN /\ dangling \in BOOLEAN

\* newConnection has filed the connection and queued connectEstablished.
TcpInit ==
    /\ state = "connecting" /\ events = {} /\ inMap = TRUE /\ held = FALSE
    /\ sender = [s \in Sender |-> "idle"]
    /\ mainQueue = <<>> /\ ioQueue = <<<<"established", 0>>>>
    /\ batch = <<>> /\ next = 1
    /\ outbuf = EmptyBuffer /\ wire = <<>> /\ accepted = <<>>
    /\ sent = 0 /\ calls = Called(0, 0)
    /\ peer = "open" /\ shut = FALSE /\ killed = FALSE /\ dangling = FALSE

\* The shared_ptrs to the connection.
Holds(queue) == \E i \in 1..Len(queue) : queue[i][1] # "send"
Freed ==
    /\ ~inMap /\ ~held /\ \A s \in Sender : sender[s] = "idle"
    /\ ~Holds(mainQueue) /\ ~Holds(ioQueue) /\ ~Holds(batch)

-----------------------------------------------------------------------------
(* Writing.                                                                *)

Units(m) == [i \in 1..MessageSize |-> MessageSize * (m - 1) + i]
Drop(s, n) == SubSeq(s, n + 1, Len(s))

\* write() of the units, of which the socket takes n.  A write to a closed
\* peer is answered with RST; after that write() raises SIGPIPE, and so it
\* does after shutdown(SHUT_WR).
WriteTakes(units, n) ==
    /\ ~shut /\ peer \in {"open", "closed"}
    /\ n \in 0..Len(units)
    /\ wire' = wire \o SubSeq(units, 1, n)
    /\ peer' = IF peer = "closed" /\ n > 0 THEN "broken" ELSE peer
    /\ UNCHANGED <<shut, killed>>

\* ECONNRESET.
WriteFails ==
    /\ ~shut /\ peer = "aborted"
    /\ peer' = "broken"
    /\ UNCHANGED <<wire, shut, killed>>

WriteKills ==
    /\ shut \/ peer = "broken"
    /\ killed' = TRUE
    /\ UNCHANGED <<wire, peer, shut>>

\* Mutant: the rest is buffered, and EPOLLOUT is not asked for.
Watch_Missing == UNCHANGED events
\* EnableWriting
Watch == events' = events \cup {"write"}

DirectWrite == "write" \notin events /\ Output = <<>>

\* sendInLoop of message m.
sendInLoop(m) ==
    \/ /\ state = "disconnected"
       /\ UNCHANGED <<socketVars, events>>
    \/ /\ state # "disconnected" /\ DirectWrite
       /\ \E n \in 0..MessageSize :
             /\ WriteTakes(Units(m), n)
             /\ outbuf' = IF n < MessageSize THEN append(outbuf, Drop(Units(m), n))
                                         ELSE outbuf
             /\ IF n < MessageSize THEN Watch ELSE UNCHANGED events
       /\ accepted' = accepted \o Units(m)
    \/ /\ state # "disconnected" /\ DirectWrite
       /\ WriteFails \/ WriteKills
       /\ UNCHANGED <<outbuf, accepted, events>>
    \/ /\ state # "disconnected" /\ ~DirectWrite
       /\ outbuf' = append(outbuf, Units(m))
       /\ accepted' = accepted \o Units(m)
       /\ Watch
       /\ UNCHANGED <<wire, peer, shut, killed>>

\* Mutant: the output buffer is not waited for.
shutdownInLoop_AtOnce == shut' = TRUE
shutdownInLoop == shut' = (shut \/ "write" \notin events')

-----------------------------------------------------------------------------
(* The loop of the connection.  Its socket's events come between batches.  *)

Polling == batch = <<>>

\* A handler of this loop sends: send() calls sendInLoop.
SendHere ==
    /\ Polling /\ state = "connected" /\ sent < MaxMessages
    /\ sent' = sent + 1
    /\ sendInLoop(sent + 1)
    /\ UNCHANGED <<state, inMap, held, calls, queueVars, sender, dangling>>

\* handleWrite.  When everything is written and a shutdown waits for it, it
\* follows.
handleWrite ==
    /\ Polling /\ "write" \in events
    /\ \/ \E n \in 1..Len(Output) :
             /\ ~shut /\ peer \in {"open", "closed"}
             /\ wire' = wire \o SubSeq(Output, 1, n)
             /\ peer' = IF peer = "closed" THEN "broken" ELSE peer
             /\ outbuf' = retrieve(outbuf, n)
             /\ events' = IF n = Len(Output) THEN events \ {"write"} ELSE events
             /\ IF n = Len(Output) /\ state = "disconnecting"
                THEN shutdownInLoop ELSE UNCHANGED shut
             /\ UNCHANGED killed
       \/ (WriteFails \/ WriteKills) /\ UNCHANGED <<outbuf, events>>
    /\ UNCHANGED <<accepted, state, inMap, held, calls, queueVars, sender, sent,
                   dangling>>

\* shutdown(), called by the timer.
shutdown ==
    /\ MayShutdown /\ Polling /\ state = "connected"
    /\ state' = "disconnecting"
    /\ UNCHANGED events /\ shutdownInLoop
    /\ UNCHANGED <<inMap, held, calls, queueVars, sender, sent, dangling, outbuf,
                   wire, accepted, peer, killed>>

DisableAll == events' = {}

\* handlerClose, for EOF or EPOLLHUP.
handlerClose ==
    /\ Polling /\ "read" \in events /\ peer # "open"
    /\ state' = "disconnected"
    /\ DisableAll
    /\ calls' = [calls EXCEPT !.down = @ + 1]
    /\ held' = FALSE
    /\ mainQueue' = Append(mainQueue, <<"remove", 0>>)
    /\ UNCHANGED <<inMap, ioQueue, batch, next, socketVars, sender, sent, dangling>>

TakeBatch ==
    /\ batch = <<>> /\ ioQueue # <<>>
    /\ batch' = ioQueue /\ ioQueue' = <<>> /\ next' = 1
    /\ UNCHANGED <<mainQueue, ownVars, socketVars, sender, sent, dangling>>

\* The batch ends: its functors are destroyed.
EndBatch ==
    /\ batch # <<>> /\ next > Len(batch)
    /\ batch' = <<>> /\ next' = 1
    /\ UNCHANGED <<mainQueue, ioQueue, ownVars, socketVars, sender, sent, dangling>>

Runs(kind) ==
    /\ next <= Len(batch) /\ batch[next][1] = kind
    /\ next' = next + 1
    /\ UNCHANGED <<mainQueue, ioQueue, batch, sender, sent>>

connectEstablished ==
    /\ Runs("established")
    /\ state' = "connected" /\ events' = {"read"}
    /\ calls' = [calls EXCEPT !.up = @ + 1] /\ held' = TRUE
    /\ UNCHANGED <<inMap, socketVars, dangling>>

SendQueued ==
    /\ Runs("send")
    /\ IF Freed THEN dangling' = TRUE /\ UNCHANGED <<socketVars, events>>
                ELSE sendInLoop(batch[next][2]) /\ UNCHANGED dangling
    /\ UNCHANGED <<state, inMap, held, calls>>

connectDestroyed ==
    /\ Runs("destroyed")
    /\ IF state = "connected"
       THEN /\ state' = "disconnected" /\ held' = FALSE
            /\ calls' = [calls EXCEPT !.down = @ + 1]
       ELSE UNCHANGED <<state, calls, held>>
    /\ events' = {}
    /\ UNCHANGED <<inMap, socketVars, dangling>>

IoLoop ==
    \/ TakeBatch \/ EndBatch \/ connectEstablished \/ SendQueued
    \/ connectDestroyed \/ handlerClose

-----------------------------------------------------------------------------
(* Other threads.                                                          *)

\* removeConnectionInLoop.
removeConnection ==
    /\ mainQueue # <<>>
    /\ mainQueue' = Tail(mainQueue)
    /\ inMap' = FALSE
    /\ ioQueue' = Append(ioQueue, <<"destroyed", 0>>)
    /\ UNCHANGED <<batch, next, state, events, held, calls, socketVars, sender,
                   sent, dangling>>

\* A handler of another loop finds the connection in UserManager's map ...
FindConn(s) ==
    /\ held /\ sender[s] = "idle" /\ sent < MaxMessages
    /\ sender' = [sender EXCEPT ![s] = "found"]
    /\ UNCHANGED <<queueVars, ownVars, socketVars, sent, dangling>>

\* ... send() looks at _state_ ...
TestState(s) ==
    /\ sender[s] = "found"
    /\ sender' = [sender EXCEPT ![s] = IF state = "connected" THEN "checked"
                                                              ELSE "idle"]
    /\ UNCHANGED <<queueVars, ownVars, socketVars, sent, dangling>>

\* ... and queues sendInLoop; then the handler lets the connection go.
QueueSend(s) ==
    /\ sender[s] = "checked"
    /\ IF sent < MaxMessages
       THEN /\ sent' = sent + 1
            /\ ioQueue' = Append(ioQueue, <<"send", sent + 1>>)
       ELSE UNCHANGED <<sent, ioQueue>>
    /\ sender' = [sender EXCEPT ![s] = "idle"]
    /\ UNCHANGED <<mainQueue, batch, next, ownVars, socketVars, dangling>>

\* The peer closes, or resets, the connection.
PeerCloses ==
    /\ peer = "open"
    /\ peer' \in {"closed", "aborted"}
    /\ UNCHANGED <<outbuf, wire, accepted, shut, killed, queueVars, ownVars, sender,
                   sent, dangling>>

OtherThreads ==
    removeConnection \/ \E s \in Sender : TestState(s) \/ QueueSend(s)

TcpNext ==
    /\ ~killed /\ ~dangling
    /\ \/ IoLoop \/ SendHere \/ handleWrite \/ shutdown \/ PeerCloses
       \/ OtherThreads \/ \E s \in Sender : FindConn(s)

TcpSpec == TcpInit /\ [][TcpNext]_tcpVars

-----------------------------------------------------------------------------
(* Properties.                                                             *)

\* What the peer may have read and what is still buffered are the messages
\* that sendInLoop took over, whole and in order, whatever the socket took of
\* each of them and whichever thread sent it.
OutputInOrder == wire \o Output = accepted

\* While the connection is open, EPOLLOUT is asked for exactly while there is
\* something to write: output never gets stuck and the loop never spins.
OutputIsWatched == state # "disconnected" => ("write" \in events <=> Output # <<>>)

\* The write side is shut down only when all that was taken over is written.
FlushedBeforeShutdown == [][shut' /\ ~shut => wire' = accepted']_tcpVars

\* "Make sure that the TcpConnection lives as long as the callbacks run"
\* (TcpConnection.cc:162).
LivesInCallbacks == ~dangling

\* "EPIPE says that the peer closed the socket" (TcpConnection.cc:110): a
\* write to such a peer is an error of one connection.
PeerErrorIsLocal == ~killed

\* "Tell the peer that I send no more messages" (TcpConnection.cc:138):
\* nothing is written after the write side was shut down.
ShutdownEndsWriting == killed => ~shut
=============================================================================
