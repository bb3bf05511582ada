---------------------------- MODULE Matchmaking -----------------------------
(***************************************************************************)
(* MatchPool and MatchHandler, composed with the sessions and the rooms:   *)
(* the IO loops run onMatch and onCancelMatch, the match thread pairs      *)
(* users of one tier, files them under a room and pushes the result.       *)
(*                                                                         *)
(* matchLock is MatchPool::m_mutex; the match thread holds it from the     *)
(* moment it leaves the condition variable until it waits again.           *)
(*                                                                         *)
(* A reply a handler sends on its own connection is written at once, in    *)
(* its loop.  What the match thread sends is queued for the connection's   *)
(* loop (TcpConnection::send, EventLoop::queueInLoop) and written when     *)
(* that loop next runs its pending functors.                               *)
(*                                                                         *)
(* A client that has logged in asks for what its view of the protocol lets *)
(* it ask for, one request at a time, about its own user id.  A stranger   *)
(* asks before any login, about any user id: the handlers of MATCH_START   *)
(* and MATCH_CANCEL believe the id in the request.  A null UserInfo that   *)
(* is dereferenced ends the process (crashed).                             *)
(***************************************************************************)
EXTENDS Sessions, Rooms, SequencesExt

CONSTANTS
    InitPoints,  \* the points of each account in the database
    Strangers    \* connections that ask for matches without having logged in

ASSUME InitPointsAssumption == InitPoints \in [User -> Nat]
ASSUME StrangersAssumption == Strangers \subseteq Conn

VARIABLES
    info,        \* the fields of the UserInfo objects that change
    pool,        \* m_matchPool: a list of user ids per tier
    matchLock,   \* the thread that holds MatchPool::m_mutex
    mt,          \* the match thread: program counter and locals
    hnd,         \* the game handler each loop is in
    pending,     \* each loop's _pendingFunctors_: messages to write
    batch,       \* how many of them, from the front, a loop has swapped out
    inbox,       \* the request each client has sent and no loop has read
    client,      \* what each client has been told so far
    crashed      \* the process died of a null dereference

matchVars == <<info, pool, matchLock, mt, hnd, pending, batch, inbox, client,
               crashed>>
vars == <<sessionVars, roomVars, matchVars>>

Tier == 0..2
tierOf(points) == IF points < 2000 THEN 0 ELSE IF points < 4000 THEN 1 ELSE 2

Request == {"start", "cancel", "chess", "chat", "exit"}
HandlerPc == {"none", "begin", "pool", "answer", "sender", "other", "peer",
              "moved", "dbWin", "dbLose", "win", "lose", "tellWin", "tellLose",
              "left"}
HandlerState == [pc : HandlerPc, req : Request \cup {"none"},
                 conn : Conn \cup {NoConn}, user : User \cup {NoUser},
                 obj : Nat, ok : BOOLEAN,
                 other : User \cup {NoUser}, peer : Conn \cup {NoConn}]
MatcherState == [pc : {"awake", "asleep", "scan", "conn1", "conn2", "user1",
                       "user2", "decide", "tell", "create", "gaming", "push1",
                       "push2"},
                 tier : 0..3, u1 : User \cup {NoUser}, u2 : User \cup {NoUser},
                 c1 : Conn \cup {NoConn}, c2 : Conn \cup {NoConn},
                 o1 : Nat, o2 : Nat]
Message == {"matched", "match failed", "chat", "move", "you won", "you lost"}
NoHandler == [pc |-> "none", req |-> "none", conn |-> NoConn, user |-> NoUser,
              obj |-> NoObj, ok |-> FALSE, other |-> NoUser, peer |-> NoConn]
MatcherStart == [pc |-> "awake", tier |-> 0, u1 |-> NoUser, u2 |-> NoUser,
                 c1 |-> NoConn, c2 |-> NoConn, o1 |-> NoObj, o2 |-> NoObj]

MatchTypeOK ==
    /\ info \in Seq([state : {"online", "matching", "gaming"}, points : Nat])
    /\ pool \in [Tier -> Seq(User)]
    /\ matchLock \in Loop \cup {Matcher, NoThread}
    /\ mt \in MatcherState
    /\ hnd \in [Loop -> HandlerState]
    /\ pending \in [Loop -> Seq([conn : Conn, msg : Message])]
    /\ batch \in [Loop -> Nat]
    /\ inbox \in [Conn -> Request \cup {"none"}]
    /\ client \in [Conn -> {"out", "lobby", "asking", "queued", "leaving",
                            "room", "confused"}]
    /\ crashed \in BOOLEAN

MatchInit ==
    /\ info = <<>>
    /\ pool = [t \in Tier |-> <<>>]
    /\ matchLock = NoThread
    /\ mt = MatcherStart
    /\ hnd = [l \in Loop |-> NoHandler]
    /\ pending = [l \in Loop |-> <<>>]
    /\ batch = [l \in Loop |-> 0]
    /\ inbox = [c \in Conn |-> "none"]
    /\ client = [c \in Conn |-> "out"]
    /\ crashed = FALSE

-----------------------------------------------------------------------------
(* What a client makes of a message.  A message its view does not expect   *)
(* leaves it confused; a stranger expects an answer to what it asks.       *)

MatchAnswer == {"start ok", "start failed", "cancel ok", "cancel failed"}

Heard(view, msg) ==
    CASE msg = "login ok"                                        -> "lobby"
      [] msg = "start ok" /\ view = "asking"                     -> "queued"
      [] msg = "start failed" /\ view = "asking"                 -> "lobby"
      [] msg = "cancel ok" /\ view = "leaving"                   -> "lobby"
      [] msg = "cancel failed" /\ view = "leaving"               -> "queued"
      [] msg = "cancel failed" /\ view \in {"room", "lobby"}     -> view
      [] msg = "matched" /\ view \in {"queued", "leaving"}       -> "room"
      [] msg = "match failed" /\ view \in {"queued", "leaving"}  -> "lobby"
      [] msg \in {"chat", "move", "you won", "you lost"}          -> view
      [] msg \in MatchAnswer /\ view = "out"                     -> view
      [] OTHER                                                   -> "confused"

Write(views, c, msg) ==
    IF link[c] = "up" THEN [views EXCEPT ![c] = Heard(@, msg)] ELSE views

\* sendMsg in the connection's own loop: isConnValid, then sendInLoop.
Reply(c, msg) ==
    /\ ConnSetFree
    /\ client' = IF c \in conns THEN Write(client, c, msg) ELSE client

\* Mutant: send does not ask which thread it is in.
Push_Direct(c, msg) ==
    /\ ConnSetFree
    /\ client' = IF c \in conns THEN Write(client, c, msg) ELSE client
    /\ UNCHANGED pending

\* sendMsg from the match thread: isConnValid, then queueInLoop.
Push(c, msg) ==
    /\ ConnSetFree
    /\ UNCHANGED client
    /\ pending' = IF c \in conns
                  THEN [pending EXCEPT ![LoopOf[c]] =
                            Append(@, [conn |-> c, msg |-> msg])]
                  ELSE pending

LoopIdle(l) == io[l] = Idle /\ hnd[l] = NoHandler /\ batch[l] = 0

\* doPendingFunctor swaps out everything that is queued (when none of the last
\* vector is left) and runs it in order, one functor a step.
doPendingFunctor(l) ==
    /\ io[l] = Idle /\ hnd[l] = NoHandler /\ pending[l] # <<>>
    /\ batch' = [batch EXCEPT ![l] =
                    (IF @ = 0 THEN Len(pending[l]) ELSE @) - 1]
    /\ client' = Write(client, Head(pending[l]).conn, Head(pending[l]).msg)
    /\ pending' = [pending EXCEPT ![l] = Tail(@)]
    /\ UNCHANGED <<sessionVars, roomVars, info, pool, matchLock, mt, hnd,
                   inbox, crashed>>

-----------------------------------------------------------------------------
(* The session steps, with what they mean for the rest of the server.      *)

\* Session steps that change nothing here.
SessionOnly(l) ==
    /\ LoginRefused(l) \/ LockForAdd(l) \/ CloseLookup(l) \/ LockForRemove(l)
       \/ removeOnlineUser(l)
    /\ UNCHANGED <<roomVars, matchVars>>

Accept(c) ==
    /\ LoopIdle(LoopOf[c]) /\ addConn(c)
    /\ UNCHANGED <<roomVars, matchVars>>

Login(c, u) ==
    /\ LoopIdle(LoopOf[c]) /\ client[c] = "out"
    /\ onLogin(c, u)
    /\ UNCHANGED <<roomVars, matchVars>>

\* A new UserInfo is ONLINE and has the points the database gave.
LoginAdd(l, points) ==
    /\ addOnlineUser(l)
    /\ info' = Append(info, [state |-> "online", points |-> points])
    /\ UNCHANGED <<roomVars, pool, matchLock, mt, hnd, pending, batch, inbox,
                   client, crashed>>

LoginAck(l) ==
    /\ LoginReply(l)
    /\ IF io[l].user = NoUser THEN UNCHANGED client
       ELSE Reply(io[l].conn, "login ok")
    /\ UNCHANGED <<roomVars, info, pool, matchLock, mt, hnd, pending, batch,
                   inbox, crashed>>

\* The peer hangs up; what it had sent and nobody read is lost.
Disconnect(c) ==
    /\ LoopIdle(LoopOf[c]) /\ removeConn(c)
    /\ inbox' = [inbox EXCEPT ![c] = "none"]
    /\ UNCHANGED <<roomVars, info, pool, matchLock, mt, hnd, pending, batch,
                   client, crashed>>

-----------------------------------------------------------------------------
(* Clients.                                                                *)

Ask(c, view, request, next) ==
    /\ link[c] = "up" /\ client[c] = view /\ inbox[c] = "none"
    /\ inbox' = [inbox EXCEPT ![c] = request]
    /\ client' = [client EXCEPT ![c] = next]
    /\ UNCHANGED <<sessionVars, roomVars, info, pool, matchLock, mt, hnd,
                   pending, batch, crashed>>

AskStart(c) == Ask(c, "lobby", "start", "asking")
AskCancel(c) == Ask(c, "queued", "cancel", "leaving")

-----------------------------------------------------------------------------
(* The handlers of the IO loops.  The user id in the request of a client   *)
(* that has logged in is its own, the one its last LOGIN_ACK told it.      *)

ClientUser(c) ==
    LET own == {o \in 1..Len(heap) : heap[o].conn = c}
    IN  heap[CHOOSE o \in own : \A p \in own : p <= o].user

\* The handler of a request begins, with the user id that is in the request.
Handle(c, request, u) ==
    /\ LoopIdle(LoopOf[c]) /\ link[c] = "up"
    /\ hnd' = [hnd EXCEPT ![LoopOf[c]] =
                  [NoHandler EXCEPT !.pc = "begin", !.req = request,
                                    !.conn = c, !.user = u]]

Begin(c, request) ==
    /\ inbox[c] = request /\ inbox' = [inbox EXCEPT ![c] = "none"]
    /\ Handle(c, request, ClientUser(c))
    /\ UNCHANGED <<sessionVars, roomVars, info, pool, matchLock, mt, pending,
                   batch, client, crashed>>

onMatch(c) == Begin(c, "start")
onCancelMatch(c) == Begin(c, "cancel")

\* A stranger's request, with the id of a user that need not be online: the
\* same two handlers, which look neither at the connection nor at the id.
ForeignRequest(c, request, u) ==
    /\ c \in Strangers /\ client[c] = "out" /\ request \in {"start", "cancel"}
    /\ Handle(c, request, u)
    /\ UNCHANGED <<sessionVars, roomVars, info, pool, matchLock, mt, pending,
                   batch, inbox, client, crashed>>

\* MatchPool::addUser and removeUser both begin by locking the pool and
\* looking the user up.
LockPool(l) ==
    /\ hnd[l].pc = "begin" /\ hnd[l].req \in {"start", "cancel"}
    /\ matchLock = NoThread /\ UserMapsFree
    /\ matchLock' = l
    /\ hnd' = [hnd EXCEPT ![l].pc = "pool",
                          ![l].obj = getUserByUserId(hnd[l].user)]
    /\ UNCHANGED <<sessionVars, roomVars, info, pool, mt, pending, batch,
                   inbox, client, crashed>>

\* A null user passes the test of both functions and is dereferenced.
NullUser(l) ==
    /\ hnd[l].pc = "pool" /\ hnd[l].obj = NoObj
    /\ crashed' = TRUE
    /\ UNCHANGED <<sessionVars, roomVars, info, pool, matchLock, mt, hnd,
                   pending, batch, inbox, client>>

\* Mutant: an early return without the unlock.
Unlock_Forgotten(l, ok) ==
    /\ hnd' = [hnd EXCEPT ![l].pc = "answer", ![l].ok = ok]
    /\ UNCHANGED <<sessionVars, roomVars, matchLock, pending, batch, inbox, client,
                   crashed>>

Unlock(l, ok) ==
    /\ matchLock' = NoThread
    /\ hnd' = [hnd EXCEPT ![l].pc = "answer", ![l].ok = ok]
    /\ UNCHANGED <<sessionVars, roomVars, pending, batch, inbox, client,
                   crashed>>

\* m_cond.notify_one.  Mutant: nobody is notified.
notify_one_Missing == UNCHANGED mt
notify_one ==
    mt' = IF mt.pc = "asleep" THEN [mt EXCEPT !.pc = "awake"] ELSE mt

\* addUser: only a user that is ONLINE joins the list of its tier, becomes
\* MATCHING and wakes the match thread.
addUser(l) ==
    LET o == hnd[l].obj
        t == tierOf(info[o].points)
    IN  /\ hnd[l].pc = "pool" /\ hnd[l].req = "start" /\ o # NoObj
        /\ IF info[o].state # "online"
           THEN Unlock(l, FALSE) /\ UNCHANGED <<info, pool, mt>>
           ELSE /\ pool' = [pool EXCEPT ![t] = Append(@, hnd[l].user)]
                /\ info' = [info EXCEPT ![o].state = "matching"]
                /\ notify_one
                /\ Unlock(l, TRUE)

\* std::list::remove takes every entry of the user out and keeps the order of
\* the others.  Mutant: pop_front.
Without_Front(users, user) == Tail(users)
Without(users, user) ==
    LET kept == {i \in DOMAIN users : users[i] # user}
    IN  [n \in 1..Cardinality(kept) |->
            users[CHOOSE i \in kept : Cardinality({j \in kept : j <= i}) = n]]

\* removeUser: only a user that is MATCHING leaves the list of its tier.
removeFromPool(l) ==
    LET o == hnd[l].obj
        t == tierOf(info[o].points)
    IN  /\ hnd[l].pc = "pool" /\ hnd[l].req = "cancel" /\ o # NoObj
        /\ IF info[o].state # "matching"
           THEN Unlock(l, FALSE) /\ UNCHANGED <<info, pool>>
           ELSE /\ pool' = [pool EXCEPT ![t] = Without(@, hnd[l].user)]
                /\ info' = [info EXCEPT ![o].state = "online"]
                /\ Unlock(l, TRUE)
        /\ UNCHANGED mt

\* MATCH_START_ACK or MATCH_CANCEL_ACK; the handler returns.
MatchAck(l) ==
    /\ hnd[l].pc = "answer"
    /\ Reply(hnd[l].conn,
             CASE hnd[l].req = "start" /\ hnd[l].ok  -> "start ok"
               [] hnd[l].req = "start" /\ ~hnd[l].ok -> "start failed"
               [] hnd[l].req = "cancel" /\ hnd[l].ok -> "cancel ok"
               [] OTHER                              -> "cancel failed")
    /\ hnd' = [hnd EXCEPT ![l] = NoHandler]
    /\ UNCHANGED <<sessionVars, roomVars, info, pool, matchLock, mt, pending,
                   batch, inbox, crashed>>

-----------------------------------------------------------------------------
(* The match thread.                                                       *)

Full(t) == Len(pool[t]) >= 2
restVars == <<sessionVars, hnd, batch, inbox>>

\* The condition is tested under the lock; waiting gives the lock back.
MatcherTest ==
    /\ \/ mt.pc = "awake" /\ matchLock = NoThread
       \/ mt.pc = "scan" /\ \A t \in Tier : t >= mt.tier => ~Full(t)
    /\ IF \E t \in Tier : Full(t)
       THEN /\ mt' = [MatcherStart EXCEPT !.pc = "scan"]
            /\ matchLock' = Matcher
       ELSE /\ mt' = [MatcherStart EXCEPT !.pc = "asleep"]
            /\ matchLock' = NoThread
    /\ UNCHANGED <<restVars, roomVars, info, pool, pending, client, crashed>>

\* The for loop finds the next tier with two users and takes them out.
MatcherTake ==
    /\ mt.pc = "scan"
    /\ \E t \in Tier :
        /\ t >= mt.tier /\ Full(t)
        /\ \A s \in Tier : s >= mt.tier /\ s < t => ~Full(s)
        /\ mt' = [mt EXCEPT !.pc = "conn1", !.tier = t, !.u1 = pool[t][1],
                            !.u2 = pool[t][2]]
        /\ pool' = [pool EXCEPT ![t] = Tail(Tail(@))]
    /\ UNCHANGED <<restVars, roomVars, info, matchLock, pending, client,
                   crashed>>

\* Four lookups, each a critical section of UserManager of its own.
Lookup(from, to, local, value) ==
    mt.pc = from /\ mt' = [mt EXCEPT !.pc = to, ![local] = value]

MatcherLookup ==
    /\ UserMapsFree
    /\ \/ Lookup("conn1", "conn2", "c1", getConnByUserId(mt.u1))
       \/ Lookup("conn2", "user1", "c2", getConnByUserId(mt.u2))
       \/ Lookup("user1", "user2", "o1", getUserByconn(mt.c1))
       \/ Lookup("user2", "decide", "o2", getUserByconn(mt.c2))
    /\ UNCHANGED <<restVars, roomVars, info, pool, matchLock, pending,
                   client, crashed>>

\* "1. before the room is created, has anybody dropped out": the one whose
\* connection is known is set ONLINE again, or dereferenced as null.
MatcherDecide ==
    LET stays == IF mt.c1 = NoConn THEN mt.o2 ELSE mt.o1
        gone  == mt.c1 = NoConn \/ mt.c2 = NoConn
    IN  /\ mt.pc = "decide"
        /\ crashed' = (gone /\ stays = NoObj)
        /\ info' = IF gone /\ stays # NoObj
                   THEN [info EXCEPT ![stays].state = "online"] ELSE info
        /\ mt' = [mt EXCEPT !.pc = IF gone THEN "tell" ELSE "create"]
        /\ UNCHANGED <<restVars, roomVars, pool, matchLock, pending, client>>

\* MATCH_PUSH "the other side dropped out" ... and on to step 2.
MatcherTell ==
    /\ mt.pc = "tell"
    /\ Push(IF mt.c1 = NoConn THEN mt.c2 ELSE mt.c1, "match failed")
    /\ mt' = [mt EXCEPT !.pc = "create"]
    /\ UNCHANGED <<restVars, roomVars, info, pool, matchLock, crashed>>

MatcherCreateRoom ==
    /\ mt.pc = "create"
    /\ createRoom(mt.u1, mt.u2)
    /\ mt' = [mt EXCEPT !.pc = "gaming"]
    /\ UNCHANGED <<restVars, info, pool, matchLock, pending,
                   client, crashed>>

MatcherSetGaming ==
    /\ mt.pc = "gaming"
    /\ IF NoObj \in {mt.o1, mt.o2}
       THEN crashed' = TRUE /\ UNCHANGED <<info, mt>>
       ELSE /\ info' = [o \in DOMAIN info |->
                          IF o \in {mt.o1, mt.o2}
                          THEN [info[o] EXCEPT !.state = "gaming"]
                          ELSE info[o]]
            /\ mt' = [mt EXCEPT !.pc = "push1"]
            /\ UNCHANGED crashed
    /\ UNCHANGED <<restVars, roomVars, pool, matchLock, pending, client>>

\* MATCH_PUSH success, first to white, then to black; on to the next tier.
MatcherPush ==
    /\ \/ /\ mt.pc = "push1" /\ Push(mt.c1, "matched")
          /\ mt' = [mt EXCEPT !.pc = "push2"]
       \/ /\ mt.pc = "push2" /\ Push(mt.c2, "matched")
          /\ mt' = [MatcherStart EXCEPT !.pc = "scan", !.tier = mt.tier + 1]
    /\ UNCHANGED <<restVars, roomVars, info, pool, matchLock, crashed>>

-----------------------------------------------------------------------------
Environment ==
    \E c \in Conn :
        \/ Accept(c) \/ Disconnect(c) \/ AskStart(c) \/ AskCancel(c)
        \/ \E u \in User : \/ Login(c, u)
                           \/ \E r \in Request : ForeignRequest(c, r, u)

HandlerStep(l) ==
    \/ SessionOnly(l) \/ LoginAck(l)
    \/ LockPool(l) \/ addUser(l) \/ removeFromPool(l) \/ NullUser(l)
    \/ MatchAck(l)

LoopStep(l) ==
    \/ HandlerStep(l) \/ LoginAdd(l, InitPoints[io[l].user])
    \/ doPendingFunctor(l)
    \/ \E c \in Conn : LoopOf[c] = l /\ (onMatch(c) \/ onCancelMatch(c))

matchThread ==
    \/ MatcherTest \/ MatcherTake \/ MatcherLookup \/ MatcherDecide
    \/ MatcherTell \/ MatcherCreateRoom \/ MatcherSetGaming \/ MatcherPush

Init == SessionsInit /\ RoomsInit /\ MatchInit

\* Nothing runs after a crash.
Next ==
    /\ ~crashed
    /\ Environment \/ (\E l \in Loop : LoopStep(l)) \/ matchThread

\* The operating system runs the threads, and one round of a loop handles all
\* connections that are ready and all functors that are pending: none of them
\* is passed over for ever.  What clients do is up to them.
Fairness ==
    /\ \A l \in Loop : /\ WF_vars(~crashed /\ LoopStep(l))
                       /\ SF_vars(~crashed /\ doPendingFunctor(l))
    /\ \A c \in Conn : SF_vars(~crashed /\ (onMatch(c) \/ onCancelMatch(c)))
    /\ WF_vars(~crashed /\ matchThread)

Spec == Init /\ [][Next]_vars
FairSpec == Spec /\ Fairness
-----------------------------------------------------------------------------
(* Properties.                                                             *)

Entries(u) ==
    UNION {{t} \X {i \in DOMAIN pool[t] : pool[t][i] = u} : t \in Tier}
InPool(u) == Entries(u) # {}

\* The match thread has taken u out of the pool and still means to pair it.
InHand(u) ==
    /\ u \in {mt.u1, mt.u2}
    /\ \/ mt.pc \in {"conn1", "conn2", "user1", "user2", "decide"}
       \/ mt.pc \in {"create", "gaming"} /\ NoConn \notin {mt.c1, mt.c2}

\* Nobody is in the pool twice (and so nobody can be paired with himself),
\* whatever start, cancel and match steps interleave.
QueuedOnce == \A u \in User : \A e, f \in Entries(u) : e = f

\* The pool and the states of the users agree although they are kept apart:
\* an online user is MATCHING exactly while it waits in the pool or the match
\* thread has it in hand.  Nobody waits unseen, nobody in a game is queued.
MatchingIsQueued ==
    \A u \in User : Online(u) =>
        (info[userObj[u]].state = "matching" <=> InPool(u) \/ InHand(u))

\* No client hears of a match it did not wait for: MATCH_PUSH comes after the
\* MATCH_START_ACK of the search it ends, never after a successful
\* MATCH_CANCEL_ACK, and every answer meets its request, although answers are
\* written by the loop and pushes are queued by the match thread.
ClientsNotConfused == \A c \in Conn : client[c] # "confused"

\* A client that was told of its match has a room, and the server holds for
\* GAMING whoever of its two players is online and still in it.
ToldMeansRoom ==
    \A c \in Conn, u \in User :
        client[c] = "room" /\ userConn[u] = c =>
            /\ roomOf[u] # NoRoom
            /\ \A p \in Players(roomOf[u]) :
                  Online(p) /\ roomOf[p] = roomOf[u] =>
                      p = leaver.user \/ info[userObj[p]].state = "gaming"

\* As long as nobody has hung up, the match thread finds the connection and
\* the UserInfo of both users it has taken: its four lookups, made one by one
\* while other loops log users in and queue them, never send it down the path
\* of a player that dropped out nor to a null UserInfo, whatever clients ask
\* for, on whatever connection and with whatever user id.
PairIsOnline ==
    /\ \A c \in Conn : link[c] # "down"
    /\ mt.pc \in {"decide", "tell", "create", "gaming", "push1", "push2"}
    => NoConn \notin {mt.c1, mt.c2} /\ NoObj \notin {mt.o1, mt.o2}

\* "1. Before the room is created, first judge whether anybody dropped out /
\* 2. Nobody dropped out: create the room for them" (MatchHandler.cc:106,123):
\* no room is created for a pair one of whom was found to be offline.
RoomOnlyWhenNobodyDropped ==
    [][mt.pc = "create" /\ mt'.pc = "gaming"
          => NoConn \notin {mt.c1, mt.c2}]_vars

\* "The other user in the room of a user" (GameRoomManager.h:24) is another.
OtherUserIsAnother ==
    \A u \in User : getUserIdFromOtherId(u) # u

\* The mutexes are not fair: clients that keep asking for ever may keep the
\* others out.  Otherwise ...
EndlessRequests ==
    []<><<\E c \in Conn : \/ AskStart(c) \/ AskCancel(c)
                         \/ \E r \in Request, u \in User :
                                ForeignRequest(c, r, u)>>_vars

\* ... two users of one tier do not wait for ever, and
PairsAreTaken ==
    EndlessRequests \/ \A t \in Tier : Full(t) ~> (~Full(t) \/ crashed)

\* every request is answered, unless its client hangs up or the process died.
RequestsAnswered ==
    EndlessRequests \/
    \A c \in Conn : (client[c] \in {"asking", "leaving"} /\ link[c] = "up") ~>
           (client[c] \notin {"asking", "leaving"} \/ link[c] = "down" \/ crashed)
=============================================================================
