----------------------------- MODULE GameProofs -----------------------------
(***************************************************************************)
(* What the server, the match thread and the clients believe of each other *)
(* never comes apart, for any number of loops, connections, users, rooms   *)
(* and games: the safety properties of Matchmaking and GameServer.         *)
(*                                                                         *)
(* None of them is inductive alone.  Whether a start is accepted depends   *)
(* on the state of the user, that on the exit before it, that on the room  *)
(* the match thread made, and what a client asks next on the news that are *)
(* on their way to it.  The inductive invariant GameInv says for each      *)
(* UserInfo object where its client, its handler, its state, its room and  *)
(* its news stand together (Standing), and what the match thread has       *)
(* looked up of the pair it has in hand (MatcherKnows).                    *)
(*                                                                         *)
(* It holds under four conditions (Undisturbed): every account logs in     *)
(* once, nobody asks for a match before its login, an unlocked search      *)
(* finds what is there, and no loss or win takes anybody's points below 0, *)
(* up to PointWidth or into another tier.  None can be dropped:            *)
(* SessionsSharedConn.cfg and MatchSelf.cfg show what other logins do to   *)
(* the maps and the pool, MatchTwo.cfg lets a stranger end the process,    *)
(* GameRace.cfg shows that a search does meet a writer, GameAtZero.cfg     *)
(* that a loss goes below 0, and GameTierDrift.cfg how points that leave   *)
(* the tier of a queued user keep him in the pool.                         *)
(***************************************************************************)
EXTENDS GameTypes

\* Nobody wins or loses so often that he belongs in another tier.
Steady ==
    \A u \in User, n \in Nat :
        /\ InitPoints[u] - LosePoints * MaxWins <= n
        /\ n <= InitPoints[u] + WinPoints * MaxWins
        => tierOf(n) = tierOf(InitPoints[u])

Undisturbed == Countable /\ Steady /\ Strangers = {}

UserOf(o) == heap[o].user
ConnOf(o) == heap[o].conn
State(o) == info[o].state
Roomed(o) == roomOf[UserOf(o)] # NoRoom

-----------------------------------------------------------------------------
(* Accounts and connections.                                               *)

OneObject ==
    \A o, p \in Obj : UserOf(o) = UserOf(p) \/ ConnOf(o) = ConnOf(p) => o = p

\* A login in progress is of a user and a connection that have no object.
LoginKnows(l) ==
    /\ io[l].pc \in {"query", "add", "reply"} => client[io[l].conn] = "out"
    /\ io[l].pc \in {"query", "add"} =>
          \A o \in Obj : UserOf(o) # io[l].user /\ ConnOf(o) # io[l].conn
    /\ io[l].pc = "reply" =>
          \A o \in Obj : ConnOf(o) = io[l].conn => UserOf(o) = io[l].user

\* Who has not been told of a login has none, but for one whose reply is due.
OutKnows(c) ==
    client[c] = "out" =>
        /\ inbox[c] = "none"
        /\ \A o \in Obj : ConnOf(o) = c => /\ io[LoopOf[c]].pc = "reply"
                                           /\ io[LoopOf[c]].conn = c

ObjectKnows(o) ==
    /\ link[ConnOf(o)] \in {"up", "down"}
    /\ link[ConnOf(o)] = "up" => userObj[UserOf(o)] = o

Accounts ==
    /\ ExclusiveInv
    /\ OneObject
    /\ \A c \in Conn : c \in conns <=> link[c] = "up"
    /\ \A l \in Loop : LoginKnows(l)
    /\ \A c \in Conn : OutKnows(c)
    /\ \A o \in Obj : ObjectKnows(o)
    /\ Strangers = {}

-----------------------------------------------------------------------------
(* Handlers and locks.                                                     *)

Chess == {"begin", "sender", "other", "peer", "moved", "dbWin", "dbLose", "win",
          "lose", "tellWin", "tellLose"}
Chat == {"begin", "sender", "other", "peer"}

\* A handler that runs is that of a client that is connected, and of its user.
Working(l) ==
    /\ \/ hnd[l].req \in {"start", "cancel"} /\ hnd[l].pc \in {"begin", "pool", "answer"}
       \/ hnd[l].req = "chess" /\ hnd[l].pc \in Chess /\ "chess" \in GameAsks
       \/ hnd[l].req = "chat" /\ hnd[l].pc \in Chat
       \/ hnd[l].req = "exit" /\ hnd[l].pc \in {"begin", "sender", "left"}
    /\ LoopOf[hnd[l].conn] = l
    /\ link[hnd[l].conn] = "up"
    /\ io[l] = Idle /\ batch[l] = 0
    /\ client[hnd[l].conn] # "out"
    /\ \A o \in Obj : ConnOf(o) = hnd[l].conn =>
          UserOf(o) = hnd[l].user /\ (hnd[l].pc = "pool" => hnd[l].obj = o)

HandlerKnows(l) == hnd[l] = NoHandler \/ Working(l)

PoolLock ==
    /\ \A l \in Loop : hnd[l].pc = "pool" <=> matchLock = l
    /\ mt.pc \notin {"awake", "asleep"} <=> matchLock = Matcher

RoomLock ==
    /\ \A l \in Loop : hnd[l].pc = "left" <=> roomLock = l
    /\ \A l \in Loop : hnd[l].pc = "left" => leaver.user = hnd[l].user
    /\ roomLock = NoThread => leaver = NoLeaver

Handlers ==
    /\ \A l \in Loop : HandlerKnows(l)
    /\ \A c \in Conn : inbox[c] = "chess" => "chess" \in GameAsks
    /\ PoolLock /\ RoomLock

-----------------------------------------------------------------------------
(* The pool and the match thread.                                          *)

Waits(u) == \E t \in Tier : \E i \in 1..Len(pool[t]) : pool[t][i] = u

PoolKnows ==
    \A t \in Tier : \A i \in 1..Len(pool[t]) :
        /\ \A j \in 1..Len(pool[t]) : pool[t][i] = pool[t][j] => i = j
        /\ \E o \in Obj : /\ UserOf(o) = pool[t][i]
                          /\ State(o) = "matching"
                          /\ tierOf(info[o].points) = t

Taken == {"conn1", "conn2", "user1", "user2", "decide"}
Held(u) == /\ mt.pc \in Taken \cup {"tell", "create", "gaming"}
           /\ u \in {mt.u1, mt.u2}
Gone == NoConn \in {mt.c1, mt.c2}
Stranded == mt.pc \in {"create", "gaming"} /\ Gone

MatchingKnows ==
    \A o \in Obj : /\ State(o) = "matching" => Waits(UserOf(o)) \/ Held(UserOf(o))
                   /\ Held(UserOf(o)) => ~Waits(UserOf(o))

\* The session of o is over: for ever, as nobody logs in again.
Lost(o) == userObj[UserOf(o)] = NoObj

FoundConn(o, c) == c = ConnOf(o) \/ (c = NoConn /\ Lost(o))
FoundObj(o, c, n) == \/ n = o /\ c = ConnOf(o)
                     \/ n = NoObj /\ Lost(o)

\* The objects of the pair in hand, and what is known of them.
Looked(p, q) ==
    /\ UserOf(p) = mt.u1 /\ UserOf(q) = mt.u2
    /\ mt.pc # "conn1" => FoundConn(p, mt.c1)
    /\ mt.pc \notin {"conn1", "conn2"} => FoundConn(q, mt.c2)
    /\ mt.pc \notin {"conn1", "conn2", "user1"} => FoundObj(p, mt.c1, mt.o1)
    /\ mt.pc \notin {"conn1", "conn2", "user1", "user2"} =>
          FoundObj(q, mt.c2, mt.o2)

Paired(p, q) ==
    /\ mt.pc \in Taken \/ (mt.pc \in {"create", "gaming"} /\ ~Gone) =>
          State(p) = "matching" /\ State(q) = "matching"
    /\ mt.pc \in {"tell", "create", "gaming"} /\ Gone =>
          /\ State(p) # "gaming" /\ State(q) # "gaming"
          /\ mt.c1 # NoConn /\ mt.o1 # NoObj => State(p) = "online"
          /\ mt.c1 = NoConn /\ mt.o2 # NoObj => State(q) = "online"
    /\ mt.pc = "tell" => Gone
    /\ mt.pc = "gaming" =>
          /\ Len(rooms) # NoRoom
          /\ roomOf[mt.u1] = Len(rooms) /\ roomOf[mt.u2] = Len(rooms)
          /\ Players(Len(rooms)) = {mt.u1, mt.u2}
    /\ mt.pc \in {"push1", "push2"} => mt.c1 = ConnOf(p) /\ mt.c2 = ConnOf(q)

MatcherKnows ==
    mt.pc \notin {"awake", "asleep", "scan"} =>
        mt.u1 # mt.u2 /\ \E p, q \in Obj : Looked(p, q) /\ Paired(p, q)

Queue == PoolKnows /\ MatchingKnows /\ MatcherKnows

-----------------------------------------------------------------------------
(* Rooms.                                                                  *)

RoomKnows ==
    /\ \A o \in Obj : State(o) = "gaming" => Roomed(o) \/ leaver.user = UserOf(o)
    /\ \A o \in Obj : Roomed(o) => \/ State(o) = "gaming"
                                   \/ mt.pc = "gaming" /\ Held(UserOf(o))
    /\ \A u \in User : roomOf[u] # NoRoom =>
          /\ u \in Players(roomOf[u])
          /\ \E o \in Obj : UserOf(o) = u

-----------------------------------------------------------------------------
(* News of the match thread on its way to a client.                        *)

Queued(c, msg) == \E i \in 1..Len(pending[LoopOf[c]]) :
                      /\ pending[LoopOf[c]][i].conn = c
                      /\ pending[LoopOf[c]][i].msg = msg
PushTurn(c) == \/ mt.pc = "push1" /\ c \in {mt.c1, mt.c2}
               \/ mt.pc = "push2" /\ c = mt.c2
TellTurn(c) == mt.pc = "tell" /\ c = IF mt.c1 = NoConn THEN mt.c2 ELSE mt.c1
Turn(c) == PushTurn(c) \/ TellTurn(c)
Coming(c) == Turn(c) \/ Queued(c, "matched") \/ Queued(c, "match failed")

\* One piece of news at a time for a client, each in its own loop.
OneNews(l, i) ==
    /\ LoopOf[pending[l][i].conn] = l
    /\ pending[l][i].msg \in News =>
          /\ client[pending[l][i].conn] # "out"
          /\ ~Turn(pending[l][i].conn)
          /\ \A j \in 1..Len(pending[l]) :
                /\ pending[l][j].conn = pending[l][i].conn
                /\ pending[l][j].msg \in News
                => i = j

NewsTrue(o) ==
    /\ Queued(ConnOf(o), "matched") \/ PushTurn(ConnOf(o)) =>
          State(o) = "gaming" /\ Roomed(o)
    /\ Queued(ConnOf(o), "match failed") => State(o) = "online" /\ Stranded

NewsKnows ==
    /\ \A l \in Loop : \A i \in 1..Len(pending[l]) : OneNews(l, i)
    /\ \A o \in Obj : NewsTrue(o)

-----------------------------------------------------------------------------
(* Where each client stands: what it believes (view), what it has asked    *)
(* that no loop has read (ask), where the handler of its request is (post),*)
(* the state of its user, whether it has a room, whether news are coming.  *)

Free(state, coming) == state = "online" /\ ~coming
Searching(state, coming) == state = "matching" \/ coming
Playing(state, room, coming) == state = "gaming" /\ room /\ ~coming
Exited(state, room) == state = "gaming" /\ ~room

Rest(post) == post.req = "none"
TooLate(post) ==
    /\ post.req = "cancel"
    /\ post.pc \in {"begin", "pool"} \/ (post.pc = "answer" /\ ~post.ok)
InGame(post) == \/ Rest(post) \/ TooLate(post)
                \/ post.req = "chess" /\ post.pc \in Chess
                \/ post.req = "chat" /\ post.pc \in Chat

Outside(post, state, room, coming, stranded) ==
    \/ /\ Playing(state, room, coming)
       /\ post.req = "exit" /\ post.pc \in {"begin", "sender"}
    \/ Exited(state, room) /\ post.req = "exit" /\ post.pc = "left"
    \/ Free(state, coming) /\ Rest(post)
    \/ Free(state, coming) /\ post.req = "cancel" /\ post.pc = "begin" /\ stranded

InLobby(ask, post, state, room, coming, stranded) ==
    \/ ask = "none" /\ Outside(post, state, room, coming, stranded)
    \/ ask = "exit" /\ Playing(state, room, coming) /\ InGame(post)
    \/ ask = "cancel" /\ Free(state, coming) /\ Rest(post) /\ stranded

InAsking(ask, post, state, room, coming, stranded) ==
    \/ ask = "start" /\ Outside(post, state, room, coming, stranded)
    \/ /\ ask = "none" /\ Free(state, coming)
       /\ post.req = "start" /\ post.pc \in {"begin", "pool"}
    \/ /\ ask = "none" /\ Searching(state, coming)
       /\ post.req = "start" /\ post.pc = "answer" /\ post.ok

InLeaving(ask, post, state, coming) ==
    \/ ask = "cancel" /\ Searching(state, coming) /\ Rest(post)
    \/ ask = "none" /\ Searching(state, coming) /\ TooLate(post)
    \/ /\ ask = "none" /\ Free(state, coming)
       /\ post.req = "cancel" /\ post.pc = "answer" /\ post.ok

Standing(view, ask, post, state, room, coming, stranded) ==
    \/ view = "out" /\ ask = "none" /\ Rest(post) /\ Free(state, coming)
    \/ view = "lobby" /\ InLobby(ask, post, state, room, coming, stranded)
    \/ view = "asking" /\ InAsking(ask, post, state, room, coming, stranded)
    \/ view = "queued" /\ ask = "none" /\ Rest(post) /\ Searching(state, coming)
    \/ view = "leaving" /\ InLeaving(ask, post, state, coming)
    \/ /\ view = "room" /\ ask \in {"none", "chess", "chat", "cancel"}
       /\ InGame(post) /\ Playing(state, room, coming)

Post(c) == IF hnd[LoopOf[c]].conn = c THEN hnd[LoopOf[c]] ELSE NoHandler
Stands(o) == Standing(client[ConnOf(o)], inbox[ConnOf(o)], Post(ConnOf(o)),
                      State(o), Roomed(o), Coming(ConnOf(o)), Stranded)

Clients ==
    /\ \A c \in Conn : client[c] # "confused"
    /\ \A o \in Obj : link[ConnOf(o)] = "up" => Stands(o)
    /\ \A o \in Obj : client[ConnOf(o)] = "room" =>
                          State(o) = "gaming" /\ Roomed(o)

-----------------------------------------------------------------------------
GameInv ==
    /\ Accounts /\ Handlers /\ Queue /\ RoomKnows /\ NewsKnows /\ Clients

Inv == TypeInv /\ PointsInv /\ GameInv

-----------------------------------------------------------------------------
(* What the invariant says of one object, one handler, the pair in hand.   *)

\* Every request is one of a client that has logged in.
LEMMA NoForeign ==
    ASSUME Inv
    PROVE  \A c \in Conn, r \in Request, u \in User : ~ForeignRequest(c, r, u)
BY DEF Inv, GameInv, Accounts, ForeignRequest

LEMMA Objects ==
    ASSUME Inv
    PROVE  /\ Len(heap) \in Nat /\ NoObj \notin Obj
           /\ \A o \in Obj :
                 /\ UserOf(o) \in User /\ ConnOf(o) \in Conn
                 /\ LoopOf[ConnOf(o)] \in Loop
                 /\ State(o) \in {"online", "matching", "gaming"}
                 /\ info[o].points \in Nat
                 /\ roomOf[UserOf(o)] \in Nat
<1>1. TypeInv
  BY DEF Inv
<1>2. info \in Seq(InfoEntry) /\ Len(info) = Len(heap)
  BY <1>1 DEF TypeInv, InfoTypes
<1>3. Len(rooms) \in Nat
  BY <1>1, Ground
<1>4. ASSUME NEW o \in Obj
      PROVE  /\ State(o) \in {"online", "matching", "gaming"}
             /\ info[o].points \in Nat
  <2>1. info[o] \in InfoEntry
    BY <1>2, ElementOfSeq DEF Obj
  <2>2. QED
    BY <2>1 DEF InfoEntry, State
<1>5. ASSUME NEW u \in User PROVE roomOf[u] \in Nat
  BY <1>1, <1>3 DEF TypeInv, RoomsTypeOK
<1>6. ASSUME NEW o \in Obj
      PROVE  /\ UserOf(o) \in User /\ ConnOf(o) \in Conn
             /\ LoopOf[ConnOf(o)] \in Loop
  <2>1. heap[o] \in [user : User, conn : Conn]
    BY <1>1, Ground DEF Obj
  <2>2. UserOf(o) \in User /\ ConnOf(o) \in Conn
    BY <2>1 DEF UserOf, ConnOf
  <2>3. QED
    BY <2>2, LoopOfAssumption
<1>7. QED
  BY <1>1, <1>4, <1>5, <1>6, Ground DEF Obj, NoObj

\* A session that is not over has the object, its user and its connection in
\* the three maps; one that is over has nothing there.
LEMMA Session ==
    ASSUME Inv, NEW o \in Obj
    PROVE  /\ link[ConnOf(o)] = "up" => ~Lost(o)
           /\ ~Lost(o) => /\ userObj[UserOf(o)] = o
                          /\ userConn[UserOf(o)] = ConnOf(o)
                          /\ connUser[ConnOf(o)] = UserOf(o)
           /\ Lost(o) => /\ userConn[UserOf(o)] = NoConn
                         /\ connUser[ConnOf(o)] = NoUser
                         /\ link[ConnOf(o)] = "down"
<1> DEFINE u == UserOf(o)
           c == ConnOf(o)
<1>a. /\ OneToOne /\ OneObject /\ ObjectKnows(o)
  BY DEF Inv, GameInv, Accounts, ExclusiveInv
<1>b. TypeInv /\ u \in User /\ c \in Conn /\ NoObj \notin Obj
  BY Objects DEF Inv
<1>c. /\ OnlineTogether /\ userObj[u] \in 0..Len(heap)
      /\ userConn[u] \in Conn \cup {NoConn} /\ connUser[c] \in User \cup {NoUser}
  BY <1>b, Ground DEF SessionsTypeOK
<1>1. link[c] = "up" => userObj[u] = o
  BY <1>a DEF ObjectKnows
<1>2. ASSUME NEW v \in User, userConn[v] # NoConn
      PROVE  /\ userObj[v] \in Obj
             /\ heap[userObj[v]].user = v /\ heap[userObj[v]].conn = userConn[v]
  <2>1. /\ userObj[v] # NoObj /\ userObj[v] <= Len(heap)
        /\ heap[userObj[v]] = [user |-> v, conn |-> userConn[v]]
    BY <1>2, <1>c DEF OnlineTogether, Online
  <2>2. userObj[v] \in 0..Len(heap)
    BY <1>b, Ground
  <2>3. QED
    BY <2>1, <2>2 DEF Obj, NoObj
<1>3. userConn[u] # NoConn => userObj[u] = o /\ userConn[u] = c
  BY <1>2, <1>a, <1>b DEF OneObject, UserOf, ConnOf
<1>4. userObj[u] = NoObj <=> userConn[u] = NoConn
  BY <1>b, <1>c DEF OnlineTogether, Online
<1>5. ASSUME userObj[u] = NoObj PROVE connUser[c] = NoUser
  <2>1. SUFFICES ASSUME NEW v \in User, connUser[c] = v PROVE FALSE
    BY <1>c
  <2>2. userConn[v] = c /\ c # NoConn
    BY <2>1, <1>a, <1>b, NoConnAssumption DEF OneToOne
  <2>3. userObj[v] \in Obj /\ heap[userObj[v]].user = v /\ heap[userObj[v]].conn = c
    BY <1>2, <2>2
  <2>4. userObj[v] = o
    BY <2>3, <1>a DEF OneObject, ConnOf
  <2>5. v = u
    BY <2>3, <2>4 DEF UserOf
  <2>6. QED
    BY <2>2, <2>5, <1>4, <1>5
<1>6. userConn[u] = c => connUser[c] = u
  BY <1>a, <1>b DEF OneToOne
<1>7. o # NoObj /\ link[c] \in {"up", "down"}
  BY <1>a, <1>b DEF ObjectKnows
<1>8. QED
  BY <1>1, <1>3, <1>4, <1>5, <1>6, <1>7 DEF Lost

\* The handler of loop l, its connection and the object of its client.
LEMMA Worker ==
    ASSUME Inv, NEW l \in Loop, hnd[l] # NoHandler
    PROVE  /\ Working(l) /\ hnd[l].conn \in Conn /\ hnd[l].pc # "none"
           /\ hnd[l].conn \in conns /\ link[hnd[l].conn] = "up"
           /\ LoopOf[hnd[l].conn] = l /\ Post(hnd[l].conn) = hnd[l]
           /\ hnd[l].user \in User
           /\ \E o \in Obj : /\ ConnOf(o) = hnd[l].conn /\ UserOf(o) = hnd[l].user
                             /\ userObj[hnd[l].user] = o
                             /\ connUser[hnd[l].conn] = hnd[l].user
                             /\ Stands(o)
                             /\ hnd[l].pc = "pool" => hnd[l].obj = o
<1>1. Working(l)
  BY DEF Inv, GameInv, Handlers, HandlerKnows
<1>2. hnd[l].pc # "none"
  BY <1>1 DEF Working, Chess, Chat
<1>3. hnd[l].conn \in Conn /\ Owned(hnd[l].conn)
  BY <1>2 DEF Inv, TypeInv, HandlerTypes, MayAsk, GameInv, Accounts
<1>4. link[hnd[l].conn] = "up" /\ LoopOf[hnd[l].conn] = l
  BY <1>1 DEF Working
<1>5. hnd[l].conn \in conns
  BY <1>3, <1>4 DEF Inv, GameInv, Accounts
<1>6. PICK o \in Obj : ConnOf(o) = hnd[l].conn
  BY <1>3 DEF Owned, ConnOf
<1>7. UserOf(o) = hnd[l].user /\ (hnd[l].pc = "pool" => hnd[l].obj = o)
  BY <1>1, <1>6 DEF Working
<1>8. UserOf(o) \in User /\ ~Lost(o)
  BY <1>4, <1>6, Objects, Session
<1>9. userObj[UserOf(o)] = o /\ connUser[ConnOf(o)] = UserOf(o)
  BY <1>8, Session
<1>10. Stands(o)
  BY <1>4, <1>6 DEF Inv, GameInv, Clients
<1>11. Post(hnd[l].conn) = hnd[l]
  BY <1>4 DEF Post
<1>12. QED
  BY <1>1, <1>2, <1>3, <1>4, <1>5, <1>6, <1>7, <1>8, <1>9, <1>10, <1>11

\* A loop that runs a callback of the sessions runs no handler.
LEMMA Resting ==
    ASSUME Inv, NEW l \in Loop, io[l] # Idle \/ batch[l] # 0 \/ hnd[l].pc = "none"
    PROVE  hnd[l] = NoHandler
<1>1. HandlerKnows(l)
  BY DEF Inv, GameInv, Handlers
<1>2. Working(l) => hnd[l].pc # "none"
  BY DEF Working, Chess, Chat
<1>3. QED
  BY <1>1, <1>2 DEF HandlerKnows, Working

\* An object whose client is connected and runs no handler.
LEMMA PostRests ==
    ASSUME NEW c \in Conn, hnd[LoopOf[c]] = NoHandler \/ hnd[LoopOf[c]].conn # c
    PROVE  Post(c) = NoHandler /\ Rest(Post(c))
BY DEF Post, NoHandler, Rest

LEMMA InHandPair ==
    ASSUME Inv, mt.pc \notin {"awake", "asleep", "scan"}
    PROVE  /\ mt.u1 # mt.u2
           /\ \E p, q \in Obj : Looked(p, q) /\ Paired(p, q) /\ p # q
                                /\ ConnOf(p) # ConnOf(q)
<1>1. MatcherKnows /\ OneObject
  BY DEF Inv, GameInv, Queue, Accounts
<1>2. PICK p, q \in Obj : mt.u1 # mt.u2 /\ Looked(p, q) /\ Paired(p, q)
  BY <1>1 DEF MatcherKnows
<1>3. UserOf(p) # UserOf(q)
  BY <1>2 DEF Looked
<1>4. p # q
  BY <1>3
<1>5. ConnOf(p) # ConnOf(q)
  BY <1>1, <1>4 DEF OneObject
<1>6. QED
  BY <1>2, <1>4, <1>5

-----------------------------------------------------------------------------
(* How a client may move on from where it stands.                          *)

\* It asks ...
LEMMA Asks ==
    ASSUME NEW view, NEW ask, NEW post, NEW state, NEW room,
           NEW coming, NEW stranded,
           Standing(view, "none", post, state, room, coming, stranded)
    PROVE  /\ view = "lobby" =>
                Standing("asking", "start", post, state, room, coming, stranded)
           /\ view = "queued" =>
                Standing("leaving", "cancel", post, state, room, coming, stranded)
           /\ view = "room" =>
                /\ Standing("room", "chess", post, state, room, coming, stranded)
                /\ Standing("room", "chat", post, state, room, coming, stranded)
                /\ Standing("lobby", "exit", post, state, room, coming, stranded)
BY DEF Standing, InLobby, InAsking, InLeaving, Outside, InGame, TooLate, Rest,
   Free, Searching, Playing, Exited

\* ... its loop reads what it asked ...
LEMMA Begins ==
    ASSUME NEW view, NEW ask \in Request, NEW post, NEW then, NEW state,
           NEW room, NEW coming, NEW stranded,
           Rest(post), then.req = ask, then.pc = "begin",
           Standing(view, ask, post, state, room, coming, stranded)
    PROVE  Standing(view, "none", then, state, room, coming, stranded)
BY DEF Standing, InLobby, InAsking, InLeaving, Outside, InGame, TooLate, Rest,
   Free, Searching, Playing, Exited, Request, Chess, Chat

\* ... and locks the pool, which it cannot while a pair is stranded.
LEMMA Locks ==
    ASSUME NEW view, NEW ask, NEW post, NEW then, NEW state,
           NEW room, NEW coming, NEW stranded, ~stranded,
           post.req \in {"start", "cancel"}, post.pc = "begin",
           then.req = post.req, then.pc = "pool",
           Standing(view, ask, post, state, room, coming, stranded)
    PROVE  Standing(view, ask, then, state, room, coming, stranded)
BY DEF Standing, InLobby, InAsking, InLeaving, Outside, InGame, TooLate, Rest,
   Free, Searching, Playing, Exited, Chess, Chat

\* A start finds its user ONLINE: it is granted.
LEMMA Starts ==
    ASSUME NEW view, NEW ask, NEW post, NEW then, NEW state,
           NEW room, NEW coming, NEW stranded,
           post.req = "start", post.pc = "pool",
           then.req = "start", then.pc = "answer", then.ok = TRUE,
           Standing(view, ask, post, state, room, coming, stranded)
    PROVE  /\ Free(state, coming)
           /\ Standing(view, ask, then, "matching", room, coming, stranded)
BY DEF Standing, InLobby, InAsking, InLeaving, Outside, InGame, TooLate, Rest,
   Free, Searching, Playing, Exited, Chess, Chat

\* A cancel is granted to whoever still waits, and comes too late for the others.
LEMMA Cancels ==
    ASSUME NEW view, NEW ask, NEW post, NEW then, NEW state,
           NEW room, NEW coming, NEW stranded,
           post.req = "cancel", post.pc = "pool",
           then.req = "cancel", then.pc = "answer",
           Standing(view, ask, post, state, room, coming, stranded)
    PROVE  /\ state = "matching" /\ ~coming /\ then.ok = TRUE =>
                Standing(view, ask, then, "online", room, coming, stranded)
           /\ state # "matching" /\ then.ok = FALSE =>
                Standing(view, ask, then, state, room, coming, stranded)
BY DEF Standing, InLobby, InAsking, InLeaving, Outside, InGame, TooLate, Rest,
   Free, Searching, Playing, Exited, Chess, Chat

Answer(post) ==
    CASE post.req = "start" /\ post.ok  -> "start ok"
      [] post.req = "start" /\ ~post.ok -> "start failed"
      [] post.req = "cancel" /\ post.ok -> "cancel ok"
      [] OTHER                          -> "cancel failed"

LEMMA Answered ==
    ASSUME NEW view, NEW ask, NEW post, NEW then, NEW state,
           NEW room, NEW coming, NEW stranded,
           post.req \in {"start", "cancel"}, post.pc = "answer",
           post.ok \in BOOLEAN, Rest(then),
           Standing(view, ask, post, state, room, coming, stranded)
    PROVE  /\ post.req = "start" => post.ok
           /\ Standing(Heard(view, Answer(post)), ask, then, state, room, coming,
                       stranded)
<1> USE DEF Answer, Standing, InLobby, InAsking, InLeaving, Outside, InGame, TooLate,
        Rest, Free, Searching, Playing, Exited, Chess, Chat
<1>1. CASE post.req = "start"
  <2>1. view = "asking" /\ post.ok /\ ask = "none" /\ Searching(state, coming)
    BY <1>1
  <2>2. QED
    BY <1>1, <2>1 DEF Heard
<1>2. CASE post.req = "cancel" /\ post.ok
  <2>1. view = "leaving" /\ ask = "none" /\ Free(state, coming)
    BY <1>2
  <2>2. QED
    BY <1>2, <2>1 DEF Heard
<1>3. CASE post.req = "cancel" /\ ~post.ok
  <2>1. \/ view = "leaving" /\ ask = "none" /\ Searching(state, coming)
        \/ view = "lobby" /\ ask = "exit" /\ Playing(state, room, coming)
        \/ view = "room" /\ ask \in {"none", "chess", "chat", "cancel"}
           /\ Playing(state, room, coming)
    BY <1>3
  <2>2. QED
    BY <1>3, <2>1 DEF Heard
<1>4. QED
  BY <1>1, <1>2, <1>3

\* The handlers of a room go on or return.
LEMMA Plays ==
    ASSUME NEW view, NEW ask, NEW post, NEW then, NEW state,
           NEW room, NEW coming, NEW stranded,
           Standing(view, ask, post, state, room, coming, stranded),
           \/ post.req = "chess" /\ (Rest(then) \/ (then.req = "chess" /\ then.pc \in Chess))
           \/ post.req = "chat" /\ (Rest(then) \/ (then.req = "chat" /\ then.pc \in Chat))
           \/ /\ post.req = "exit" /\ post.pc \in {"begin", "sender"}
              /\ then.req = "exit" /\ then.pc \in {"begin", "sender"}
    PROVE  Standing(view, ask, then, state, room, coming, stranded)
BY DEF Standing, InLobby, InAsking, InLeaving, Outside, InGame, TooLate, Rest,
   Free, Searching, Playing, Exited

LEMMA Exits ==
    ASSUME NEW view, NEW ask, NEW post, NEW then, NEW state,
           NEW room, NEW coming, NEW stranded,
           Standing(view, ask, post, state, room, coming, stranded),
           post.req = "exit"
    PROVE  /\ post.pc = "sender" /\ then.req = "exit" /\ then.pc = "left" =>
                /\ Playing(state, room, coming)
                /\ Standing(view, ask, then, state, FALSE, coming, stranded)
           /\ post.pc = "left" =>
                /\ state = "gaming" /\ ~room
                /\ ~coming /\ Rest(then) =>
                      Standing(view, ask, then, "online", room, coming, stranded)
BY DEF Standing, InLobby, InAsking, InLeaving, Outside, InGame, TooLate, Rest,
   Free, Searching, Playing, Exited, Chess, Chat

\* The match thread makes up its mind about one that was MATCHING ...
LEMMA Matched ==
    ASSUME NEW view, NEW ask, NEW post, NEW room,
           NEW then, NEW coming, NEW stranded,
           NEW after, NEW state,
           Standing(view, ask, post, "matching", room, coming, stranded)
    PROVE  /\ view # "out"
           /\ state = "matching" \/ after =>
                Standing(view, ask, post, state, then, after, stranded)
BY DEF Standing, InLobby, InAsking, InLeaving, Outside, InGame, TooLate, Rest,
   Free, Searching, Playing, Exited

\* ... and its news are read by a loop that rests.
LEMMA Hears ==
    ASSUME NEW view, NEW ask, NEW post, NEW state,
           NEW room, NEW stranded, Rest(post),
           Standing(view, ask, post, state, room, TRUE, stranded)
    PROVE  /\ state = "gaming" /\ room =>
                Standing(Heard(view, "matched"), ask, post, state, room, FALSE,
                         stranded)
           /\ state = "online" /\ stranded =>
                Standing(Heard(view, "match failed"), ask, post, state, room,
                         FALSE, stranded)
<1> USE DEF Standing, InLobby, InAsking, InLeaving, Outside, InGame, TooLate,
        Rest, Free, Searching, Playing, Exited, Chess, Chat
<1>1. ASSUME state \in {"gaming", "online"}, room \/ state = "online"
      PROVE  \/ view = "queued" /\ ask = "none"
             \/ view = "leaving" /\ ask = "cancel"
  BY <1>1
<1>2. QED
  BY <1>1 DEF Heard

\* News are only on their way to one that was told of its login; a room, a
\* search or a stranded pair matters to those only that say so.
LEMMA Unmoved ==
    ASSUME NEW view, NEW ask, NEW post, NEW state,
           NEW room, NEW coming, NEW stranded,
           NEW then, NEW after,
           Standing(view, ask, post, state, room, coming, stranded),
           stranded => after, then = room \/ state # "gaming"
    PROVE  /\ Standing(view, ask, post, state, then, coming, after)
           /\ view = "out" => ~coming /\ state = "online"
           /\ view = "room" => state = "gaming" /\ room /\ ~coming
           /\ view # "confused"
BY DEF Standing, InLobby, InAsking, InLeaving, Outside, InGame, TooLate, Rest,
   Free, Searching, Playing, Exited

-----------------------------------------------------------------------------
(* What a step does, object by object.                                     *)

LEMMA Grows ==
    ASSUME Inv, GameNext
    PROVE  /\ \A o \in Obj : /\ o \in Obj' /\ heap'[o] = heap[o]
                             /\ UserOf(o)' = UserOf(o) /\ ConnOf(o)' = ConnOf(o)
           /\ \A c : Owned(c) => Owned(c)'
           /\ TypeInv'
<1>1. TypeInv /\ TypeInv'
  BY TypeStep DEF Inv
<1>2. \A o \in Obj : o \in Obj' /\ heap'[o] = heap[o]
  BY <1>1, HeapGrows
<1>3. QED
  BY <1>1, <1>2, HeapGrows DEF UserOf, ConnOf

LEMMA StandsThen ==
    ASSUME NEW o, NEW c, c = ConnOf(o)',
           Standing(client'[c], inbox'[c], Post(c)', State(o)', Roomed(o)',
                    Coming(c)', Stranded')
    PROVE  Stands(o)'
BY DEF Stands

\* The handler of l moves on, the others stay where they are.
LEMMA Moving ==
    ASSUME Inv, NEW l \in Loop, NEW pc, NEW v,
           \/ hnd' = [hnd EXCEPT ![l].pc = pc]
           \/ hnd' = [hnd EXCEPT ![l].pc = pc, ![l].obj = v]
           \/ hnd' = [hnd EXCEPT ![l].pc = pc, ![l].user = v]
           \/ hnd' = [hnd EXCEPT ![l].pc = pc, ![l].other = v]
           \/ hnd' = [hnd EXCEPT ![l].pc = pc, ![l].peer = v]
           \/ hnd' = [hnd EXCEPT ![l].pc = pc, ![l].ok = v]
    PROVE  /\ hnd'[l].pc = pc /\ hnd'[l].req = hnd[l].req
           /\ hnd'[l].conn = hnd[l].conn
           /\ \A m \in Loop : m # l => hnd'[m] = hnd[m]
<1>1. hnd \in [Loop -> HandlerState]
  BY DEF Inv, TypeInv, HandlerTypes
<1>2. hnd[l] \in HandlerState
  BY <1>1
<1> DEFINE h == hnd[l]
           next == hnd'[l]
<1>3. \/ next = [h EXCEPT !.pc = pc]
      \/ next = [h EXCEPT !.pc = pc, !.obj = v]
      \/ next = [h EXCEPT !.pc = pc, !.user = v]
      \/ next = [h EXCEPT !.pc = pc, !.other = v]
      \/ next = [h EXCEPT !.pc = pc, !.peer = v]
      \/ next = [h EXCEPT !.pc = pc, !.ok = v]
  BY <1>1
<1>4. \A m \in Loop : m # l => hnd'[m] = hnd[m]
  BY <1>1
<1> HIDE DEF h, next
<1>5. next.pc = pc /\ next.req = h.req /\ next.conn = h.conn
  BY <1>2, <1>3 DEF HandlerState, h
<1>6. QED
  BY <1>4, <1>5 DEF h, next

LEMMA PostMoves ==
    ASSUME Inv, NEW l \in Loop, hnd[l] # NoHandler,
           \A m \in Loop : m # l => hnd'[m] = hnd[m],
           hnd'[l] = NoHandler \/ hnd'[l].conn = hnd[l].conn
    PROVE  \A c \in Conn : /\ c = hnd[l].conn => Post(c)' = hnd'[l]
                           /\ c # hnd[l].conn => Post(c)' = Post(c)
<1>1. LoopOf[hnd[l].conn] = l /\ hnd[l].conn \in Conn
  BY Worker
<1>2. ASSUME NEW c \in Conn, c = hnd[l].conn PROVE Post(c)' = hnd'[l]
  BY <1>1, <1>2 DEF Post
<1>3. ASSUME NEW c \in Conn, c # hnd[l].conn PROVE Post(c)' = Post(c)
  <2>1. LoopOf[c] \in Loop /\ NoConn \notin Conn
    BY LoopOfAssumption, NoConnAssumption
  <2>2. CASE LoopOf[c] = l
    BY <1>3, <2>1, <2>2 DEF Post, NoHandler
  <2>3. CASE LoopOf[c] # l
    BY <2>1, <2>3 DEF Post
  <2>4. QED
    BY <2>2, <2>3
<1>4. QED
  BY <1>2, <1>3

LEMMA AddUser ==
    ASSUME Inv, NEW l \in Loop, addUser(l)
    PROVE  \E o \in Obj :
              /\ ConnOf(o) = hnd[l].conn /\ UserOf(o) = hnd[l].user
              /\ Stands(o) /\ Post(ConnOf(o)) = hnd[l]
              /\ hnd[l].req = "start" /\ hnd[l].pc = "pool"
              /\ State(o) = "online" /\ ~Coming(ConnOf(o)) /\ State(o)' = "matching"
              /\ \A p \in Obj : /\ p # o => State(p)' = State(p)
                                /\ info'[p].points = info[p].points
              /\ \E t \in Tier : /\ t = tierOf(info[o].points)
                                 /\ pool' = [pool EXCEPT ![t] = Append(@, UserOf(o))]
              /\ hnd' = [hnd EXCEPT ![l].pc = "answer", ![l].ok = TRUE]
              /\ mt.pc \in {"awake", "asleep"} /\ mt'.pc \in {"awake", "asleep"}
              /\ matchLock = l /\ matchLock' = NoThread
<1>1. hnd[l].pc = "pool" /\ hnd[l].req = "start"
  BY DEF addUser
<1>2. hnd[l] # NoHandler
  BY <1>1 DEF NoHandler
<1>3. PICK o \in Obj : /\ ConnOf(o) = hnd[l].conn /\ UserOf(o) = hnd[l].user
                       /\ Stands(o) /\ hnd[l].obj = o
  BY <1>1, <1>2, Worker
<1>4. Post(ConnOf(o)) = hnd[l]
  BY <1>2, <1>3, Worker
<1> DEFINE then == [NoHandler EXCEPT !.req = "start", !.pc = "answer", !.ok = TRUE]
<1>5. then.req = "start" /\ then.pc = "answer" /\ then.ok = TRUE
  BY DEF NoHandler
<1> HIDE DEF then
<1>6. Free(State(o), Coming(ConnOf(o)))
  BY ZenonT(60), <1>1, <1>3, <1>4, <1>5, Starts DEF Stands
<1>7. State(o) = "online" /\ ~Coming(ConnOf(o))
  BY <1>6 DEF Free
<1> DEFINE t == tierOf(info[o].points)
<1>8. /\ pool' = [pool EXCEPT ![t] = Append(@, UserOf(o))]
      /\ info' = [info EXCEPT ![o].state = "matching"]
      /\ notify_one
      /\ matchLock' = NoThread
      /\ hnd' = [hnd EXCEPT ![l].pc = "answer", ![l].ok = TRUE]
  BY <1>3, <1>7 DEF addUser, Unlock, State
<1>9. t \in Tier
  BY DEF tierOf, Tier
<1> HIDE DEF t
<1>10. info \in Seq(InfoEntry) /\ o \in 1..Len(info) /\ Len(info) = Len(heap)
  BY DEF Inv, TypeInv, InfoTypes, Obj
<1>11. /\ State(o)' = "matching"
       /\ \A p \in Obj : /\ p # o => State(p)' = State(p)
                         /\ info'[p].points = info[p].points
  BY <1>8, <1>10, SetState DEF State, Obj
<1>12. matchLock = l /\ mt.pc \in {"awake", "asleep"}
  BY <1>1, Ground DEF Inv, GameInv, Handlers, PoolLock
<1>13. mt'.pc \in {"awake", "asleep"}
  <2>1. mt \in MatcherState
    BY DEF Inv, TypeInv, MatcherTypes
  <2>2. QED
    BY <1>8, <1>12, <2>1 DEF notify_one, MatcherState
<1>14. QED
  BY <1>1, <1>3, <1>4, <1>7, <1>8, <1>9, <1>11, <1>12, <1>13 DEF t

LEMMA RemoveFromPool ==
    ASSUME Inv, NEW l \in Loop, removeFromPool(l)
    PROVE  \E o \in Obj :
              /\ ConnOf(o) = hnd[l].conn /\ UserOf(o) = hnd[l].user
              /\ Stands(o) /\ Post(ConnOf(o)) = hnd[l]
              /\ hnd[l].req = "cancel" /\ hnd[l].pc = "pool"
              /\ \A p \in Obj : /\ p # o => State(p)' = State(p)
                                /\ info'[p].points = info[p].points
              /\ \/ /\ State(o) = "matching" /\ State(o)' = "online"
                    /\ \E t \in Tier :
                          /\ t = tierOf(info[o].points)
                          /\ pool' = [pool EXCEPT ![t] = Without(@, UserOf(o))]
                    /\ hnd' = [hnd EXCEPT ![l].pc = "answer", ![l].ok = TRUE]
                 \/ /\ State(o) # "matching" /\ State(o)' = State(o)
                    /\ UNCHANGED pool
                    /\ hnd' = [hnd EXCEPT ![l].pc = "answer", ![l].ok = FALSE]
              /\ mt.pc \in {"awake", "asleep"} /\ UNCHANGED mt
              /\ matchLock = l /\ matchLock' = NoThread
<1>1. hnd[l].pc = "pool" /\ hnd[l].req = "cancel"
  BY DEF removeFromPool
<1>2. hnd[l] # NoHandler
  BY <1>1 DEF NoHandler
<1>3. PICK o \in Obj : /\ ConnOf(o) = hnd[l].conn /\ UserOf(o) = hnd[l].user
                       /\ Stands(o) /\ hnd[l].obj = o
  BY <1>1, <1>2, Worker
<1>4. Post(ConnOf(o)) = hnd[l]
  BY <1>2, <1>3, Worker
<1> DEFINE t == tierOf(info[o].points)
<1>5. t \in Tier
  BY DEF tierOf, Tier
<1>6. /\ \/ /\ State(o) # "matching" /\ UNCHANGED <<info, pool>>
            /\ hnd' = [hnd EXCEPT ![l].pc = "answer", ![l].ok = FALSE]
         \/ /\ State(o) = "matching"
            /\ pool' = [pool EXCEPT ![t] = Without(@, UserOf(o))]
            /\ info' = [info EXCEPT ![o].state = "online"]
            /\ hnd' = [hnd EXCEPT ![l].pc = "answer", ![l].ok = TRUE]
      /\ matchLock' = NoThread /\ UNCHANGED mt
  BY <1>3 DEF removeFromPool, Unlock, State
<1> HIDE DEF t
<1>7. info \in Seq(InfoEntry) /\ o \in 1..Len(info) /\ Len(info) = Len(heap)
  BY DEF Inv, TypeInv, InfoTypes, Obj
<1>8. info' = [info EXCEPT ![o].state = "online"] =>
         /\ State(o)' = "online"
         /\ \A p \in Obj : /\ p # o => State(p)' = State(p)
                           /\ info'[p].points = info[p].points
  BY <1>7, SetState DEF State, Obj
<1>9. UNCHANGED info =>
         \A p \in Obj : State(p)' = State(p) /\ info'[p].points = info[p].points
  BY DEF State
<1>10. matchLock = l /\ mt.pc \in {"awake", "asleep"}
  BY <1>1, Ground DEF Inv, GameInv, Handlers, PoolLock
<1>11. CASE State(o) = "matching"
  BY <1>1, <1>3, <1>4, <1>5, <1>6, <1>8, <1>10, <1>11 DEF t
<1>12. CASE State(o) # "matching"
  BY <1>1, <1>3, <1>4, <1>6, <1>9, <1>10, <1>12
<1>13. QED
  BY <1>11, <1>12

\* A handler that holds the pool has found its user.
LEMMA NobodyNull ==
    ASSUME Inv, NEW l \in Loop
    PROVE  ~NullUser(l)
<1>1. SUFFICES ASSUME hnd[l].pc = "pool" PROVE hnd[l].obj # NoObj
  BY DEF NullUser
<1>2. hnd[l] # NoHandler
  BY <1>1 DEF NoHandler
<1>3. QED
  BY <1>1, <1>2, Worker, Objects

-----------------------------------------------------------------------------
(* A win that is entered.                                                  *)

\* Points within the wins and losses of a run are in the tier of the account.
LEMMA SteadyTier ==
    ASSUME Undisturbed, NEW u \in User, NEW n \in Nat, NEW w \in Nat, w <= MaxWins,
           NEW a \in Nat, NEW b \in Nat,
           n >= InitPoints[u] - LosePoints * (w - a),
           n <= InitPoints[u] + WinPoints * (w - b)
    PROVE  tierOf(n) = tierOf(InitPoints[u])
<1>1. MaxWins \in Nat /\ InitPoints[u] \in Nat
  BY GameAssumption, InitPointsAssumption
<1>2. /\ InitPoints[u] - 5 * MaxWins <= n
      /\ n <= InitPoints[u] + 10 * MaxWins
  BY <1>1 DEF LosePoints, WinPoints
<1>3. QED
  BY <1>2 DEF Undisturbed, Steady, LosePoints, WinPoints

LEMMA Scored ==
    ASSUME Inv, Undisturbed, GameNext, NEW l \in Loop, NEW pc, NEW next,
           NEW v \in User, NEW delta \in Int, Score(l, pc, next, v, delta),
           NEW o \in Obj
    PROVE  State(o)' = State(o) /\ tierOf(info'[o].points) = tierOf(info[o].points)
<1>a. /\ TypeInv /\ PointsInv /\ Countable
      /\ info \in Seq(InfoEntry) /\ Len(info) = Len(heap) /\ Obj = 1..Len(info)
      /\ PointWidth \in Nat \ {0}
  BY GameAssumption DEF Inv, Undisturbed, TypeInv, InfoTypes, Obj
<1>b. /\ Goto(l, next) /\ UNCHANGED <<wins, userObj, userConn>>
  BY DEF Score, handlerVars, sessionVars
<1>c. PICK x \in RacyFind(v) :
         info' = IF x = NoObj THEN info
                 ELSE [info EXCEPT ![x].points = (@ + delta) % PointWidth]
  BY DEF Score
<1>d. x = userObj[v] /\ v # NoUser
  <2>1. x \in RacyFind(v)
    BY <1>c
  <2>2. QED
    BY <2>1, <1>a, ThreadsAssumption DEF RacyFind, Countable
<1>1. CASE x = NoObj
  BY <1>1, <1>c DEF State
<1>2. CASE x # NoObj
  <2>1. Online(v)
    BY <1>2, <1>a, <1>d, Ground DEF OnlineTogether
  <2>2. x \in Obj
    BY <2>1, <1>a, <1>d, OnlineKnown
  <2> DEFINE n == (info[x].points + delta) % PointWidth
  <2>3. n \in Nat
    <3>1. info[x] \in InfoEntry
      BY <2>2, <1>a, ElementOfSeq
    <3>2. info[x].points + delta \in Int
      BY <3>1 DEF InfoEntry
    <3>3. \A k \in Int, m \in Nat \ {0} : k % m \in Nat
      OBVIOUS
    <3>4. QED
      BY <3>2, <3>3, <1>a
  <2>4. info' = [info EXCEPT ![x].points = n]
    BY <1>2, <1>c
  <2> HIDE DEF n
  <2>5. \A p \in Obj : /\ info'[p].state = info[p].state
                       /\ info'[p].points = IF p = x THEN n ELSE info[p].points
    BY <2>2, <2>3, <2>4, <1>a, SetPoints
  <2>6. CASE o # x
    BY <2>5, <2>6 DEF State
  <2>7. CASE o = x
    <3>1. InMemory(v) = info[o].points /\ InMemory(v)' = n
      BY <2>5, <2>7, <1>b, <1>d DEF InMemory
    <3>2. tierOf(info[o].points) = tierOf(InitPoints[v])
      <4>1. PICK m \in Nat : m = InMemory(v)
        BY <1>a, <2>1, PointsGround
      <4>2. /\ m >= InitPoints[v] - LosePoints * (wins - ToLose)
            /\ m <= InitPoints[v] + WinPoints * (wins - ToWin)
        BY <4>1, <1>a, <2>1 DEF PointsInv, PointsSound, Covered
      <4>3. ToLose \in Nat /\ ToWin \in Nat /\ wins \in Nat /\ wins <= MaxWins
        BY <1>a, <1>b, Tallies, PointsGround
      <4>4. tierOf(m) = tierOf(InitPoints[v])
        BY <4>2, <4>3, SteadyTier
      <4>5. QED
        BY <3>1, <4>1, <4>4
    <3>3. tierOf(n) = tierOf(InitPoints[v])
      <4>1. PointsInv'
        BY <1>a, PointsStep
      <4>2. /\ n >= InitPoints[v] - LosePoints * (wins - ToLose')
            /\ n <= InitPoints[v] + WinPoints * (wins - ToWin')
        <5>1. Online(v)'
          BY <2>1, <1>b DEF Online
        <5>2. QED
          BY <3>1, <4>1, <5>1, <1>b DEF PointsInv, PointsSound, Covered
      <4>3. ToLose' \in Nat /\ ToWin' \in Nat /\ wins \in Nat /\ wins <= MaxWins
        <5>1. /\ ToDb' \in Nat /\ ToDb' <= ToWin' /\ ToWin' <= ToLose'
              /\ ToWin \in Nat /\ ToLose \in Nat
              /\ ToWin' = ToWin
                    + (IF next \in {"dbWin", "dbLose", "win"} THEN 1 ELSE 0)
                    - (IF hnd[l].pc \in {"dbWin", "dbLose", "win"} THEN 1 ELSE 0)
              /\ ToLose' = ToLose + (IF next \in Enters THEN 1 ELSE 0)
                             - (IF hnd[l].pc \in Enters THEN 1 ELSE 0)
          BY <1>a, <1>b, Tallies
        <5>2. ToWin' \in Int /\ ToLose' \in Int
          BY <5>1
        <5>3. wins \in Nat /\ wins <= MaxWins
          BY <1>a, PointsGround
        <5>4. QED
          BY <5>1, <5>2, <5>3
      <4>4. PICK a \in Nat, b \in Nat : a = ToLose' /\ b = ToWin'
        BY <4>3
      <4>5. /\ n >= InitPoints[v] - LosePoints * (wins - a)
            /\ n <= InitPoints[v] + WinPoints * (wins - b)
        BY <4>2, <4>4
      <4>6. QED
        BY <4>3, <4>5, <2>3, SteadyTier
    <3>4. QED
      BY <2>5, <2>7, <3>2, <3>3 DEF State
  <2>8. QED
    BY <2>6, <2>7
<1>3. QED
  BY <1>1, <1>2

\* Entering a win leaves everybody in its state and its tier.
LEMMA WinDoes ==
    ASSUME Inv, Undisturbed, GameNext, NEW l \in Loop, winGame(l) \/ loseGame(l)
    PROVE  /\ \A o \in Obj : /\ State(o)' = State(o)
                             /\ tierOf(info'[o].points) = tierOf(info[o].points)
           /\ crashed' = FALSE
<1>0. PICK v \in User \cup {NoUser}, delta \in Int :
         \E pc, next : Score(l, pc, next, v, delta)
  <2>1. /\ hnd[l].user \in User \cup {NoUser}
        /\ hnd[l].other \in User \cup {NoUser}
    BY DEF Inv, TypeInv, HandlerTypes, HandlerState
  <2>2. WinPoints \in Int /\ PointWidth - LosePoints \in Int
    BY GameAssumption DEF WinPoints, LosePoints
  <2>3. QED
    BY <2>1, <2>2 DEF winGame, loseGame
<1>1. PICK pc, next : Score(l, pc, next, v, delta)
  BY <1>0
<1>2. ASSUME NEW o \in Obj
      PROVE  State(o)' = State(o) /\ tierOf(info'[o].points) = tierOf(info[o].points)
  <2>1. CASE v \in User
    BY <2>1, <1>1, Scored
  <2>2. CASE v = NoUser
    <3>1. info' = info
      BY <2>2, <1>1 DEF Score, RacyFind
    <3>2. QED
      BY <3>1 DEF State
  <2>3. QED
    BY <2>1, <2>2
<1>3. crashed' = FALSE
  BY <1>1 DEF Score, RaceMayCrash, Undisturbed, Countable
<1>4. QED
  BY <1>2, <1>3

\* Nothing is coming to one that is leaving its room.
LEMMA NotComing ==
    ASSUME Inv, NEW o \in Obj, State(o) = "gaming"
    PROVE  /\ ~TellTurn(ConnOf(o)) /\ ~Queued(ConnOf(o), "match failed")
           /\ ~Roomed(o) => ~Coming(ConnOf(o))
<1> DEFINE c == ConnOf(o)
<1>1. NewsTrue(o) /\ OneObject /\ c \in Conn
  BY Objects DEF Inv, GameInv, NewsKnows, Accounts
<1>2. ~Queued(c, "match failed")
  BY <1>1 DEF NewsTrue
<1>3. ASSUME TellTurn(c) PROVE FALSE
  <2>1. mt.pc = "tell" /\ c = IF mt.c1 = NoConn THEN mt.c2 ELSE mt.c1
    BY <1>3 DEF TellTurn
  <2>2. PICK p, q \in Obj : Looked(p, q) /\ Paired(p, q)
    BY <2>1, InHandPair
  <2>3. State(p) # "gaming" /\ State(q) # "gaming"
    BY <2>1, <2>2 DEF Paired
  <2>4. FoundConn(p, mt.c1) /\ FoundConn(q, mt.c2)
    BY <2>1, <2>2 DEF Looked
  <2>5. c # NoConn
    BY <1>1, NoConnAssumption
  <2>6. c = ConnOf(p) \/ c = ConnOf(q)
    BY <2>1, <2>4, <2>5 DEF FoundConn
  <2>7. o = p \/ o = q
    BY <1>1, <2>6 DEF OneObject
  <2>8. QED
    BY <2>3, <2>7
<1>4. ~Roomed(o) => ~PushTurn(c) /\ ~Queued(c, "matched")
  BY <1>1 DEF NewsTrue
<1>5. QED
  BY <1>2, <1>3, <1>4 DEF Coming, Turn

LEMMA ExitRoomDoes ==
    ASSUME Inv, NEW l \in Loop, ExitRoom(l)
    PROVE  \E o \in Obj :
              /\ ConnOf(o) = hnd[l].conn /\ UserOf(o) = hnd[l].user
              /\ Stands(o) /\ Post(ConnOf(o)) = hnd[l]
              /\ hnd[l].req = "exit" /\ hnd[l].pc = "sender"
              /\ Playing(State(o), Roomed(o), Coming(ConnOf(o)))
              /\ roomOf' = [roomOf EXCEPT ![UserOf(o)] = NoRoom]
              /\ roomLock = NoThread /\ roomLock' = l /\ leaver'.user = UserOf(o)
              /\ Len(rooms') = Len(rooms)
              /\ \A q \in 1..Len(rooms) : Players(q)' = Players(q)
              /\ hnd' = [hnd EXCEPT ![l].pc = "left"]
<1>1. hnd[l].req = "exit" /\ hnd[l].pc = "sender" /\ hnd[l] # NoHandler
  BY DEF ExitRoom, At, NoHandler
<1>2. PICK o \in Obj : ConnOf(o) = hnd[l].conn /\ UserOf(o) = hnd[l].user /\ Stands(o)
  BY <1>1, Worker
<1>3. Post(ConnOf(o)) = hnd[l]
  BY <1>1, <1>2, Worker
<1> DEFINE then == [NoHandler EXCEPT !.req = "exit", !.pc = "left"]
<1>4. then.req = "exit" /\ then.pc = "left"
  BY DEF NoHandler
<1> HIDE DEF then
<1>5. Playing(State(o), Roomed(o), Coming(ConnOf(o)))
  <2>1. Standing(client[ConnOf(o)], inbox[ConnOf(o)], hnd[l],
                 State(o), Roomed(o), Coming(ConnOf(o)), Stranded)
    BY <1>2, <1>3 DEF Stands
  <2>2. QED
    BY <1>1, <1>4, <2>1, Exits
<1>6. roomOf[hnd[l].user] # NoRoom /\ hnd[l].user \in User /\ NoUser \notin User
  BY <1>2, <1>5, Objects, Ground DEF Playing, Roomed, Inv
<1>7. removeUser(l, hnd[l].user) /\ Goto(l, "left")
  BY <1>6 DEF ExitRoom, removeUserAbsent
<1> DEFINE r == roomOf[hnd[l].user]
           n == subCount(rooms[r].count)
<1>8. /\ roomLock = NoThread /\ roomLock' = l
      /\ rooms' = [rooms EXCEPT ![r].count = n]
      /\ roomOf' = [roomOf EXCEPT ![UserOf(o)] = NoRoom]
      /\ leaver' = [pc |-> IF n = 0 THEN "relock" ELSE "state", user |-> UserOf(o)]
  BY <1>2, <1>7 DEF removeUser, RoomMapsFree
<1>9. leaver'.user = UserOf(o)
  BY <1>8
<1>10. /\ rooms \in Seq(RoomEntry) /\ Len(rooms) \in Nat
       /\ roomOf[hnd[l].user] \in 0..Len(rooms)
  BY <1>6, Ground DEF Inv, TypeInv, RoomsTypeOK, RoomEntry
<1>11. r \in 1..Len(rooms)
  BY <1>6, <1>10 DEF NoRoom
<1>12. n \in 0..(CountWidth - 1)
  <2>0. rooms[r] \in RoomEntry
    BY <1>10, <1>11, ElementOfSeq
  <2>1. rooms[r].count \in 0..(CountWidth - 1) /\ CountWidth \in Nat \ {0}
    BY <2>0, RoomsAssumption DEF RoomEntry
  <2>2. QED
    BY <2>1 DEF subCount
<1> HIDE DEF r, n
<1>13. /\ Len(rooms') = Len(rooms)
       /\ \A q \in 1..Len(rooms) : Players(q)' = Players(q)
  BY <1>8, <1>10, <1>11, <1>12, SetCount
<1>14. hnd' = [hnd EXCEPT ![l].pc = "left"]
  BY <1>7 DEF Goto
<1>15. QED
  BY <1>1, <1>2, <1>3, <1>5, <1>8, <1>9, <1>13, <1>14

LEMMA ExitDoneDoes ==
    ASSUME Inv, Undisturbed, NEW l \in Loop, ExitDone(l)
    PROVE  \E o \in Obj :
              /\ ConnOf(o) = hnd[l].conn /\ UserOf(o) = hnd[l].user
              /\ Stands(o) /\ Post(ConnOf(o)) = hnd[l]
              /\ hnd[l].req = "exit" /\ hnd[l].pc = "left"
              /\ State(o) = "gaming" /\ ~Roomed(o) /\ ~Coming(ConnOf(o))
              /\ State(o)' = "online"
              /\ \A p \in Obj : /\ p # o => State(p)' = State(p)
                                /\ info'[p].points = info[p].points
              /\ leaver.user = UserOf(o) /\ leaver' = NoLeaver
              /\ roomLock = l /\ roomLock' = NoThread
              /\ hnd' = [hnd EXCEPT ![l] = NoHandler]
              /\ crashed' = FALSE
<1>1. hnd[l].req = "exit" /\ hnd[l].pc = "left" /\ hnd[l] # NoHandler
  BY DEF ExitDone, At, NoHandler
<1>2. PICK o \in Obj : /\ ConnOf(o) = hnd[l].conn /\ UserOf(o) = hnd[l].user
                       /\ Stands(o) /\ userObj[hnd[l].user] = o
  BY <1>1, Worker
<1>3. Post(ConnOf(o)) = hnd[l]
  BY <1>1, <1>2, Worker
<1>4. State(o) = "gaming" /\ ~Roomed(o)
  BY <1>1, <1>2, <1>3 DEF Stands, Standing, InLobby, InAsking, InLeaving,
     Outside, InGame, TooLate, Rest, Exited, Chess, Chat
<1>5. ~Coming(ConnOf(o))
  BY <1>4, NotComing
<1>6. leaver.user = UserOf(o)
  BY <1>1, <1>2 DEF Inv, GameInv, Handlers, RoomLock
<1>7. UserOf(o) \in User /\ NoUser \notin User /\ o # NoObj
  BY Objects, Ground DEF Inv
<1>8. RacyFind(leaver.user) = {o}
  BY <1>2, <1>6, <1>7 DEF RacyFind, Undisturbed, Countable
<1>9. info' = [info EXCEPT ![o].state = "online"]
  BY <1>7, <1>8 DEF ExitDone, setUserState
<1>10. info \in Seq(InfoEntry) /\ o \in 1..Len(info) /\ Len(info) = Len(heap)
  BY DEF Inv, TypeInv, InfoTypes, Obj
<1>11. /\ State(o)' = "online"
       /\ \A p \in Obj : /\ p # o => State(p)' = State(p)
                         /\ info'[p].points = info[p].points
  BY <1>9, <1>10, SetState DEF State, Obj
<1>12. crashed' = FALSE
  BY DEF ExitDone, RaceMayCrash, Undisturbed, Countable
<1>13. /\ leaver' = NoLeaver /\ roomLock = l /\ roomLock' = NoThread
       /\ hnd' = [hnd EXCEPT ![l] = NoHandler]
  BY DEF ExitDone, removeUserDone, Return
<1>14. QED
  BY <1>1, <1>2, <1>3, <1>4, <1>5, <1>6, <1>11, <1>12, <1>13

-----------------------------------------------------------------------------
(* The messages that are queued for the loops.                             *)

LEMMA QueuedMore ==
    ASSUME Inv, NEW c \in Conn, NEW msg \in Message,
           pending' = [pending EXCEPT ![LoopOf[c]] =
                          Append(@, [conn |-> c, msg |-> msg])]
    PROVE  \A d \in Conn : \A x : Queued(d, x)' <=> Queued(d, x) \/ (d = c /\ x = msg)
<1>t. TypeInv
  BY DEF Inv
<1>b. \A m \in Loop : Len(pending[m]) \in Nat
  BY <1>t, MessageQueued
<1>c. \A m \in Loop : Len(pending'[m]) = IF m = LoopOf[c] THEN Len(pending[m]) + 1
                                         ELSE Len(pending[m])
  BY <1>t, MessageQueued
<1>d. \A m \in Loop : \A i \in 1..Len(pending[m]) : pending'[m][i] = pending[m][i]
  BY <1>t, MessageQueued
<1>e. pending'[LoopOf[c]][Len(pending[LoopOf[c]]) + 1] = [conn |-> c, msg |-> msg]
  BY <1>t, MessageQueued
<1> SUFFICES ASSUME NEW d \in Conn, NEW x
             PROVE  Queued(d, x)' <=> Queued(d, x) \/ (d = c /\ x = msg)
  OBVIOUS
<1> DEFINE l == LoopOf[d]
           k == LoopOf[c]
<1>a. l \in Loop /\ k \in Loop
  BY LoopOfAssumption
<1>1. /\ Len(pending[l]) \in Nat
      /\ Len(pending'[l]) = IF l = k THEN Len(pending[l]) + 1 ELSE Len(pending[l])
      /\ \A i \in 1..Len(pending[l]) : pending'[l][i] = pending[l][i]
      /\ l = k => pending'[l][Len(pending[l]) + 1] = [conn |-> c, msg |-> msg]
  BY <1>a, <1>b, <1>c, <1>d, <1>e
<1>2. d = c => l = k
  OBVIOUS
<1> DEFINE n == Len(pending[l])
           q == pending[l]
           r == pending'[l]
<1>3. /\ Queued(d, x) <=> \E i \in 1..n : q[i].conn = d /\ q[i].msg = x
      /\ Queued(d, x)' <=> \E i \in 1..Len(r) : r[i].conn = d /\ r[i].msg = x
  BY DEF Queued
<1> HIDE DEF l, k, n, q, r
<1>4. CASE l = k
  <2>1. n \in Nat /\ Len(r) = n + 1 /\ \A i \in 1..n : r[i] = q[i]
    BY <1>1, <1>4 DEF n, q, r
  <2>2. r[n + 1].conn = c /\ r[n + 1].msg = msg
    BY <1>1, <1>4 DEF n, q, r
  <2>3. \A i \in 1..Len(r) : i \in 1..n \/ i = n + 1
    BY <2>1
  <2>4. \A i \in 1..n : i \in 1..Len(r)
    BY <2>1
  <2>5. n + 1 \in 1..Len(r)
    BY <2>1
  <2>6. QED
    BY <1>3, <2>1, <2>2, <2>3, <2>4, <2>5
<1>5. CASE l # k
  <2>1. d # c /\ Len(r) = n /\ \A i \in 1..n : r[i] = q[i]
    BY <1>1, <1>2, <1>5 DEF n, q, r
  <2>2. QED
    BY <1>3, <2>1
<1>6. QED
  BY <1>4, <1>5

\* Loop l takes the message msg to c off its queue.
Runs(l, c, msg) ==
    /\ Head(pending[l]) = [conn |-> c, msg |-> msg] /\ LoopOf[c] = l
    /\ \A d \in Conn : \A x : Queued(d, x)' => Queued(d, x)
    /\ \A d \in Conn : \A x : Queued(d, x) /\ (d # c \/ msg # x) => Queued(d, x)'
    /\ msg \in News =>
          /\ Queued(c, msg) /\ client[c] # "out" /\ ~Turn(c)
          /\ \A x \in News : ~Queued(c, x)' /\ (Queued(c, x) => x = msg)

LEMMA QueuedLess ==
    ASSUME Inv, NEW l \in Loop, pending[l] # <<>>,
           pending' = [pending EXCEPT ![l] = Tail(@)]
    PROVE  \E c \in Conn, msg \in Message : Runs(l, c, msg)
<1> DEFINE q == pending[l]
           r == pending'[l]
           n == Len(q)
<1>1. /\ n \in Nat /\ 1 \in 1..n /\ Head(q) = q[1]
      /\ Head(q) \in [conn : Conn, msg : Message]
      /\ Len(r) = n - 1
      /\ \A i \in 1..(n - 1) : r[i] = q[i + 1]
      /\ \A k \in Loop \ {l} : pending'[k] = pending[k]
  BY MessageRun DEF Inv
<1>2. \A i \in 1..n : OneNews(l, i)
  BY DEF Inv, GameInv, NewsKnows
<1>a. PICK c \in Conn, msg \in Message : q[1] = [conn |-> c, msg |-> msg]
  BY <1>1
<1>b. OneNews(l, 1)
  BY <1>1, <1>2
<1>c. q[1].conn = c /\ q[1].msg = msg
  BY <1>a
<1>d. LoopOf[c] = l /\ msg \in Message
  BY <1>b, <1>c DEF OneNews
<1>3. /\ q[1].conn = c /\ q[1].msg = msg /\ Head(q) = [conn |-> c, msg |-> msg]
      /\ LoopOf[c] = l /\ msg \in Message
      /\ c \in Conn
  BY <1>a, <1>c, <1>d, <1>1
<1>4. ASSUME NEW d \in Conn, NEW x, LoopOf[d] = l
      PROVE  /\ Queued(d, x) <=> \E i \in 1..n : q[i].conn = d /\ q[i].msg = x
             /\ Queued(d, x)' <=> \E i \in 1..Len(r) : r[i].conn = d /\ r[i].msg = x
  BY <1>4 DEF Queued
<1>5. ASSUME NEW d \in Conn, NEW x, LoopOf[d] # l
      PROVE  Queued(d, x)' <=> Queued(d, x)
  BY <1>1, <1>5, LoopOfAssumption DEF Queued
<1>6. msg \in News =>
         /\ client[c] # "out" /\ ~Turn(c)
         /\ \A j \in 1..n : q[j].conn = c /\ q[j].msg \in News => j = 1
  BY <1>1, <1>2, <1>3 DEF OneNews
<1>7. Queued(c, msg)
  BY <1>1, <1>3, <1>4
<1> HIDE DEF n, q, r
<1>8. \A d \in Conn : \A x : Queued(d, x)' => Queued(d, x)
  <2>1. ASSUME NEW d \in Conn, NEW x, LoopOf[d] = l, Queued(d, x)'
        PROVE  Queued(d, x)
    <3>1. PICK i \in 1..Len(r) : r[i].conn = d /\ r[i].msg = x
      BY <1>4, <2>1
    <3>2. i + 1 \in 1..n /\ r[i] = q[i + 1]
      BY <1>1
    <3>3. QED
      BY <1>4, <2>1, <3>1, <3>2
  <2>2. QED
    BY <1>5, <2>1
<1>9. \A d \in Conn : \A x : Queued(d, x) /\ (d # c \/ msg # x) => Queued(d, x)'
  <2>1. ASSUME NEW d \in Conn, NEW x, LoopOf[d] = l, Queued(d, x), d # c \/ msg # x
        PROVE  Queued(d, x)'
    <3>1. PICK i \in 1..n : q[i].conn = d /\ q[i].msg = x
      BY <1>4, <2>1
    <3>2. i # 1
      BY <2>1, <3>1, <1>3
    <3>3. i - 1 \in 1..Len(r) /\ i - 1 \in 1..(n - 1) /\ (i - 1) + 1 = i
      BY <1>1, <3>2
    <3>4. r[i - 1] = q[i]
      BY <1>1, <3>3
    <3>5. QED
      BY <1>4, <2>1, <3>1, <3>3, <3>4
  <2>2. QED
    BY <1>5, <2>1
<1>10. ASSUME msg \in News, NEW x \in News
       PROVE  ~Queued(c, x)' /\ (Queued(c, x) => x = msg)
  <2>0. /\ Queued(c, x) <=> \E i \in 1..n : q[i].conn = c /\ q[i].msg = x
        /\ Queued(c, x)' <=> \E i \in 1..Len(r) : r[i].conn = c /\ r[i].msg = x
    BY <1>3 DEF Queued, n, q, r
  <2>1. ASSUME Queued(c, x)' PROVE FALSE
    <3>1. PICK i \in 1..Len(r) : r[i].conn = c /\ r[i].msg = x
      BY <2>0, <2>1
    <3>2. i + 1 \in 1..n /\ r[i] = q[i + 1] /\ i + 1 # 1
      BY <1>1
    <3>3. QED
      BY <1>6, <1>10, <3>1, <3>2
  <2>2. ASSUME Queued(c, x) PROVE x = msg
    <3>1. PICK i \in 1..n : q[i].conn = c /\ q[i].msg = x
      BY <2>0, <2>2
    <3>2. i = 1
      BY <1>6, <1>10, <3>1
    <3>3. QED
      BY <3>1, <3>2, <1>3
  <2>3. QED
    BY <2>1, <2>2
<1>11. Runs(l, c, msg)
  BY <1>3, <1>6, <1>7, <1>8, <1>9, <1>10 DEF q, Runs
<1>12. QED
  BY <1>3, <1>11

\* Messages of a game are no news.
Talk == {"chat", "move", "you won", "you lost"}

LEMMA Chatter ==
    ASSUME Inv, NEW l \in Loop, NEW c, NEW msg \in Talk, Send(l, c, msg),
           c \in Conn \/ c \notin conns
    PROVE  /\ \A d \in Conn : \A x \in News : Queued(d, x)' <=> Queued(d, x)
           /\ UNCHANGED client
           /\ \/ UNCHANGED pending
              \/ /\ c \in Conn /\ msg \in Message
                 /\ pending' = [pending EXCEPT ![LoopOf[c]] =
                                   Append(@, [conn |-> c, msg |-> msg])]
<1>1. msg \in Message /\ msg \notin News
  BY DEF Message, News, Talk
<1>2. \/ UNCHANGED <<client, pending>>
      \/ c \in Conn /\ client' = Write(client, c, msg) /\ UNCHANGED pending
      \/ /\ c \in Conn /\ UNCHANGED client
         /\ pending' = [pending EXCEPT ![LoopOf[c]] =
                           Append(@, [conn |-> c, msg |-> msg])]
  BY DEF Send
<1>3. ASSUME c \in Conn, client' = Write(client, c, msg) PROVE UNCHANGED client
  <2>1. client \in [Conn -> {"out", "lobby", "asking", "queued", "leaving",
                             "room", "confused"}]
    BY DEF Inv, TypeInv, ClientTypes
  <2>2. Heard(client[c], msg) = client[c]
    BY DEF Heard, Talk
  <2>3. client' = client \/ client' = [client EXCEPT ![c] = Heard(@, msg)]
    BY <1>3 DEF Write
  <2>4. client' = client \/ client' = [client EXCEPT ![c] = client[c]]
    BY <2>2, <2>3
  <2>5. QED
    BY <2>1, <2>4
<1>4. UNCHANGED pending =>
         \A d \in Conn : \A x \in News : Queued(d, x)' <=> Queued(d, x)
  BY DEF Queued
<1>5. ASSUME c \in Conn, pending' = [pending EXCEPT ![LoopOf[c]] =
                                        Append(@, [conn |-> c, msg |-> msg])]
      PROVE  \A d \in Conn : \A x \in News : Queued(d, x)' <=> Queued(d, x)
  BY <1>1, <1>5, QueuedMore
<1>6. QED
  BY <1>1, <1>2, <1>3, <1>4, <1>5

\* What the handlers of a room send, and to whom.
Talks(l) == onChat(l) \/ TellMove(l) \/ TellWinner(l) \/ TellLoser(l)

LEMMA TalkDoes ==
    ASSUME Inv, NEW l \in Loop, Talks(l)
    PROVE  /\ \A d \in Conn : \A x \in News : Queued(d, x)' <=> Queued(d, x)
           /\ UNCHANGED client
           /\ \/ UNCHANGED pending
              \/ \E c \in Conn, msg \in Talk :
                    /\ msg \in Message
                    /\ pending' = [pending EXCEPT ![LoopOf[c]] =
                                      Append(@, [conn |-> c, msg |-> msg])]
<1>1. PICK c \in Conn \cup {NoConn}, msg \in Talk : Send(l, c, msg)
  <2>1. /\ hnd[l].peer \in Conn \cup {NoConn}
        /\ hnd[l].conn \in Conn \cup {NoConn}
    BY DEF Inv, TypeInv, HandlerTypes, HandlerState
  <2>2. \/ \E msg \in Talk : Send(l, hnd[l].peer, msg)
        \/ \E msg \in Talk : Send(l, hnd[l].conn, msg)
    BY DEF Talks, Talk, onChat, TellMove, TellWinner, TellLoser
  <2>3. QED
    BY <2>1, <2>2
<1>2. c \in Conn \/ c \notin conns
  BY Ground DEF Inv, SessionsTypeOK
<1>3. QED
  BY <1>1, <1>2, Chatter, Zenon

-----------------------------------------------------------------------------
(* The match thread.                                                       *)

LEMMA MatcherMoves ==
    ASSUME Inv, NEW pc, mt' = [mt EXCEPT !.pc = pc]
    PROVE  /\ mt'.pc = pc /\ mt'.u1 = mt.u1 /\ mt'.u2 = mt.u2
           /\ mt'.c1 = mt.c1 /\ mt'.c2 = mt.c2
           /\ mt'.o1 = mt.o1 /\ mt'.o2 = mt.o2
<1>1. mt \in MatcherState
  BY DEF Inv, TypeInv, MatcherTypes
<1>2. QED
  BY <1>1 DEF MatcherState

LEMMA MatcherLooks ==
    ASSUME Inv, MatcherLookup
    PROVE  /\ mt'.u1 = mt.u1 /\ mt'.u2 = mt.u2
           /\ \/ /\ mt.pc = "conn1" /\ mt'.pc = "conn2"
                 /\ mt'.c1 = getConnByUserId(mt.u1)
              \/ /\ mt.pc = "conn2" /\ mt'.pc = "user1" /\ mt'.c1 = mt.c1
                 /\ mt'.c2 = getConnByUserId(mt.u2)
              \/ /\ mt.pc = "user1" /\ mt'.pc = "user2"
                 /\ mt'.c1 = mt.c1 /\ mt'.c2 = mt.c2
                 /\ mt'.o1 = getUserByconn(mt.c1)
              \/ /\ mt.pc = "user2" /\ mt'.pc = "decide"
                 /\ mt'.c1 = mt.c1 /\ mt'.c2 = mt.c2 /\ mt'.o1 = mt.o1
                 /\ mt'.o2 = getUserByconn(mt.c2)
<1>1. mt \in MatcherState
  BY DEF Inv, TypeInv, MatcherTypes
<1>2. ASSUME NEW value,
             mt' = [mt EXCEPT !.pc = "conn2", !["c1"] = value]
      PROVE  /\ mt'.u1 = mt.u1 /\ mt'.u2 = mt.u2
             /\ mt'.pc = "conn2" /\ mt'.c1 = value
  BY <1>1, <1>2 DEF MatcherState
<1>3. ASSUME NEW value,
             mt' = [mt EXCEPT !.pc = "user1", !["c2"] = value]
      PROVE  /\ mt'.u1 = mt.u1 /\ mt'.u2 = mt.u2
             /\ mt'.pc = "user1" /\ mt'.c1 = mt.c1 /\ mt'.c2 = value
  BY <1>1, <1>3 DEF MatcherState
<1>4. ASSUME NEW value,
             mt' = [mt EXCEPT !.pc = "user2", !["o1"] = value]
      PROVE  /\ mt'.u1 = mt.u1 /\ mt'.u2 = mt.u2
             /\ mt'.pc = "user2" /\ mt'.c1 = mt.c1 /\ mt'.c2 = mt.c2
             /\ mt'.o1 = value
  BY <1>1, <1>4 DEF MatcherState
<1>5. ASSUME NEW value,
             mt' = [mt EXCEPT !.pc = "decide", !["o2"] = value]
      PROVE  /\ mt'.u1 = mt.u1 /\ mt'.u2 = mt.u2
             /\ mt'.pc = "decide" /\ mt'.c1 = mt.c1 /\ mt'.c2 = mt.c2
             /\ mt'.o1 = mt.o1 /\ mt'.o2 = value
  BY <1>1, <1>5 DEF MatcherState
<1>6. QED
  BY <1>2, <1>3, <1>4, <1>5 DEF MatcherLookup, Lookup

\* What the match thread finds of the pair it has looked up.
LEMMA Found ==
    ASSUME Inv, mt.pc \in {"decide", "tell", "create", "gaming"},
           NEW p \in Obj, NEW q \in Obj, Looked(p, q)
    PROVE  /\ mt.c1 = ConnOf(p) \/ (mt.c1 = NoConn /\ Lost(p))
           /\ mt.c2 = ConnOf(q) \/ (mt.c2 = NoConn /\ Lost(q))
           /\ (mt.o1 = p /\ mt.c1 = ConnOf(p)) \/ (mt.o1 = NoObj /\ Lost(p))
           /\ (mt.o2 = q /\ mt.c2 = ConnOf(q)) \/ (mt.o2 = NoObj /\ Lost(q))
           /\ ConnOf(p) # NoConn /\ ConnOf(q) # NoConn /\ p # NoObj /\ q # NoObj
BY Objects, NoConnAssumption DEF Looked, FoundConn, FoundObj

LEMMA DecideDoes ==
    ASSUME Inv, MatcherDecide
    PROVE  \E p, q \in Obj :
              /\ p # q /\ Looked(p, q) /\ ConnOf(p) # ConnOf(q)
              /\ State(p) = "matching" /\ State(q) = "matching"
              /\ mt.pc = "decide"
              /\ mt'.u1 = mt.u1 /\ mt'.u2 = mt.u2 /\ mt'.c1 = mt.c1
              /\ mt'.c2 = mt.c2 /\ mt'.o1 = mt.o1 /\ mt'.o2 = mt.o2
              /\ \/ /\ ~Gone /\ mt'.pc = "create" /\ crashed' = FALSE
                    /\ UNCHANGED info
                 \/ /\ Gone /\ mt'.pc = "tell" /\ crashed' = TRUE
                    /\ UNCHANGED info /\ (Lost(p) \/ Lost(q))
                    /\ (mt.c1 # NoConn => mt.o1 = NoObj)
                    /\ (mt.c1 = NoConn => mt.o2 = NoObj)
                 \/ /\ Gone /\ mt'.pc = "tell" /\ crashed' = FALSE
                    /\ \E o \in {p, q} :
                          /\ o = IF mt.c1 = NoConn THEN q ELSE p
                          /\ ConnOf(o) = IF mt.c1 = NoConn THEN mt.c2 ELSE mt.c1
                          /\ State(o)' = "online"
                          /\ \A r \in Obj :
                                /\ r # o => State(r)' = State(r)
                                /\ info'[r].points = info[r].points
<1> DEFINE stays == IF mt.c1 = NoConn THEN mt.o2 ELSE mt.o1
<1>1. /\ mt.pc = "decide" /\ crashed' = (Gone /\ stays = NoObj)
      /\ info' = IF Gone /\ stays # NoObj
                 THEN [info EXCEPT ![stays].state = "online"] ELSE info
      /\ mt' = [mt EXCEPT !.pc = IF Gone THEN "tell" ELSE "create"]
  BY DEF MatcherDecide, Gone
<1>2. PICK p, q \in Obj : /\ Looked(p, q) /\ Paired(p, q) /\ p # q
                          /\ ConnOf(p) # ConnOf(q)
  BY <1>1, InHandPair
<1>3. State(p) = "matching" /\ State(q) = "matching"
  BY <1>1, <1>2 DEF Paired, Taken
<1>4. /\ mt.c1 = ConnOf(p) \/ (mt.c1 = NoConn /\ Lost(p))
      /\ mt.c2 = ConnOf(q) \/ (mt.c2 = NoConn /\ Lost(q))
      /\ (mt.o1 = p /\ mt.c1 = ConnOf(p)) \/ (mt.o1 = NoObj /\ Lost(p))
      /\ (mt.o2 = q /\ mt.c2 = ConnOf(q)) \/ (mt.o2 = NoObj /\ Lost(q))
      /\ ConnOf(p) # NoConn /\ ConnOf(q) # NoConn /\ p # NoObj /\ q # NoObj
  BY <1>1, <1>2, Found
<1>5. /\ mt'.pc = IF Gone THEN "tell" ELSE "create"
      /\ mt'.u1 = mt.u1 /\ mt'.u2 = mt.u2 /\ mt'.c1 = mt.c1
      /\ mt'.c2 = mt.c2 /\ mt'.o1 = mt.o1 /\ mt'.o2 = mt.o2
  BY <1>1, MatcherMoves
<1>6. info \in Seq(InfoEntry) /\ Len(info) = Len(heap)
  BY DEF Inv, TypeInv, InfoTypes
<1>7. ASSUME NEW o \in Obj, info' = [info EXCEPT ![o].state = "online"]
      PROVE  /\ State(o)' = "online"
             /\ \A r \in Obj : /\ r # o => State(r)' = State(r)
                               /\ info'[r].points = info[r].points
  BY <1>6, <1>7, SetState DEF State, Obj
<1>8. CASE ~Gone
  BY <1>1, <1>2, <1>3, <1>5, <1>8
<1>9. CASE Gone /\ stays = NoObj
  <2>1. /\ crashed' = TRUE /\ UNCHANGED info /\ (Lost(p) \/ Lost(q))
        /\ (mt.c1 # NoConn => mt.o1 = NoObj) /\ (mt.c1 = NoConn => mt.o2 = NoObj)
    BY <1>1, <1>4, <1>9
  <2>2. QED
    BY <1>1, <1>2, <1>3, <1>5, <1>9, <2>1
<1>10. CASE Gone /\ stays # NoObj
  <2>1. PICK o \in {p, q} : o = IF mt.c1 = NoConn THEN q ELSE p
    OBVIOUS
  <2>2. stays = o /\ ConnOf(o) = IF mt.c1 = NoConn THEN mt.c2 ELSE mt.c1
    BY <1>4, <1>10, <2>1
  <2>3. crashed' = FALSE /\ info' = [info EXCEPT ![o].state = "online"]
    BY <1>1, <1>10, <2>2
  <2>4. /\ State(o)' = "online"
        /\ \A r \in Obj : /\ r # o => State(r)' = State(r)
                          /\ info'[r].points = info[r].points
    BY <1>7, <2>3
  <2> HIDE DEF stays
  <2>5. QED
    BY <1>1, <1>2, <1>3, <1>5, <1>10, <2>1, <2>2, <2>3, <2>4
<1>11. QED
  BY <1>8, <1>9, <1>10

LEMMA SetGamingDoes ==
    ASSUME Inv, MatcherSetGaming
    PROVE  \E p, q \in Obj :
              /\ p # q /\ Looked(p, q) /\ ConnOf(p) # ConnOf(q)
              /\ mt.pc = "gaming"
              /\ roomOf[UserOf(p)] = Len(rooms) /\ roomOf[UserOf(q)] = Len(rooms)
              /\ Roomed(p) /\ Roomed(q)
              /\ \/ /\ crashed' = TRUE /\ UNCHANGED <<info, mt>>
                    /\ Lost(p) \/ Lost(q)
                 \/ /\ crashed' = crashed /\ ~Gone
                    /\ State(p) = "matching" /\ State(q) = "matching"
                    /\ \A r \in Obj :
                          /\ State(r)' = IF r \in {p, q} THEN "gaming" ELSE State(r)
                          /\ info'[r].points = info[r].points
                    /\ mt.c1 = ConnOf(p) /\ mt.c2 = ConnOf(q)
                    /\ mt'.pc = "push1"
                    /\ mt'.u1 = mt.u1 /\ mt'.u2 = mt.u2 /\ mt'.c1 = mt.c1
                    /\ mt'.c2 = mt.c2 /\ mt'.o1 = mt.o1 /\ mt'.o2 = mt.o2
<1>1. mt.pc = "gaming"
  BY DEF MatcherSetGaming
<1>2. PICK p, q \in Obj : /\ Looked(p, q) /\ Paired(p, q) /\ p # q
                          /\ ConnOf(p) # ConnOf(q)
  BY <1>1, InHandPair
<1>3. /\ mt.c1 = ConnOf(p) \/ (mt.c1 = NoConn /\ Lost(p))
      /\ mt.c2 = ConnOf(q) \/ (mt.c2 = NoConn /\ Lost(q))
      /\ (mt.o1 = p /\ mt.c1 = ConnOf(p)) \/ (mt.o1 = NoObj /\ Lost(p))
      /\ (mt.o2 = q /\ mt.c2 = ConnOf(q)) \/ (mt.o2 = NoObj /\ Lost(q))
      /\ ConnOf(p) # NoConn /\ ConnOf(q) # NoConn /\ p # NoObj /\ q # NoObj
  BY <1>1, <1>2, Found
<1>4. /\ roomOf[UserOf(p)] = Len(rooms) /\ roomOf[UserOf(q)] = Len(rooms)
      /\ Roomed(p) /\ Roomed(q)
  BY <1>1, <1>2 DEF Looked, Paired, Roomed
<1>5. CASE NoObj \in {mt.o1, mt.o2}
  <2>1. crashed' = TRUE /\ UNCHANGED <<info, mt>>
    BY <1>5 DEF MatcherSetGaming
  <2>2. Lost(p) \/ Lost(q)
    BY <1>3, <1>5
  <2>3. QED
    BY <1>1, <1>2, <1>4, <2>1, <2>2
<1>6. CASE NoObj \notin {mt.o1, mt.o2}
  <2>1. mt.o1 = p /\ mt.o2 = q /\ mt.c1 = ConnOf(p) /\ mt.c2 = ConnOf(q) /\ ~Gone
    BY <1>3, <1>6 DEF Gone
  <2>2. State(p) = "matching" /\ State(q) = "matching"
    BY <1>1, <1>2, <2>1 DEF Paired
  <2>3. /\ info' = [o \in DOMAIN info |->
                      IF o \in {mt.o1, mt.o2}
                      THEN [info[o] EXCEPT !.state = "gaming"] ELSE info[o]]
        /\ mt' = [mt EXCEPT !.pc = "push1"] /\ crashed' = crashed
    BY <1>6 DEF MatcherSetGaming
  <2>4. info \in Seq(InfoEntry) /\ Len(info) = Len(heap)
    BY DEF Inv, TypeInv, InfoTypes
  <2> DEFINE T == {mt.o1, mt.o2}
  <2>5. T = {p, q}
    BY <2>1
  <2>6. info' = [o \in DOMAIN info |->
                   IF o \in T THEN [info[o] EXCEPT !.state = "gaming"] ELSE info[o]]
    BY <2>3
  <2> HIDE DEF T
  <2>7. \A r \in 1..Len(info) :
           /\ info'[r].state = IF r \in T THEN "gaming" ELSE info[r].state
           /\ info'[r].points = info[r].points
    BY <2>4, <2>6, SetGaming
  <2>8. \A r \in Obj : /\ State(r)' = IF r \in {p, q} THEN "gaming" ELSE State(r)
                       /\ info'[r].points = info[r].points
    BY <2>4, <2>5, <2>7 DEF State, Obj
  <2>9. /\ mt'.pc = "push1"
        /\ mt'.u1 = mt.u1 /\ mt'.u2 = mt.u2 /\ mt'.c1 = mt.c1
        /\ mt'.c2 = mt.c2 /\ mt'.o1 = mt.o1 /\ mt'.o2 = mt.o2
    BY <2>3, MatcherMoves
  <2>10. QED
    BY <1>1, <1>2, <1>4, <2>1, <2>2, <2>3, <2>8, <2>9
<1>7. QED
  BY <1>5, <1>6

\* What is pushed to a client that is connected gets into its queue.
LEMMA Pushed ==
    ASSUME Inv, NEW c, NEW msg \in News, Push(c, msg), c \in Conn \/ c = NoConn
    PROVE  /\ UNCHANGED client
           /\ \A d \in Conn : \A x :
                 Queued(d, x)' <=> \/ Queued(d, x)
                                   \/ d = c /\ x = msg /\ link[c] = "up"
           /\ \/ UNCHANGED pending
              \/ /\ c \in Conn /\ link[c] = "up"
                 /\ pending' = [pending EXCEPT ![LoopOf[c]] =
                                   Append(@, [conn |-> c, msg |-> msg])]
<1>1. msg \in Message
  BY DEF Message, News
<1>2. \A d \in Conn : d \in conns <=> link[d] = "up"
  BY DEF Inv, GameInv, Accounts
<1>3. conns \subseteq Conn
  BY Ground DEF Inv, SessionsTypeOK
<1>4. CASE c \in conns
  <2>1. c \in Conn /\ link[c] = "up"
    BY <1>2, <1>3, <1>4
  <2>2. pending' = [pending EXCEPT ![LoopOf[c]] =
                       Append(@, [conn |-> c, msg |-> msg])]
    BY <1>4 DEF Push
  <2>3. \A d \in Conn : \A x : Queued(d, x)' <=> Queued(d, x) \/ (d = c /\ x = msg)
    BY <1>1, <2>1, <2>2, QueuedMore
  <2>4. QED
    BY <2>1, <2>2, <2>3 DEF Push
<1>5. CASE c \notin conns
  <2>1. UNCHANGED <<client, pending>>
    BY <1>5 DEF Push
  <2>2. \A d \in Conn : \A x : Queued(d, x)' <=> Queued(d, x)
    BY <2>1 DEF Queued
  <2>3. \A d \in Conn : d = c => link[c] # "up"
    BY <1>2, <1>5
  <2>4. QED
    BY <2>1, <2>2, <2>3
<1>6. QED
  BY <1>4, <1>5

-----------------------------------------------------------------------------
(* Who may change what of an object and its client.                        *)

LEMMA Logins1 ==
    ASSUME Inv, NEW l \in Loop, io[l].pc \in {"query", "add", "reply"}
    PROVE  /\ io[l].conn \in Conn /\ LoopOf[io[l].conn] = l
           /\ link[io[l].conn] = "up" /\ io[l].conn \in conns
           /\ client[io[l].conn] = "out" /\ io[l] # Idle
           /\ hnd[l] = NoHandler
<1>1. CallbackKnows(l)
  BY Ground DEF Inv
<1>2. io[l].conn \in Conn /\ LoopOf[io[l].conn] = l /\ link[io[l].conn] = "up"
  BY <1>1 DEF CallbackKnows
<1>3. io[l] # Idle
  BY DEF Idle
<1>4. LoginKnows(l) /\ io[l].conn \in conns
  BY <1>2 DEF Inv, GameInv, Accounts
<1>5. QED
  BY <1>2, <1>3, <1>4, Resting DEF LoginKnows

LEMMA MatchAckDoes ==
    ASSUME Inv, NEW l \in Loop, MatchAck(l)
    PROVE  \E o \in Obj :
              /\ ConnOf(o) = hnd[l].conn /\ UserOf(o) = hnd[l].user
              /\ hnd[l] # NoHandler
              /\ hnd' = [hnd EXCEPT ![l] = NoHandler]
              /\ client[ConnOf(o)] # "out" /\ client'[ConnOf(o)] # "out"
              /\ \A d \in Conn : d # ConnOf(o) => client'[d] = client[d]
              /\ Standing(client'[ConnOf(o)], inbox[ConnOf(o)], NoHandler,
                          State(o), Roomed(o), Coming(ConnOf(o)), Stranded)
<1>1. hnd[l].pc = "answer" /\ hnd' = [hnd EXCEPT ![l] = NoHandler]
  BY DEF MatchAck, Return
<1>2. hnd[l] # NoHandler
  BY <1>1 DEF NoHandler
<1>3. PICK o \in Obj : ConnOf(o) = hnd[l].conn /\ UserOf(o) = hnd[l].user /\ Stands(o)
  BY <1>2, Worker
<1> DEFINE c == ConnOf(o)
<1>4. /\ Post(c) = hnd[l] /\ c \in Conn /\ c \in conns /\ link[c] = "up"
      /\ client[c] # "out"
  BY <1>2, <1>3, Worker DEF Working
<1>5. hnd[l].req \in {"start", "cancel"} /\ hnd[l].ok \in BOOLEAN
  <2>1. hnd \in [Loop -> HandlerState]
    BY DEF Inv, TypeInv, HandlerTypes
  <2>2. hnd[l] \in HandlerState
    BY <2>1
  <2>3. hnd[l].ok \in BOOLEAN
    BY <2>2 DEF HandlerState
  <2>4. Working(l)
    BY <1>2, Worker
  <2>5. QED
    BY <1>1, <2>3, <2>4 DEF Working, Chess, Chat
<1> DEFINE post == hnd[l]
           msg == Answer(post)
<1>6. Standing(Heard(client[c], msg), inbox[c], NoHandler, State(o), Roomed(o),
               Coming(c), Stranded)
  <2>1. Standing(client[c], inbox[c], post, State(o), Roomed(o), Coming(c), Stranded)
    BY <1>3, <1>4 DEF Stands
  <2>2. Rest(NoHandler)
    BY DEF Rest, NoHandler
  <2>3. post.req \in {"start", "cancel"} /\ post.pc = "answer" /\ post.ok \in BOOLEAN
    BY <1>1, <1>5
  <2> HIDE DEF post, c
  <2>4. QED
    BY <2>1, <2>2, <2>3, Answered
<1>7. Reply(hnd[l].conn, msg)
  BY DEF MatchAck, Answer
<1>8. Heard(client[c], msg) # "out"
  BY <1>4 DEF Heard
<1> HIDE DEF msg
<1>9. client' = [client EXCEPT ![c] = Heard(@, msg)]
  BY <1>3, <1>4, <1>7 DEF Reply, Write
<1>10. client \in [Conn -> {"out", "lobby", "asking", "queued", "leaving",
                            "room", "confused"}]
  BY DEF Inv, TypeInv, ClientTypes
<1>11. /\ client'[c] = Heard(client[c], msg)
       /\ \A d \in Conn : d # c => client'[d] = client[d]
  BY <1>4, <1>9, <1>10
<1>12. QED
  BY <1>1, <1>2, <1>3, <1>4, <1>6, <1>8, <1>11

\* A client that was told of its login never is one that was not.
LEMMA ClientWrites ==
    ASSUME Inv, Undisturbed, GameNext, NEW c \in Conn
    PROVE  \/ client'[c] = client[c]
           \/ client[c] # "out" /\ client'[c] # "out"
           \/ /\ client'[c] = "lobby"
              /\ \E l \in Loop : LoginAck(l) /\ io[l].conn = c /\ io[l].user # NoUser
<1> DEFINE Fine == \/ client'[c] = client[c]
                   \/ client[c] # "out" /\ client'[c] # "out"
                   \/ /\ client'[c] = "lobby"
                      /\ \E l \in Loop : LoginAck(l) /\ io[l].conn = c /\ io[l].user # NoUser
<1>t. client \in [Conn -> {"out", "lobby", "asking", "queued", "leaving",
                           "room", "confused"}]
  BY DEF Inv, TypeInv, ClientTypes
<1>0. \A view, msg : view # "out" => Heard(view, msg) # "out"
  BY DEF Heard
<1>1. CASE UNCHANGED client
  BY <1>1
<1>2. ASSUME NEW l \in Loop, LoginAck(l) PROVE Fine
  <2>1. io[l].pc = "reply"
    BY <1>2 DEF LoginAck, LoginReply
  <2>2. io[l].conn \in Conn
    BY <2>1, Logins1
  <2>3. UNCHANGED client \/ (client' = [client EXCEPT ![io[l].conn] = Heard(@, "login ok")]
                             /\ io[l].user # NoUser)
    BY <1>2 DEF LoginAck, Reply, Write
  <2>4. Heard(client[io[l].conn], "login ok") = "lobby"
    BY DEF Heard, MatchAnswer
  <2>5. QED
    BY <1>2, <1>t, <2>2, <2>3, <2>4
<1>3. ASSUME NEW l \in Loop, MatchAck(l) PROVE Fine
  BY <1>3, MatchAckDoes
<1>4. ASSUME NEW l \in Loop, doPendingFunctor(l) PROVE Fine
  <2>1. pending[l] # <<>> /\ pending' = [pending EXCEPT ![l] = Tail(@)]
    BY <1>4 DEF doPendingFunctor
  <2>2. PICK d \in Conn, msg \in Message :
           Runs(l, d, msg)
    BY <2>1, QueuedLess
  <2>3. msg \in News => client[d] # "out"
    BY <2>2 DEF Runs
  <2>a. Head(pending[l]) = [conn |-> d, msg |-> msg]
    BY <2>2 DEF Runs
  <2> DEFINE h == Head(pending[l])
  <2>b. h = [conn |-> d, msg |-> msg]
    BY <2>a
  <2> HIDE DEF h
  <2>c. h.conn = d /\ h.msg = msg
    BY <2>b
  <2>4. Head(pending[l]).conn = d /\ Head(pending[l]).msg = msg
    BY <2>c DEF h
  <2>5. client' = Write(client, d, msg)
    BY <1>4, <2>4 DEF doPendingFunctor
  <2>6. UNCHANGED client \/ client' = [client EXCEPT ![d] = Heard(@, msg)]
    BY <2>5 DEF Write
  <2>7. msg \notin News => Heard(client[d], msg) = client[d]
    BY DEF Heard, News, Message
  <2>8. Heard(client[d], msg) = client[d] \/ (client[d] # "out" /\ Heard(client[d], msg) # "out")
    BY <1>0, <2>3, <2>7
  <2>9. QED
    BY <1>t, <2>6, <2>8
<1>5. ASSUME NEW l \in Loop, Talks(l) PROVE Fine
  <2>1. UNCHANGED client
    BY <1>5, TalkDoes
  <2>2. QED
    BY <2>1
<1>6. ASSUME NEW d \in Conn, AskStart(d) \/ AskCancel(d) \/ AskInRoom(d) PROVE Fine
  <2>1. \E next \in {"asking", "leaving", "room", "lobby"} :
           client[d] # "out" /\ client' = [client EXCEPT ![d] = next]
    BY <1>6 DEF AskStart, AskCancel, AskInRoom, AskMove, AskChat, AskExit, Ask
  <2>2. QED
    BY <1>t, <2>1
<1> HIDE DEF Fine
<1>7. Fine
  BY <1>1, <1>2, <1>3, <1>4, <1>5, <1>6, WhoWrites DEF Fine, Talks
<1>8. QED
  BY <1>7 DEF Fine

\* Links go down and stay down.
LEMMA Links ==
    ASSUME Inv, GameNext
    PROVE  /\ \A c \in Conn : \/ link'[c] = link[c]
                              \/ link[c] = "new" /\ link'[c] = "up"
                              \/ link[c] = "up" /\ link'[c] = "down"
           /\ \A c \in Conn : c \in conns' <=> link'[c] = "up"
           /\ \A o \in Obj : link'[ConnOf(o)] = "up" => link[ConnOf(o)] = "up"
<1>1. /\ \A c \in Conn : c \in conns <=> link[c] = "up"
      /\ link \in [Conn -> {"new", "up", "down"}]
  BY Ground DEF Inv, GameInv, Accounts, SessionsTypeOK
<1>2. \/ link' = link /\ conns' = conns
      \/ \E d \in Conn : /\ link[d] = "new" /\ link' = [link EXCEPT ![d] = "up"]
                         /\ conns' = conns \cup {d}
      \/ \E d \in Conn : /\ link[d] = "up" /\ link' = [link EXCEPT ![d] = "down"]
                         /\ conns' = conns \ {d}
  BY WhoWrites DEF Accept, addConn, Disconnect, removeConn
<1>3. \A c \in Conn : \/ link'[c] = link[c]
                      \/ link[c] = "new" /\ link'[c] = "up"
                      \/ link[c] = "up" /\ link'[c] = "down"
  <2>1. ASSUME NEW d \in Conn, NEW was, NEW is, link[d] = was,
               link' = [link EXCEPT ![d] = is], NEW c \in Conn
        PROVE  link'[c] = link[c] \/ (link[c] = was /\ link'[c] = is)
    BY <1>1, <2>1
  <2>2. CASE link' = link
    BY <2>2
  <2>3. ASSUME NEW d \in Conn, link[d] = "new", link' = [link EXCEPT ![d] = "up"],
               NEW c \in Conn
        PROVE  link'[c] = link[c] \/ (link[c] = "new" /\ link'[c] = "up")
    BY <2>1, <2>3
  <2>4. ASSUME NEW d \in Conn, link[d] = "up", link' = [link EXCEPT ![d] = "down"],
               NEW c \in Conn
        PROVE  link'[c] = link[c] \/ (link[c] = "up" /\ link'[c] = "down")
    BY <2>1, <2>4
  <2>5. QED
    BY <1>2, <2>2, <2>3, <2>4
<1>4. \A c \in Conn : c \in conns' <=> link'[c] = "up"
  BY <1>1, <1>2
<1>5. ASSUME NEW o \in Obj, link'[ConnOf(o)] = "up" PROVE link[ConnOf(o)] = "up"
  <2>1. ObjectKnows(o) /\ ConnOf(o) \in Conn
    BY Objects DEF Inv, GameInv, Accounts
  <2>2. link[ConnOf(o)] \in {"up", "down"}
    BY <2>1 DEF ObjectKnows
  <2>3. QED
    BY <1>3, <1>5, <2>1, <2>2
<1>6. QED
  BY <1>3, <1>4, <1>5

LEMMA StateWrites ==
    ASSUME Inv, Undisturbed, GameNext, NEW o \in Obj
    PROVE  /\ tierOf(info'[o].points) = tierOf(info[o].points)
           /\ \/ State(o)' = State(o)
              \/ MatcherDecide \/ MatcherSetGaming
              \/ \E l \in Loop : addUser(l) \/ removeFromPool(l) \/ ExitDone(l)
<1>1. CASE UNCHANGED info
  BY <1>1 DEF State
<1>2. ASSUME NEW l \in Loop, GameLoginAdd(l) PROVE info'[o] = info[o]
  <2>1. info \in Seq(InfoEntry) /\ o \in 1..Len(info)
    BY DEF Inv, TypeInv, InfoTypes, Obj
  <2>2. PICK entry : info' = Append(info, entry)
    BY <1>2 DEF GameLoginAdd, LoginAdd
  <2>3. QED
    BY <2>1, <2>2
<1>3. ASSUME MatcherDecide PROVE info'[o].points = info[o].points
  BY <1>3, DecideDoes
<1>4. ASSUME MatcherSetGaming PROVE info'[o].points = info[o].points
  BY <1>4, SetGamingDoes
<1>5. ASSUME NEW l \in Loop, addUser(l) PROVE info'[o].points = info[o].points
  BY <1>5, AddUser
<1>6. ASSUME NEW l \in Loop, removeFromPool(l) PROVE info'[o].points = info[o].points
  BY <1>6, RemoveFromPool
<1>7. ASSUME NEW l \in Loop, ExitDone(l) PROVE info'[o].points = info[o].points
  BY <1>7, ExitDoneDoes
<1>8. ASSUME NEW l \in Loop, winGame(l) \/ loseGame(l)
      PROVE  State(o)' = State(o) /\ tierOf(info'[o].points) = tierOf(info[o].points)
  BY <1>8, WinDoes
<1>9. QED
  BY <1>1, <1>2, <1>3, <1>4, <1>5, <1>6, <1>7, <1>8, WhoWrites DEF State

\* A session that is over stays so.
LEMMA StaysLost ==
    ASSUME Inv, GameNext, NEW o \in Obj, Lost(o)
    PROVE  Lost(o)'
<1>1. /\ userObj \in [User -> Nat] /\ UserOf(o) \in User /\ UserOf(o)' = UserOf(o)
  BY Ground, Objects, Grows DEF Inv, SessionsTypeOK
<1>2. CASE UNCHANGED userObj
  BY <1>1, <1>2 DEF Lost
<1>3. ASSUME NEW l \in Loop, SessionOnly(l) PROVE Lost(o)'
  <2>1. UNCHANGED userObj \/ \E u : userObj' = [userObj EXCEPT ![u] = NoObj]
    BY <1>3 DEF SessionOnly, LoginRefused, LockForAdd, CloseLookup, LockForRemove,
       removeOnlineUser, EraseEntries
  <2>2. QED
    BY <1>1, <2>1 DEF Lost
<1>4. ASSUME NEW l \in Loop, GameLoginAdd(l) PROVE Lost(o)'
  <2>1. io[l].pc = "add" /\ userObj' = [userObj EXCEPT ![io[l].user] = Len(heap) + 1]
    BY <1>4 DEF GameLoginAdd, LoginAdd, addOnlineUser, InsertEntries
  <2>2. UserOf(o) # io[l].user
    BY <2>1 DEF Inv, GameInv, Accounts, LoginKnows
  <2>3. QED
    BY <1>1, <2>1, <2>2 DEF Lost
<1>5. QED
  BY <1>2, <1>3, <1>4, WhoWrites

-----------------------------------------------------------------------------
(* The accounts.                                                           *)

\* The one step that makes an object, and what is true of it.
LEMMA NewObject ==
    ASSUME Inv, NEW l \in Loop, GameLoginAdd(l)
    PROVE  /\ io[l].pc = "add" /\ io[l].user \in User
           /\ io' = [io EXCEPT ![l] = [pc |-> "reply", conn |-> io[l].conn,
                                       user |-> io[l].user]]
           /\ \A o \in Obj : UserOf(o) # io[l].user /\ ConnOf(o) # io[l].conn
           /\ \E n \in Nat :
                 /\ n \notin Obj /\ Obj' = Obj \cup {n}
                 /\ UserOf(n)' = io[l].user /\ ConnOf(n)' = io[l].conn
                 /\ State(n)' = "online"
                 /\ userObj' = [userObj EXCEPT ![io[l].user] = n]
<1>1. PICK n : n = Len(heap) + 1
  OBVIOUS
<1>2. io[l].pc = "add" /\ userObj' = [userObj EXCEPT ![io[l].user] = n]
      /\ heap' = Append(heap, [user |-> io[l].user, conn |-> io[l].conn])
      /\ io' = [io EXCEPT ![l] = [pc |-> "reply", conn |-> io[l].conn,
                                  user |-> io[l].user]]
  BY <1>1 DEF GameLoginAdd, LoginAdd, addOnlineUser, InsertEntries, Callback
<1>3. io[l].user \in User /\ io[l].conn \in Conn
  BY <1>2, Ground DEF Inv, CallbackKnows
<1>4. heap \in Seq([user : User, conn : Conn]) /\ Len(heap) \in Nat /\ n \in Nat
  BY <1>1, Ground DEF Inv, SessionsTypeOK
<1>5. Len(heap') = n /\ heap'[n] = [user |-> io[l].user, conn |-> io[l].conn]
  BY <1>1, <1>2, <1>3, <1>4
<1>6. UserOf(n)' = io[l].user /\ ConnOf(n)' = io[l].conn
  BY <1>5 DEF UserOf, ConnOf
<1>7. Obj' = Obj \cup {n} /\ n \notin Obj
  BY <1>1, <1>4, <1>5 DEF Obj
<1>8. \A o \in Obj : UserOf(o) # io[l].user /\ ConnOf(o) # io[l].conn
  BY <1>2 DEF Inv, GameInv, Accounts, LoginKnows
<1>9. State(n)' = "online"
  <2>1. info \in Seq(InfoEntry) /\ Len(info) = Len(heap)
    BY DEF Inv, TypeInv, InfoTypes
  <2>2. info' = Append(info, [state |-> "online", points |-> row[l] % PointWidth])
    BY DEF GameLoginAdd, LoginAdd
  <2>3. info'[n] = [state |-> "online", points |-> row[l] % PointWidth]
    BY <1>1, <1>4, <2>1, <2>2
  <2>4. info'[n].state = "online"
    BY <2>3
  <2>5. QED
    BY <2>4 DEF State
<1>10. QED
  BY <1>2, <1>3, <1>4, <1>6, <1>7, <1>8, <1>9

LEMMA OneObjectStep ==
    ASSUME Inv, GameNext
    PROVE  OneObject'
<1>1. OneObject
  BY DEF Inv, GameInv, Accounts
<1>2. \A o \in Obj : UserOf(o)' = UserOf(o) /\ ConnOf(o)' = ConnOf(o)
  BY Grows
<1>3. CASE UNCHANGED heap
  BY <1>1, <1>3 DEF OneObject, Obj, UserOf, ConnOf
<1>4. ASSUME NEW l \in Loop, GameLoginAdd(l) PROVE OneObject'
  <2>1. PICK n \in Nat : /\ Obj' = Obj \cup {n}
                         /\ UserOf(n)' = io[l].user /\ ConnOf(n)' = io[l].conn
    BY <1>4, NewObject
  <2>2. \A o \in Obj : /\ UserOf(o)' # UserOf(n)' /\ ConnOf(o)' # ConnOf(n)'
                       /\ \A p \in Obj : UserOf(o)' = UserOf(p)' \/ ConnOf(o)' = ConnOf(p)'
                                         => o = p
    BY <1>1, <1>2, <1>4, <2>1, NewObject DEF OneObject
  <2>3. ASSUME NEW o \in Obj', NEW p \in Obj',
               UserOf(o)' = UserOf(p)' \/ ConnOf(o)' = ConnOf(p)'
        PROVE  o = p
    BY <2>1, <2>2, <2>3
  <2>4. QED
    BY <2>3 DEF OneObject
<1>5. QED
  BY <1>3, <1>4, WhoWrites

\* A login goes on in its own loop: what it knows is its own.
LEMMA LoginKnowsStep ==
    ASSUME Inv, Undisturbed, GameNext, NEW l \in Loop
    PROVE  LoginKnows(l)'
<1> DEFINE c == io[l].conn
<1>k. LoginKnows(l) /\ CallbackKnows(l)
  BY Ground DEF Inv, GameInv, Accounts
<1>g. /\ \A o \in Obj : UserOf(o)' = UserOf(o) /\ ConnOf(o)' = ConnOf(o)
      /\ io \in [Loop -> [pc : {"idle", "query", "add", "reply", "lookup",
                                "remove", "erase"},
                          conn : Conn \cup {NoConn}, user : User \cup {NoUser}]]
  BY Grows, Ground DEF Inv, SessionsTypeOK
<1>1. CASE io'[l].pc \notin {"query", "add", "reply"}
  BY <1>1 DEF LoginKnows
<1>2. CASE io'[l] = io[l] /\ io[l].pc \in {"query", "add", "reply"}
  <2>1. io'[l].conn = c /\ c \in Conn /\ LoopOf[c] = l /\ client[c] = "out"
    BY <1>2, Logins1
  <2>2. client'[c] = "out"
    <3>1. ASSUME NEW m \in Loop, LoginAck(m), io[m].conn = c PROVE FALSE
      <4>1. io[m].pc = "reply" /\ io' = [io EXCEPT ![m] = Idle]
        BY <3>1 DEF LoginAck, LoginReply
      <4>2. m = l
        BY <2>1, <3>1, <4>1, Logins1
      <4>3. QED
        BY <1>2, <1>g, <4>1, <4>2 DEF Idle
    <3>2. QED
      BY <2>1, <3>1, ClientWrites
  <2>3. ASSUME NEW m \in Loop, GameLoginAdd(m)
        PROVE  io[m].conn # c /\ (io[l].pc \in {"query", "add"} => io[m].user # io[l].user)
    <3>1. io[m].pc = "add" /\ io'[m].pc = "reply" /\ LoopOf[io[m].conn] = m
      BY <2>3, NewObject, Logins1, <1>g
    <3>2. m # l
      BY <1>2, <3>1
    <3>3. ExclusiveCallback(m)
      BY DEF Inv, GameInv, Accounts, ExclusiveInv
    <3>4. QED
      BY <2>1, <3>1, <3>2, <3>3 DEF ExclusiveCallback
  <2>4. \A o \in Obj' : o \in Obj \/ \E m \in Loop : /\ GameLoginAdd(m)
                                                     /\ UserOf(o)' = io[m].user
                                                     /\ ConnOf(o)' = io[m].conn
    <3>1. CASE UNCHANGED heap
      BY <3>1 DEF Obj
    <3>2. ASSUME NEW m \in Loop, GameLoginAdd(m), NEW o \in Obj', o \notin Obj
          PROVE  UserOf(o)' = io[m].user /\ ConnOf(o)' = io[m].conn
      BY <3>2, NewObject
    <3>3. QED
      BY <3>1, <3>2, WhoWrites
  <2>5. io[l].pc \in {"query", "add"} =>
           \A o \in Obj' : UserOf(o)' # io[l].user /\ ConnOf(o)' # c
    BY <1>k, <1>g, <2>3, <2>4 DEF LoginKnows
  <2>6. io[l].pc = "reply" => \A o \in Obj' : ConnOf(o)' = c => UserOf(o)' = io[l].user
    BY <1>k, <1>g, <2>3, <2>4 DEF LoginKnows
  <2> HIDE DEF c
  <2>7. QED
    BY <1>2, <2>1, <2>2, <2>5, <2>6 DEF LoginKnows, c
<1>3. ASSUME NEW d \in Conn, NEW u \in User, GameLogin(d, u), LoopOf[d] = l
      PROVE  LoginKnows(l)'
  <2>1. /\ LoopIdle(l) /\ client[d] = "out" /\ onLogin(d, u)
        /\ UNCHANGED client
    BY <1>3 DEF GameLogin, Login, matchVars
  <2>2. io'[l].pc = "query" /\ io'[l].conn = d /\ io'[l].user = u
        /\ UNCHANGED heap
    BY <1>3, <1>g, <2>1 DEF onLogin, Callback
  <2>3. \A o \in Obj : UserOf(o) # u
    BY <2>1 DEF onLogin, MayLogin, Undisturbed, Countable, Obj, UserOf
  <2>4. \A o \in Obj : ConnOf(o) # d
    <3>1. OutKnows(d) /\ io[l].pc # "reply"
      BY <2>1 DEF Inv, GameInv, Accounts, LoopIdle, Idle
    <3>2. QED
      BY <1>3, <2>1, <3>1 DEF OutKnows
  <2>5. Obj' = Obj /\ \A o \in Obj : UserOf(o)' = UserOf(o) /\ ConnOf(o)' = ConnOf(o)
    BY <1>g, <2>2 DEF Obj
  <2>6. QED
    BY <2>1, <2>2, <2>3, <2>4, <2>5 DEF LoginKnows
<1>4. ASSUME io[l].pc = "query", NEW pc \in {"add", "reply"}, UNCHANGED <<heap, client>>,
             \/ Callback(l, "add", c, io[l].user)
             \/ Callback(l, "reply", c, NoUser)
      PROVE  LoginKnows(l)'
  <2>1. /\ io'[l].conn = c
        /\ \/ io'[l].pc = "add" /\ io'[l].user = io[l].user
           \/ io'[l].pc = "reply"
    BY <1>4, <1>g DEF Callback
  <2>2. Obj' = Obj /\ client' = client
    BY <1>4 DEF Obj
  <2>3. client[c] = "out" /\ \A o \in Obj : UserOf(o) # io[l].user /\ ConnOf(o) # c
    BY <1>4, <1>k DEF LoginKnows
  <2> HIDE DEF c
  <2>4. QED
    BY <1>g, <2>1, <2>2, <2>3 DEF LoginKnows
<1>5. ASSUME GameLoginAdd(l) PROVE LoginKnows(l)'
  <2>1. PICK n \in Nat : /\ Obj' = Obj \cup {n}
                         /\ UserOf(n)' = io[l].user /\ ConnOf(n)' = io[l].conn
    BY <1>5, NewObject
  <2>2. /\ io[l].pc = "add"
        /\ io' = [io EXCEPT ![l] = [pc |-> "reply", conn |-> io[l].conn,
                                    user |-> io[l].user]]
        /\ \A o \in Obj : UserOf(o) # io[l].user /\ ConnOf(o) # io[l].conn
    BY <1>5, NewObject
  <2>3. io'[l].conn = c /\ io'[l].pc = "reply" /\ io'[l].user = io[l].user
    BY <1>g, <2>2
  <2>4. client[c] = "out" /\ UNCHANGED client
    BY <1>5, <1>k, <2>2 DEF LoginKnows, GameLoginAdd, LoginAdd
  <2>5. client'[c] = "out"
    BY <2>4
  <2>6. \A o \in Obj' : ConnOf(o)' = c => UserOf(o)' = io[l].user
    BY <1>g, <2>1, <2>2
  <2> HIDE DEF c
  <2>7. QED
    BY <2>3, <2>5, <2>6 DEF LoginKnows
<1>6. \/ io'[l].pc \notin {"query", "add", "reply"}
      \/ io'[l] = io[l]
      \/ \E d \in Conn, u \in User : GameLogin(d, u) /\ LoopOf[d] = l
      \/ GameLoginAdd(l)
      \/ /\ io[l].pc = "query" /\ UNCHANGED <<heap, client>>
         /\ \/ Callback(l, "add", c, io[l].user)
            \/ Callback(l, "reply", c, NoUser)
  <2>1. CASE UNCHANGED io
    BY <2>1
  <2>2. ASSUME NEW m \in Loop, SessionOnly(m), m # l PROVE io'[l] = io[l]
    BY <2>2, <1>g DEF SessionOnly, LoginRefused, LockForAdd, CloseLookup, LockForRemove,
       removeOnlineUser, Callback
  <2>3. ASSUME SessionOnly(l)
        PROVE  \/ io'[l].pc \notin {"query", "add", "reply"}
               \/ /\ io[l].pc = "query" /\ UNCHANGED <<heap, client>>
                  /\ \/ Callback(l, "add", c, io[l].user)
                     \/ Callback(l, "reply", c, NoUser)
    <3>1. UNCHANGED <<heap, client>>
      BY <2>3 DEF SessionOnly, matchVars, LoginRefused, LockForAdd, CloseLookup,
         LockForRemove, removeOnlineUser
    <3>2. CASE LoginRefused(l) \/ LockForAdd(l)
      BY <3>1, <3>2 DEF LoginRefused, LockForAdd
    <3>3. CASE CloseLookup(l) \/ LockForRemove(l) \/ removeOnlineUser(l)
      BY <3>3, <1>g DEF CloseLookup, LockForRemove, removeOnlineUser, Callback, Idle
    <3>4. QED
      BY <2>3, <3>2, <3>3 DEF SessionOnly
  <2>4. ASSUME NEW m \in Loop, LoginAck(m)
        PROVE  io'[l] = io[l] \/ io'[l].pc \notin {"query", "add", "reply"}
    BY <2>4, <1>g DEF LoginAck, LoginReply, Idle
  <2>5. ASSUME NEW m \in Loop, GameLoginAdd(m), m # l PROVE io'[l] = io[l]
    BY <2>5, <1>g, NewObject
  <2>6. ASSUME NEW d \in Conn, Accept(d) PROVE io'[l] = io[l]
    BY <2>6 DEF Accept, addConn
  <2>7. ASSUME NEW d \in Conn, Disconnect(d)
        PROVE  io'[l] = io[l] \/ io'[l].pc \notin {"query", "add", "reply"}
    BY <2>7, <1>g, LoopOfAssumption DEF Disconnect, removeConn, Callback
  <2>8. ASSUME NEW d \in Conn, NEW u \in User, GameLogin(d, u), LoopOf[d] # l
        PROVE  io'[l] = io[l]
    BY <2>8, <1>g, LoopOfAssumption DEF GameLogin, Login, onLogin, Callback
  <2> HIDE DEF c
  <2>9. QED
    BY <2>1, <2>2, <2>3, <2>4, <2>5, <2>6, <2>7, <2>8, WhoWrites
<1> HIDE DEF c
<1>7. QED
  BY <1>1, <1>2, <1>3, <1>4, <1>5, <1>6

LEMMA OutKnowsStep ==
    ASSUME Inv, Undisturbed, GameNext, NEW c \in Conn
    PROVE  OutKnows(c)'
<1> DEFINE l == LoopOf[c]
<1>a. OutKnows(c) /\ l \in Loop
  BY LoopOfAssumption DEF Inv, GameInv, Accounts
<1>g. /\ \A o \in Obj : UserOf(o)' = UserOf(o) /\ ConnOf(o)' = ConnOf(o)
      /\ io \in [Loop -> [pc : {"idle", "query", "add", "reply", "lookup",
                                "remove", "erase"},
                          conn : Conn \cup {NoConn}, user : User \cup {NoUser}]]
      /\ inbox \in [Conn -> Request \cup {"none"}]
      /\ client \in [Conn -> {"out", "lobby", "asking", "queued", "leaving",
                              "room", "confused"}]
  BY Grows, Ground DEF Inv, SessionsTypeOK, TypeInv, ClientTypes
<1> SUFFICES ASSUME client'[c] = "out"
             PROVE  /\ inbox'[c] = "none"
                    /\ \A o \in Obj' : ConnOf(o)' = c => /\ io'[l].pc = "reply"
                                                         /\ io'[l].conn = c
  BY DEF OutKnows
<1>1. client[c] = "out" /\ inbox[c] = "none"
  BY <1>a, ClientWrites DEF OutKnows
<1>2. inbox'[c] = "none"
  <2>1. ASSUME NEW d \in Conn, AskStart(d) \/ AskCancel(d) \/ AskInRoom(d)
        PROVE  d # c /\ \E r : inbox' = [inbox EXCEPT ![d] = r]
    BY <1>1, <2>1 DEF AskStart, AskCancel, AskInRoom, AskMove, AskChat, AskExit, Ask
  <2>2. ASSUME NEW d \in Conn, NEW r, Disconnect(d) \/ Begin(d, r)
        PROVE  inbox' = [inbox EXCEPT ![d] = "none"]
    BY <2>2 DEF Disconnect, Begin
  <2>3. QED
    BY <1>1, <1>g, <2>1, <2>2, WhoWrites
<1>3. ASSUME NEW o \in Obj, ConnOf(o)' = c PROVE io'[l].pc = "reply" /\ io'[l].conn = c
  <2>1. ConnOf(o) = c /\ io[l].pc = "reply" /\ io[l].conn = c
    BY <1>1, <1>3, <1>a, <1>g DEF OutKnows
  <2>2. io[l].user \in User /\ io[l].user # NoUser
    BY <1>a, <2>1, Objects, Ground DEF Inv, GameInv, Accounts, LoginKnows
  <2>3. ~LoginAck(l)
    <3>1. SUFFICES ASSUME LoginAck(l) PROVE FALSE
      OBVIOUS
    <3>2. Reply(c, "login ok")
      BY <2>1, <2>2, <3>1 DEF LoginAck
    <3>3. c \in conns /\ link[c] = "up"
      BY <1>a, <2>1, Logins1
    <3>4. client' = [client EXCEPT ![c] = Heard(@, "login ok")]
      BY <3>2, <3>3 DEF Reply, Write
    <3>5. Heard(client[c], "login ok") = "lobby"
      BY DEF Heard, MatchAnswer
    <3>6. QED
      BY <1>g, <3>4, <3>5
  <2>4. ASSUME NEW m \in Loop, SessionOnly(m) PROVE io'[l] = io[l]
    <3>1. m # l
      BY <2>1, <2>4 DEF SessionOnly, LoginRefused, LockForAdd, CloseLookup,
         LockForRemove, removeOnlineUser
    <3>2. QED
      BY <1>a, <1>g, <2>4, <3>1 DEF SessionOnly, LoginRefused, LockForAdd,
         CloseLookup, LockForRemove, removeOnlineUser, Callback
  <2>5. ASSUME NEW m \in Loop, LoginAck(m) PROVE io'[l] = io[l]
    BY <1>a, <1>g, <2>3, <2>5 DEF LoginAck, LoginReply
  <2>6. ASSUME NEW m \in Loop, GameLoginAdd(m) PROVE io'[l] = io[l]
    BY <1>a, <1>g, <2>1, <2>6, NewObject
  <2>7. ASSUME NEW d \in Conn, Accept(d) PROVE io'[l] = io[l]
    BY <2>7 DEF Accept, addConn
  <2>8. ASSUME NEW d \in Conn, Disconnect(d) \/ \E u \in User : GameLogin(d, u)
        PROVE  io'[l] = io[l]
    <3>1. LoopOf[d] # l
      BY <2>1, <2>8 DEF Disconnect, removeConn, GameLogin, Login, onLogin, Idle
    <3>2. QED
      BY <1>a, <1>g, <2>8, <3>1 DEF Disconnect, removeConn, GameLogin, Login,
         onLogin, Callback
  <2>9. io'[l] = io[l]
    BY <1>a, <2>4, <2>5, <2>6, <2>7, <2>8, WhoWrites
  <2>10. QED
    BY <2>1, <2>9
<1>4. ASSUME NEW m \in Loop, GameLoginAdd(m), NEW o \in Obj', o \notin Obj, ConnOf(o)' = c
      PROVE  io'[l].pc = "reply" /\ io'[l].conn = c
  <2>1. io[m].pc = "add" /\ io[m].conn = c
        /\ io' = [io EXCEPT ![m] = [pc |-> "reply", conn |-> io[m].conn,
                                    user |-> io[m].user]]
    BY <1>4, NewObject
  <2>2. m = l
    BY <2>1, Logins1
  <2>3. QED
    BY <1>a, <1>g, <2>1, <2>2
<1>5. UNCHANGED heap => Obj' = Obj
  BY DEF Obj
<1> HIDE DEF l
<1>6. QED
  BY <1>2, <1>3, <1>4, <1>5, WhoWrites

LEMMA ObjectKnowsStep ==
    ASSUME Inv, Undisturbed, GameNext
    PROVE  \A o \in Obj' : ObjectKnows(o)'
<1>g. /\ \A o \in Obj : UserOf(o)' = UserOf(o) /\ ConnOf(o)' = ConnOf(o)
      /\ userObj \in [User -> Nat]
      /\ \A l \in Loop : CallbackKnows(l) /\ ExclusiveCallback(l)
  BY Grows, Ground DEF Inv, SessionsTypeOK, GameInv, Accounts, ExclusiveInv
<1>1. ASSUME NEW o \in Obj PROVE ObjectKnows(o)'
  <2>1. ObjectKnows(o) /\ UserOf(o) \in User /\ ConnOf(o) \in Conn
    BY Objects DEF Inv, GameInv, Accounts
  <2>2. link'[ConnOf(o)] \in {"up", "down"}
        /\ (link'[ConnOf(o)] = "up" => link[ConnOf(o)] = "up")
    BY <2>1, Links DEF ObjectKnows
  <2>3. ASSUME link[ConnOf(o)] = "up", NEW l \in Loop, SessionOnly(l)
        PROVE  userObj'[UserOf(o)] = userObj[UserOf(o)]
    <3>1. CASE UNCHANGED userObj
      BY <3>1
    <3>2. CASE removeOnlineUser(l) /\ ~UNCHANGED userObj
      <4>1. io[l].pc = "erase" /\ userObj' = [userObj EXCEPT ![io[l].user] = NoObj]
        BY <3>2 DEF removeOnlineUser, EraseEntries
      <4>2. connUser[io[l].conn] = io[l].user /\ link[io[l].conn] = "down"
            /\ io[l].conn \in Conn /\ io[l].user \in User
        BY <1>g, <4>1 DEF ExclusiveCallback, CallbackKnows
      <4>3. userConn[io[l].user] = io[l].conn
        BY <4>2 DEF Inv, GameInv, Accounts, ExclusiveInv, OneToOne
      <4>4. userConn[UserOf(o)] = ConnOf(o)
        BY <2>3, Session
      <4>5. UserOf(o) # io[l].user
        BY <2>3, <4>2, <4>3, <4>4
      <4>6. QED
        BY <1>g, <2>1, <4>1, <4>5
    <3>3. QED
      BY <2>3, <3>1, <3>2 DEF SessionOnly, LoginRefused, LockForAdd, CloseLookup,
         LockForRemove
  <2>4. ASSUME NEW l \in Loop, GameLoginAdd(l)
        PROVE  userObj'[UserOf(o)] = userObj[UserOf(o)]
    <3>1. UserOf(o) # io[l].user /\ \E n \in Nat : userObj' = [userObj EXCEPT ![io[l].user] = n]
      BY <2>4, NewObject
    <3>2. QED
      BY <1>g, <2>1, <3>1
  <2>5. link[ConnOf(o)] = "up" => userObj'[UserOf(o)] = userObj[UserOf(o)]
    BY <2>3, <2>4, WhoWrites
  <2>6. QED
    BY <1>g, <2>1, <2>2, <2>5 DEF ObjectKnows
<1>2. ASSUME NEW l \in Loop, GameLoginAdd(l), NEW o \in Obj', o \notin Obj
      PROVE  ObjectKnows(o)'
  <2>1. PICK n \in Nat : /\ Obj' = Obj \cup {n}
                         /\ UserOf(n)' = io[l].user /\ ConnOf(n)' = io[l].conn
                         /\ userObj' = [userObj EXCEPT ![io[l].user] = n]
    BY <1>2, NewObject
  <2>2. io[l].pc = "add" /\ io[l].user \in User
    BY <1>2, NewObject
  <2>3. io[l].conn \in Conn /\ link[io[l].conn] = "up" /\ io[l] # Idle
    BY <2>2, Logins1
  <2>4. UNCHANGED link
    BY <1>2 DEF GameLoginAdd, LoginAdd, addOnlineUser
  <2>5. o = n
    BY <1>2, <2>1
  <2>6. link'[ConnOf(o)'] = "up" /\ userObj'[UserOf(o)'] = o
    BY <1>g, <2>1, <2>2, <2>3, <2>4, <2>5
  <2>7. QED
    BY <2>6 DEF ObjectKnows
<1>3. UNCHANGED heap => Obj' = Obj
  BY DEF Obj
<1>4. QED
  BY <1>1, <1>2, <1>3, WhoWrites

LEMMA AccountsStep ==
    ASSUME Inv, Undisturbed, GameNext
    PROVE  Accounts'
<1>1. ExclusiveInv'
  <2>1. Base /\ ExclusiveInv /\ [SessionsNext]_sessionVars
    BY Lifted DEF Inv, TypeInv, SessionsSound, GameInv, Accounts
  <2>2. Logins # "any"
    BY DEF Undisturbed, Countable
  <2>3. QED
    BY <2>1, <2>2, ExclusiveStep
<1>2. \A c \in Conn : (c \in conns)' <=> (link[c] = "up")'
  BY Links
<1>3. QED
  BY <1>1, <1>2, OneObjectStep, LoginKnowsStep, OutKnowsStep, ObjectKnowsStep
     DEF Accounts, Undisturbed

-----------------------------------------------------------------------------
(* The handlers and the locks they hold.                                   *)

LEMMA MovingUser ==
    ASSUME Inv, NEW l \in Loop, NEW pc, NEW v
    PROVE  /\ \/ hnd' = [hnd EXCEPT ![l].pc = pc]
              \/ hnd' = [hnd EXCEPT ![l].pc = pc, ![l].obj = v]
              \/ hnd' = [hnd EXCEPT ![l].pc = pc, ![l].other = v]
              \/ hnd' = [hnd EXCEPT ![l].pc = pc, ![l].peer = v]
              \/ hnd' = [hnd EXCEPT ![l].pc = pc, ![l].ok = v]
              => hnd'[l].user = hnd[l].user
           /\ hnd' = [hnd EXCEPT ![l].pc = pc, ![l].user = v] =>
                 hnd'[l].user = v
           /\ hnd' = [hnd EXCEPT ![l].pc = pc, ![l].obj = v] =>
                 hnd'[l].obj = v
           /\ hnd' = [hnd EXCEPT ![l].pc = pc, ![l].ok = v] =>
                 hnd'[l].ok = v
<1>1. hnd \in [Loop -> HandlerState]
  BY DEF Inv, TypeInv, HandlerTypes
<1>2. hnd[l] \in HandlerState
  BY <1>1
<1> DEFINE h == hnd[l]
           next == hnd'[l]
<1>3. /\ hnd' = [hnd EXCEPT ![l].pc = pc] => next = [h EXCEPT !.pc = pc]
      /\ hnd' = [hnd EXCEPT ![l].pc = pc, ![l].obj = v] =>
            next = [h EXCEPT !.pc = pc, !.obj = v]
      /\ hnd' = [hnd EXCEPT ![l].pc = pc, ![l].user = v] =>
            next = [h EXCEPT !.pc = pc, !.user = v]
      /\ hnd' = [hnd EXCEPT ![l].pc = pc, ![l].other = v] =>
            next = [h EXCEPT !.pc = pc, !.other = v]
      /\ hnd' = [hnd EXCEPT ![l].pc = pc, ![l].peer = v] =>
            next = [h EXCEPT !.pc = pc, !.peer = v]
      /\ hnd' = [hnd EXCEPT ![l].pc = pc, ![l].ok = v] =>
            next = [h EXCEPT !.pc = pc, !.ok = v]
  BY <1>1
<1> HIDE DEF h, next
<1>4. h \in HandlerState
  BY <1>2 DEF h
<1>5. /\ next = [h EXCEPT !.pc = pc] => next.user = h.user
      /\ next = [h EXCEPT !.pc = pc, !.obj = v] => next.user = h.user /\ next.obj = v
      /\ next = [h EXCEPT !.pc = pc, !.user = v] => next.user = v
      /\ next = [h EXCEPT !.pc = pc, !.other = v] => next.user = h.user
      /\ next = [h EXCEPT !.pc = pc, !.peer = v] => next.user = h.user
      /\ next = [h EXCEPT !.pc = pc, !.ok = v] => next.user = h.user /\ next.ok = v
  BY <1>4 DEF HandlerState
<1>6. QED
  BY <1>3, <1>5 DEF h, next

\* The places of a handler of each request.
Place(req, pc) ==
    \/ req \in {"start", "cancel"} /\ pc \in {"begin", "pool", "answer"}
    \/ req = "chess" /\ pc \in Chess
    \/ req = "chat" /\ pc \in Chat
    \/ req = "exit" /\ pc \in {"begin", "sender", "left"}

\* The handler of loop l goes on, or returns.
GoesOn(l, pc) ==
    /\ hnd'[l].conn = hnd[l].conn /\ hnd'[l].user = hnd[l].user
    /\ hnd'[l].req = hnd[l].req /\ hnd'[l].pc = pc
Moves(l) ==
    /\ hnd[l] # NoHandler
    /\ \A m \in Loop : m # l => hnd'[m] = hnd[m]
    /\ \/ hnd'[l] = NoHandler
       \/ /\ GoesOn(l, hnd'[l].pc)
          /\ Place(hnd[l].req, hnd'[l].pc)
          /\ hnd'[l].pc = "pool" => hnd'[l].obj = userObj[hnd[l].user]

\* ... holding no lock that is held over a step, before and after.
Locking == {"pool", "left"}
Passes(l) ==
    /\ hnd[l].pc \notin Locking
    /\ hnd'[l] # NoHandler => hnd'[l].pc \notin Locking

LEMMA MovesOn ==
    ASSUME Inv, NEW l \in Loop, hnd[l] # NoHandler, NEW pc, pc # "pool",
           Place(hnd[l].req, pc), NEW v,
           \/ hnd' = [hnd EXCEPT ![l].pc = pc]
           \/ hnd' = [hnd EXCEPT ![l].pc = pc, ![l].other = v]
           \/ hnd' = [hnd EXCEPT ![l].pc = pc, ![l].peer = v]
           \/ hnd' = [hnd EXCEPT ![l].pc = pc, ![l].ok = v]
           \/ hnd' = [hnd EXCEPT ![l].pc = pc, ![l].user = v] /\ v = hnd[l].user
    PROVE  Moves(l) /\ GoesOn(l, pc)
<1> DEFINE A1 == hnd' = [hnd EXCEPT ![l].pc = pc]
           A2 == hnd' = [hnd EXCEPT ![l].pc = pc, ![l].other = v]
           A3 == hnd' = [hnd EXCEPT ![l].pc = pc, ![l].peer = v]
           A4 == hnd' = [hnd EXCEPT ![l].pc = pc, ![l].ok = v]
           A5 == hnd' = [hnd EXCEPT ![l].pc = pc, ![l].user = v]
           Same == /\ hnd'[l].pc = pc /\ hnd'[l].req = hnd[l].req
                   /\ hnd'[l].conn = hnd[l].conn
                   /\ \A m \in Loop : m # l => hnd'[m] = hnd[m]
           Kept == hnd'[l].user = hnd[l].user
<1>0. A1 \/ A2 \/ A3 \/ A4 \/ (A5 /\ v = hnd[l].user)
  OBVIOUS
<1>c1. ASSUME A1 PROVE Same
  BY <1>c1, Moving
<1>c2. ASSUME A2 PROVE Same
  BY <1>c2, Moving
<1>c3. ASSUME A3 PROVE Same
  BY <1>c3, Moving
<1>c4. ASSUME A4 PROVE Same
  BY <1>c4, Moving
<1>c5. ASSUME A5 PROVE Same
  BY <1>c5, Moving
<1>b. /\ A1 => Kept
      /\ A2 => Kept
      /\ A3 => Kept
      /\ A4 => Kept
      /\ A5 /\ v = hnd[l].user => Kept
  BY MovingUser
<1> HIDE DEF A1, A2, A3, A4, A5
<1>1. Same
  BY <1>0, <1>c1, <1>c2, <1>c3, <1>c4, <1>c5
<1>2. Kept
  BY <1>0, <1>b
<1>3. QED
  BY <1>1, <1>2 DEF Moves, GoesOn

LEMMA Returns ==
    ASSUME Inv, NEW l \in Loop, hnd[l] # NoHandler,
           hnd' = [hnd EXCEPT ![l] = NoHandler]
    PROVE  Moves(l) /\ hnd'[l] = NoHandler
BY DEF Moves, Inv, TypeInv, HandlerTypes

\* onChess goes on, or a handler of a room says its last word.
ChessOn(l) == \/ handChess(l) \/ DbWin(l) \/ DbLose(l) \/ winGame(l)
              \/ loseGame(l) \/ TellWinner(l)
LastWord(l) == onChat(l) \/ TellMove(l) \/ TellLoser(l)

LEMMA HandlerDoes ==
    ASSUME Inv, Undisturbed, GameNext
    PROVE  \/ UNCHANGED hnd
           \/ \E c \in Conn, r \in Request : Begin(c, r)
           \/ \E l \in Loop :
                 /\ Moves(l)
                 /\ \/ LockPool(l) /\ GoesOn(l, "pool")
                    \/ addUser(l) /\ GoesOn(l, "answer")
                    \/ removeFromPool(l) /\ GoesOn(l, "answer")
                    \/ MatchAck(l) /\ hnd'[l] = NoHandler /\ Passes(l)
                    \/ ExitRoom(l) /\ GoesOn(l, "left")
                    \/ ExitDone(l) /\ hnd'[l] = NoHandler
                    \/ FindSender(l) /\ GoesOn(l, "sender") /\ Passes(l)
                    \/ FindOther(l) /\ GoesOn(l, "other") /\ Passes(l)
                    \/ FindPeer(l) /\ GoesOn(l, "peer") /\ Passes(l)
                    \/ ChessOn(l) /\ GoesOn(l, hnd'[l].pc) /\ Passes(l)
                    \/ LastWord(l) /\ hnd'[l] = NoHandler /\ Passes(l)
<1>r. NoHandler.pc = "none" /\ NoHandler.req = "none"
  BY DEF NoHandler
<1>1. ASSUME NEW l \in Loop, LockPool(l) PROVE Moves(l) /\ GoesOn(l, "pool")
  <2>1. /\ hnd[l].pc = "begin" /\ hnd[l].req \in {"start", "cancel"}
        /\ hnd' = [hnd EXCEPT ![l].pc = "pool", ![l].obj = userObj[hnd[l].user]]
    BY <1>1 DEF LockPool, getUserByUserId
  <2>2. hnd[l] # NoHandler
    BY <1>r, <2>1
  <2> DEFINE v == userObj[hnd[l].user]
  <2>3. hnd' = [hnd EXCEPT ![l].pc = "pool", ![l].obj = v]
    BY <2>1
  <2> HIDE DEF v
  <2>4. /\ hnd'[l].pc = "pool" /\ hnd'[l].req = hnd[l].req
        /\ hnd'[l].conn = hnd[l].conn
        /\ \A m \in Loop : m # l => hnd'[m] = hnd[m]
    BY <2>3, Moving
  <2>5. hnd'[l].user = hnd[l].user /\ hnd'[l].obj = v
    BY <2>3, MovingUser
  <2>6. Place(hnd[l].req, "pool")
    BY <2>1 DEF Place
  <2>7. QED
    BY <2>2, <2>4, <2>5, <2>6 DEF Moves, GoesOn, v
<1>2. ASSUME NEW l \in Loop, addUser(l) \/ removeFromPool(l)
      PROVE  Moves(l) /\ GoesOn(l, "answer")
  <2>1. /\ hnd[l].pc = "pool" /\ hnd[l].req \in {"start", "cancel"}
        /\ \/ hnd' = [hnd EXCEPT ![l].pc = "answer", ![l].ok = TRUE]
           \/ hnd' = [hnd EXCEPT ![l].pc = "answer", ![l].ok = FALSE]
    BY <1>2 DEF addUser, removeFromPool, Unlock
  <2>2. hnd[l] # NoHandler /\ Place(hnd[l].req, "answer")
    BY <1>r, <2>1 DEF Place
  <2>3. PICK v : hnd' = [hnd EXCEPT ![l].pc = "answer", ![l].ok = v]
    BY <2>1
  <2>4. QED
    BY <2>2, <2>3, MovesOn
<1>3. ASSUME NEW l \in Loop, MatchAck(l)
      PROVE  Moves(l) /\ hnd'[l] = NoHandler /\ Passes(l)
  <2>1. hnd[l].pc = "answer" /\ hnd' = [hnd EXCEPT ![l] = NoHandler]
    BY <1>3 DEF MatchAck
  <2>2. QED
    BY <1>r, <2>1, Returns DEF Passes, Locking
<1>4. ASSUME NEW l \in Loop, ExitRoom(l) PROVE Moves(l) /\ GoesOn(l, "left")
  <2>1. /\ hnd[l].pc = "sender" /\ hnd[l].req = "exit"
        /\ hnd' = [hnd EXCEPT ![l].pc = "left"]
    BY <1>4, ExitRoomDoes
  <2>2. hnd[l] # NoHandler /\ Place(hnd[l].req, "left")
    BY <1>r, <2>1 DEF Place
  <2>3. QED
    BY <2>1, <2>2, MovesOn
<1>5. ASSUME NEW l \in Loop, ExitDone(l) PROVE Moves(l) /\ hnd'[l] = NoHandler
  <2>1. hnd[l].pc = "left" /\ hnd' = [hnd EXCEPT ![l] = NoHandler]
    BY <1>5 DEF ExitDone, Return, At
  <2>2. QED
    BY <1>r, <2>1, Returns
<1>6. ASSUME NEW l \in Loop, FindSender(l)
      PROVE  Moves(l) /\ GoesOn(l, "sender") /\ Passes(l)
  <2>1. /\ hnd[l].pc = "begin" /\ hnd[l].req \in {"chess", "chat", "exit"}
        /\ hnd' = [hnd EXCEPT ![l].pc = "sender",
                              ![l].user = getUserIdByConn(hnd[l].conn)]
    BY <1>6 DEF FindSender, At
  <2>2. hnd[l] # NoHandler /\ Place(hnd[l].req, "sender")
    BY <1>r, <2>1 DEF Place, Chess, Chat
  <2>3. getUserIdByConn(hnd[l].conn) = hnd[l].user
    BY <2>2, Worker DEF getUserIdByConn
  <2>4. PICK v : v = getUserIdByConn(hnd[l].conn)
    OBVIOUS
  <2>5. hnd' = [hnd EXCEPT ![l].pc = "sender", ![l].user = v] /\ v = hnd[l].user
    BY <2>1, <2>3, <2>4
  <2>6. Moves(l) /\ GoesOn(l, "sender")
    BY <2>2, <2>5, MovesOn
  <2>7. QED
    BY <2>1, <2>6 DEF Passes, GoesOn, Locking
<1>7. ASSUME NEW l \in Loop, FindOther(l)
      PROVE  Moves(l) /\ GoesOn(l, "other") /\ Passes(l)
  <2>1. /\ hnd[l].pc = "sender" /\ hnd[l].req \in {"chess", "chat"}
        /\ \E v : hnd' = [hnd EXCEPT ![l].pc = "other", ![l].other = v]
    BY <1>7 DEF FindOther, At
  <2>2. hnd[l] # NoHandler /\ Place(hnd[l].req, "other")
    BY <1>r, <2>1 DEF Place, Chess, Chat
  <2>3. Moves(l) /\ GoesOn(l, "other")
    BY <2>1, <2>2, MovesOn
  <2>4. QED
    BY <2>1, <2>3 DEF Passes, GoesOn, Locking
<1>8. ASSUME NEW l \in Loop, FindPeer(l)
      PROVE  Moves(l) /\ GoesOn(l, "peer") /\ Passes(l)
  <2>1. /\ hnd[l].pc = "other" /\ hnd[l].req \in {"chess", "chat"}
        /\ \E v : hnd' = [hnd EXCEPT ![l].pc = "peer", ![l].peer = v]
    BY <1>8 DEF FindPeer, At
  <2>2. hnd[l] # NoHandler /\ Place(hnd[l].req, "peer")
    BY <1>r, <2>1 DEF Place, Chess, Chat
  <2>3. Moves(l) /\ GoesOn(l, "peer")
    BY <2>1, <2>2, MovesOn
  <2>4. QED
    BY <2>1, <2>3 DEF Passes, GoesOn, Locking
<1>9. ASSUME NEW l \in Loop, ChessOn(l)
      PROVE  Moves(l) /\ GoesOn(l, hnd'[l].pc) /\ Passes(l)
  <2>1. PICK pc \in Chess \ {"begin"} :
           /\ hnd[l].pc \in Chess \ {"begin"} /\ hnd[l].req = "chess"
           /\ hnd' = [hnd EXCEPT ![l].pc = pc]
    BY <1>9 DEF ChessOn, handChess, DbWin, DbLose, DbUpdate, winGame, loseGame,
       Score, TellWinner, At, Goto, Chess
  <2>2. hnd[l] # NoHandler /\ Place(hnd[l].req, pc) /\ pc # "pool"
    BY <1>r, <2>1 DEF Place, Chess
  <2>3. Moves(l) /\ GoesOn(l, pc)
    BY <2>1, <2>2, MovesOn
  <2>4. QED
    BY <2>1, <2>3 DEF Passes, GoesOn, Locking, Chess
<1>10. ASSUME NEW l \in Loop, LastWord(l)
       PROVE  Moves(l) /\ hnd'[l] = NoHandler /\ Passes(l)
  <2>1. /\ hnd[l].pc \in {"peer", "moved", "tellLose"}
        /\ hnd' = [hnd EXCEPT ![l] = NoHandler]
    BY <1>10 DEF LastWord, onChat, TellMove, TellLoser, Return, At
  <2>2. QED
    BY <1>r, <2>1, Returns DEF Passes, Locking
<1>11. QED
  BY <1>1, <1>2, <1>3, <1>4, <1>5, <1>6, <1>7, <1>8, <1>9, <1>10,
     WhoWrites, NobodyNull, NoForeign DEF ChessOn, LastWord

\* What a handler knows stays true whatever the other threads do.
LEMMA WorkingFrame ==
    ASSUME Inv, Undisturbed, GameNext, NEW l \in Loop, hnd[l] # NoHandler
    PROVE  /\ link'[hnd[l].conn] = "up" /\ io'[l] = Idle /\ batch'[l] = 0
           /\ client'[hnd[l].conn] # "out"
           /\ \A o \in Obj' : ConnOf(o)' = hnd[l].conn => UserOf(o)' = hnd[l].user
<1> DEFINE c == hnd[l].conn
<1>1. /\ Working(l) /\ c \in Conn /\ LoopOf[c] = l /\ link[c] = "up"
      /\ io[l] = Idle /\ batch[l] = 0 /\ client[c] # "out"
      /\ \A o \in Obj : ConnOf(o) = c => UserOf(o) = hnd[l].user
  BY Worker DEF Working
<1>2. \A d \in Conn : LoopOf[d] = l => ~LoopIdle(LoopOf[d])
  BY DEF LoopIdle
<1>3. link'[c] = "up"
  <2>1. ASSUME NEW d \in Conn, Accept(d) PROVE link'[c] = "up"
    BY <2>1, <1>1, Ground DEF Accept, addConn, Inv, SessionsTypeOK
  <2>2. ASSUME NEW d \in Conn, Disconnect(d) PROVE link'[c] = "up"
    <3>1. d # c
      BY <1>1, <1>2, <2>2 DEF Disconnect
    <3>2. QED
      BY <2>2, <1>1, <3>1, Ground DEF Disconnect, removeConn, Inv, SessionsTypeOK
  <2>3. QED
    BY <1>1, <2>1, <2>2, WhoWrites
<1>4. io'[l] = Idle
  <2>0. io \in [Loop -> [pc : {"idle", "query", "add", "reply", "lookup",
                               "remove", "erase"},
                         conn : Conn \cup {NoConn}, user : User \cup {NoUser}]]
    BY Ground DEF Inv, SessionsTypeOK
  <2>1. io[l].pc = "idle"
    BY <1>1 DEF Idle
  <2>2. ASSUME NEW m \in Loop, SessionOnly(m) \/ LoginAck(m) \/ GameLoginAdd(m)
        PROVE  io'[l] = io[l]
    <3>1. m # l /\ \E x : io' = [io EXCEPT ![m] = x]
      BY <2>1, <2>2 DEF SessionOnly, LoginRefused, LockForAdd, CloseLookup,
         LockForRemove, removeOnlineUser, LoginAck, LoginReply, GameLoginAdd,
         LoginAdd, addOnlineUser, Callback
    <3>2. QED
      BY <2>0, <3>1
  <2>3. ASSUME NEW d \in Conn, Accept(d) PROVE io'[l] = io[l]
    BY <2>3 DEF Accept, addConn
  <2>4. ASSUME NEW d \in Conn, Disconnect(d) \/ \E u \in User : GameLogin(d, u)
        PROVE  io'[l] = io[l]
    <3>1. LoopOf[d] # l /\ \E x : io' = [io EXCEPT ![LoopOf[d]] = x]
      BY <1>2, <2>4 DEF Disconnect, removeConn, GameLogin, Login, onLogin, Callback
    <3>2. QED
      BY <2>0, <3>1
  <2>5. QED
    BY <1>1, <2>2, <2>3, <2>4, WhoWrites
<1>5. batch'[l] = 0
  <2>1. ASSUME NEW m \in Loop, doPendingFunctor(m) PROVE batch'[l] = 0
    <3>1. m # l /\ batch \in [Loop -> Nat]
          /\ \E x : batch' = [batch EXCEPT ![m] = x]
      BY <2>1 DEF doPendingFunctor, Inv, TypeInv, OtherTypes
    <3>2. QED
      BY <1>1, <3>1
  <2>2. QED
    BY <1>1, <2>1, WhoWrites
<1>6. client'[c] # "out"
  BY <1>1, ClientWrites
<1>7. ASSUME NEW o \in Obj', ConnOf(o)' = c PROVE UserOf(o)' = hnd[l].user
  <2>1. CASE o \in Obj
    BY <1>1, <1>7, <2>1, Grows
  <2>2. ASSUME NEW m \in Loop, GameLoginAdd(m), o \notin Obj PROVE FALSE
    <3>1. io[m].conn = c /\ io[m].pc = "add"
      BY <1>7, <2>2, NewObject
    <3>2. m = l
      BY <1>1, <3>1, Logins1
    <3>3. QED
      BY <1>1, <3>1, <3>2 DEF Idle
  <2>3. UNCHANGED heap => Obj' = Obj
    BY DEF Obj
  <2>4. QED
    BY <1>7, <2>1, <2>2, <2>3, WhoWrites
<1>8. QED
  BY <1>3, <1>4, <1>5, <1>6, <1>7

\* The handler that a loop begins.
LEMMA BeginDoes ==
    ASSUME Inv, NEW c \in Conn, NEW r \in Request, Begin(c, r)
    PROVE  \E o \in Obj :
              /\ ConnOf(o) = c /\ link[c] = "up" /\ client[c] # "out" /\ Stands(o)
              /\ inbox[c] = r /\ inbox' = [inbox EXCEPT ![c] = "none"]
              /\ hnd[LoopOf[c]] = NoHandler /\ LoopIdle(LoopOf[c])
              /\ \A m \in Loop : m # LoopOf[c] => hnd'[m] = hnd[m]
              /\ hnd'[LoopOf[c]].pc = "begin" /\ hnd'[LoopOf[c]].req = r
              /\ hnd'[LoopOf[c]].conn = c /\ hnd'[LoopOf[c]].user = UserOf(o)
<1>1. /\ link[c] = "up" /\ inbox[c] = r /\ inbox' = [inbox EXCEPT ![c] = "none"]
      /\ hnd[LoopOf[c]] = NoHandler /\ LoopIdle(LoopOf[c])
      /\ hnd' = [hnd EXCEPT ![LoopOf[c]] =
                    [NoHandler EXCEPT !.pc = "begin", !.req = r,
                                      !.conn = c, !.user = ClientUser(c)]]
  BY DEF Begin, Handle, LoopIdle
<1>2. inbox[c] # "none" /\ LoopOf[c] \in Loop
  BY <1>1, LoopOfAssumption DEF Request
<1>3. client[c] # "out" /\ Owned(c)
  BY <1>2 DEF Inv, GameInv, Accounts, OutKnows, TypeInv, ClientTypes
<1>4. PICK o \in Obj : ConnOf(o) = c
  BY <1>3 DEF Owned, ConnOf
<1>5. Stands(o)
  BY <1>1, <1>4 DEF Inv, GameInv, Clients
<1>6. ClientUser(c) = UserOf(o)
  <2>1. \A p \in Obj : heap[p].conn = c => p = o
    BY <1>4 DEF Inv, GameInv, Accounts, OneObject, ConnOf
  <2>2. {p \in 1..Len(heap) : heap[p].conn = c} = {o}
    BY <1>4, <2>1 DEF Obj, ConnOf
  <2>3. o \in Nat /\ o <= o
    BY Objects DEF Obj
  <2>4. (CHOOSE p \in {o} : \A q \in {o} : q <= p) = o
    BY <2>3
  <2>5. QED
    BY <2>2, <2>4 DEF ClientUser, UserOf
<1> DEFINE h == [NoHandler EXCEPT !.pc = "begin", !.req = r,
                                  !.conn = c, !.user = ClientUser(c)]
<1>7. h.pc = "begin" /\ h.req = r /\ h.conn = c /\ h.user = ClientUser(c)
  BY DEF NoHandler
<1> HIDE DEF h
<1>8. /\ hnd'[LoopOf[c]] = h /\ \A m \in Loop : m # LoopOf[c] => hnd'[m] = hnd[m]
  BY <1>1, <1>2 DEF Inv, TypeInv, HandlerTypes, h
<1>9. QED
  BY <1>1, <1>3, <1>4, <1>5, <1>6, <1>7, <1>8

LEMMA HandlerKnowsStep ==
    ASSUME Inv, Undisturbed, GameNext, NEW l \in Loop
    PROVE  HandlerKnows(l)'
<1> SUFFICES ASSUME hnd'[l] # NoHandler PROVE Working(l)'
  BY DEF HandlerKnows
<1>1. CASE hnd[l] # NoHandler
  <2>1. /\ Working(l) /\ LoopOf[hnd[l].conn] = l
        /\ \A o \in Obj : ConnOf(o) = hnd[l].conn => UserOf(o) = hnd[l].user
    BY <1>1, Worker DEF Working
  <2>2. /\ link'[hnd[l].conn] = "up" /\ io'[l] = Idle /\ batch'[l] = 0
        /\ client'[hnd[l].conn] # "out"
        /\ \A o \in Obj' : ConnOf(o)' = hnd[l].conn => UserOf(o)' = hnd[l].user
    BY <1>1, WorkingFrame
  <2>o. \A o \in Obj' : ConnOf(o)' = hnd[l].conn => o \in Obj /\ ConnOf(o) = hnd[l].conn
    <3>1. PICK p \in Obj : ConnOf(p) = hnd[l].conn
      BY <1>1, Worker
    <3>2. p \in Obj' /\ ConnOf(p)' = hnd[l].conn
      BY <3>1, Grows
    <3>3. OneObject'
      BY OneObjectStep
    <3>4. QED
      BY <3>1, <3>2, <3>3 DEF OneObject
  <2>3. CASE hnd'[l] = hnd[l]
    <3>1. hnd[l].pc = "pool" => \A o \in Obj' : ConnOf(o)' = hnd[l].conn => hnd[l].obj = o
      BY <2>1, <2>o DEF Working
    <3>2. QED
      BY <2>1, <2>2, <2>3, <3>1 DEF Working
  <2>4. CASE hnd'[l] # hnd[l]
    <3>1. Moves(l)
      <4>1. ASSUME NEW c \in Conn, NEW r \in Request, Begin(c, r) PROVE FALSE
        BY <1>1, <2>4, <4>1, BeginDoes
      <4>2. QED
        BY <2>4, <4>1, HandlerDoes DEF Moves
    <3>2. GoesOn(l, hnd'[l].pc) /\ Place(hnd[l].req, hnd'[l].pc)
          /\ (hnd'[l].pc = "pool" => hnd'[l].obj = userObj[hnd[l].user])
      BY <3>1 DEF Moves
    <3>3. \A o \in Obj : ConnOf(o) = hnd[l].conn => userObj[hnd[l].user] = o
      <4>1. OneObject
        BY DEF Inv, GameInv, Accounts
      <4>2. PICK p \in Obj : ConnOf(p) = hnd[l].conn /\ userObj[hnd[l].user] = p
        BY <1>1, Worker
      <4>3. QED
        BY <4>1, <4>2 DEF OneObject
    <3>4. hnd[l].req = "chess" => "chess" \in GameAsks
      BY <2>1 DEF Working
    <3>5. QED
      BY <2>1, <2>2, <2>o, <3>2, <3>3, <3>4 DEF Working, GoesOn, Place
  <2>5. QED
    BY <2>3, <2>4
<1>2. CASE hnd[l] = NoHandler
  <2>1. PICK c \in Conn, r \in Request : Begin(c, r) /\ LoopOf[c] = l
    <3>1. ASSUME NEW m \in Loop, Moves(m) PROVE FALSE
      BY <1>2, <3>1 DEF Moves
    <3>2. ASSUME NEW c \in Conn, NEW r \in Request, Begin(c, r) PROVE LoopOf[c] = l
      BY <1>2, <3>2, BeginDoes
    <3>3. QED
      BY <1>2, <3>1, <3>2, HandlerDoes
  <2>2. PICK o \in Obj :
           /\ ConnOf(o) = c /\ link[c] = "up" /\ client[c] # "out"
           /\ inbox[c] = r /\ LoopIdle(l)
           /\ hnd'[l].pc = "begin" /\ hnd'[l].req = r
           /\ hnd'[l].conn = c /\ hnd'[l].user = UserOf(o)
    BY <2>1, BeginDoes
  <2>3. r = "chess" => "chess" \in GameAsks
    BY <2>2 DEF Inv, GameInv, Handlers
  <2>4. UNCHANGED <<heap, link, io, batch, client>>
    BY <2>1 DEF Begin, sessionVars
  <2>5. \A p \in Obj' : ConnOf(p)' = c => UserOf(p)' = UserOf(o)
    BY <2>2, <2>4 DEF Inv, GameInv, Accounts, OneObject, Obj, ConnOf, UserOf
  <2>6. r \in {"start", "cancel", "chess", "chat", "exit"}
    BY DEF Request
  <2>7. /\ link'[c] = "up" /\ io'[l] = Idle /\ batch'[l] = 0 /\ client'[c] # "out"
    BY <2>2, <2>4 DEF LoopIdle
  <2>8. QED
    BY <2>1, <2>2, <2>3, <2>5, <2>6, <2>7 DEF Working, Chess, Chat
<1>3. QED
  BY <1>1, <1>2

LEMMA PoolLockStep ==
    ASSUME Inv, Undisturbed, GameNext
    PROVE  PoolLock'
<1>0. /\ \A l \in Loop : hnd[l].pc = "pool" <=> matchLock = l
      /\ mt.pc \notin {"awake", "asleep"} <=> matchLock = Matcher
      /\ NoThread \notin Loop /\ Matcher \notin Loop /\ Matcher # NoThread
      /\ matchLock \in Loop \cup {Matcher, NoThread} /\ mt \in MatcherState
  BY Ground DEF Inv, GameInv, Handlers, PoolLock, TypeInv, OtherTypes, MatcherTypes
<1>n. NoHandler.pc = "none"
  BY DEF NoHandler
<1>1. ASSUME NEW l \in Loop, LockPool(l), Moves(l), GoesOn(l, "pool") PROVE PoolLock'
  <2>1. /\ matchLock = NoThread /\ matchLock' = l /\ UNCHANGED mt
        /\ hnd'[l].pc = "pool" /\ \A m \in Loop : m # l => hnd'[m] = hnd[m]
    BY <1>1 DEF LockPool, Moves, GoesOn
  <2>2. \A m \in Loop : hnd'[m].pc = "pool" <=> matchLock' = m
    BY <1>0, <2>1
  <2>3. mt'.pc \notin {"awake", "asleep"} <=> matchLock' = Matcher
    BY <1>0, <2>1
  <2>4. QED
    BY <2>2, <2>3 DEF PoolLock
<1>2. ASSUME NEW l \in Loop, addUser(l) \/ removeFromPool(l), Moves(l), GoesOn(l, "answer")
      PROVE  PoolLock'
  <2>1. /\ matchLock = l /\ matchLock' = NoThread
        /\ mt.pc \in {"awake", "asleep"} /\ mt'.pc \in {"awake", "asleep"}
    <3>1. CASE addUser(l)
      BY <3>1, AddUser
    <3>2. CASE removeFromPool(l)
      BY <3>2, RemoveFromPool
    <3>3. QED
      BY <1>2, <3>1, <3>2
  <2>2. hnd'[l].pc = "answer" /\ \A m \in Loop : m # l => hnd'[m] = hnd[m]
    BY <1>2 DEF Moves, GoesOn
  <2>3. \A m \in Loop : hnd'[m].pc = "pool" <=> matchLock' = m
    BY <1>0, <2>1, <2>2
  <2>4. mt'.pc \notin {"awake", "asleep"} <=> matchLock' = Matcher
    BY <1>0, <2>1
  <2>5. QED
    BY <2>3, <2>4 DEF PoolLock
<1>3. ASSUME MatcherTest PROVE PoolLock'
  <2>1. /\ UNCHANGED hnd /\ matchLock \notin Loop /\ matchLock' \notin Loop
        /\ mt'.pc \notin {"awake", "asleep"} <=> matchLock' = Matcher
    BY <1>0, <1>3 DEF MatcherTest, MatcherStart, restVars
  <2>2. QED
    BY <1>0, <2>1 DEF PoolLock
<1>4. (\A m \in Loop : hnd'[m].pc = "pool" <=> hnd[m].pc = "pool")
      \/ \E l \in Loop : \/ LockPool(l) /\ Moves(l) /\ GoesOn(l, "pool")
                         \/ (addUser(l) \/ removeFromPool(l)) /\ Moves(l) /\ GoesOn(l, "answer")
  <2>1. ASSUME NEW c \in Conn, NEW r \in Request, Begin(c, r), NEW m \in Loop
        PROVE  hnd'[m].pc = "pool" <=> hnd[m].pc = "pool"
    BY <1>n, <2>1, BeginDoes
  <2>2. ASSUME NEW l \in Loop, Moves(l), Passes(l), NEW m \in Loop
        PROVE  hnd'[m].pc = "pool" <=> hnd[m].pc = "pool"
    BY <1>n, <2>2 DEF Moves, Passes, Locking
  <2>3. ASSUME NEW l \in Loop, Moves(l), ExitRoom(l), GoesOn(l, "left"), NEW m \in Loop
        PROVE  hnd'[m].pc = "pool" <=> hnd[m].pc = "pool"
    BY <2>3 DEF Moves, GoesOn, ExitRoom, At
  <2>4. ASSUME NEW l \in Loop, Moves(l), ExitDone(l), hnd'[l] = NoHandler, NEW m \in Loop
        PROVE  hnd'[m].pc = "pool" <=> hnd[m].pc = "pool"
    BY <1>n, <2>4 DEF Moves, ExitDone, At
  <2>5. QED
    BY <2>1, <2>2, <2>3, <2>4, HandlerDoes
<1>5. ASSUME \A m \in Loop : hnd'[m].pc = "pool" <=> hnd[m].pc = "pool", ~MatcherTest,
             \A l \in Loop : ~LockPool(l) /\ ~addUser(l) /\ ~removeFromPool(l)
      PROVE  PoolLock'
  <2>1. UNCHANGED matchLock
    BY <1>5, WhoWrites
  <2>2. mt'.pc \notin {"awake", "asleep"} <=> mt.pc \notin {"awake", "asleep"}
    <3>1. CASE UNCHANGED mt
      BY <3>1
    <3>2. CASE MatcherTake
      <4>1. PICK t \in Tier : mt' = [mt EXCEPT !.pc = "conn1", !.tier = t,
                                               !.u1 = pool[t][1], !.u2 = pool[t][2]]
        BY <3>2 DEF MatcherTake
      <4>2. mt'.pc = "conn1" /\ mt.pc = "scan"
        BY <1>0, <3>2, <4>1 DEF MatcherState, MatcherTake
      <4>3. QED
        BY <4>2
    <3>3. CASE MatcherLookup
      BY <3>3, MatcherLooks
    <3>4. CASE MatcherDecide
      BY <3>4, DecideDoes
    <3>5. CASE MatcherTell \/ MatcherCreateRoom
      <4>1. mt.pc \in {"tell", "create"}
            /\ \E pc \in {"create", "gaming"} : mt' = [mt EXCEPT !.pc = pc]
        BY <3>5 DEF MatcherTell, MatcherCreateRoom
      <4>2. mt'.pc \in {"create", "gaming"}
        BY <4>1, MatcherMoves
      <4>3. QED
        BY <4>1, <4>2
    <3>6. CASE MatcherSetGaming
      BY <3>6, SetGamingDoes
    <3>7. CASE MatcherPush
      <4>1. CASE mt.pc = "push1" /\ mt' = [mt EXCEPT !.pc = "push2"]
        BY <4>1, MatcherMoves
      <4>2. CASE mt.pc = "push2" /\ mt' = [MatcherStart EXCEPT !.pc = "scan", !.tier = mt.tier + 1]
        BY <4>2 DEF MatcherStart
      <4>3. QED
        BY <3>7, <4>1, <4>2 DEF MatcherPush
    <3>8. QED
      BY <1>5, <3>1, <3>2, <3>3, <3>4, <3>5, <3>6, <3>7, WhoWrites
  <2>3. QED
    BY <1>0, <1>5, <2>1, <2>2 DEF PoolLock
<1>6. ASSUME NEW l \in Loop, LockPool(l) \/ addUser(l) \/ removeFromPool(l),
             \A m \in Loop : hnd'[m].pc = "pool" <=> hnd[m].pc = "pool"
      PROVE  FALSE
  <2>0. hnd \in [Loop -> HandlerState]
    BY DEF Inv, TypeInv, HandlerTypes
  <2>1. CASE LockPool(l)
    <3>1. PICK v : hnd' = [hnd EXCEPT ![l].pc = "pool", ![l].obj = v]
      BY <2>1 DEF LockPool
    <3>2. hnd'[l].pc = "pool"
      BY <3>1, Moving
    <3>3. QED
      BY <1>6, <2>1, <3>2 DEF LockPool
  <2>2. CASE addUser(l) \/ removeFromPool(l)
    <3>1. PICK v : hnd' = [hnd EXCEPT ![l].pc = "answer", ![l].ok = v]
      BY <2>2 DEF addUser, removeFromPool, Unlock
    <3>2. hnd'[l].pc = "answer"
      BY <3>1, Moving
    <3>3. QED
      BY <1>6, <2>2, <3>2 DEF addUser, removeFromPool
  <2>3. QED
    BY <1>6, <2>1, <2>2
<1>7. QED
  BY <1>1, <1>2, <1>3, <1>4, <1>5, <1>6

LEMMA RoomLockStep ==
    ASSUME Inv, Undisturbed, GameNext
    PROVE  RoomLock'
<1>0. /\ \A l \in Loop : hnd[l].pc = "left" <=> roomLock = l
      /\ \A l \in Loop : hnd[l].pc = "left" => leaver.user = hnd[l].user
      /\ roomLock = NoThread => leaver = NoLeaver
      /\ NoThread \notin Loop /\ NoHandler.pc = "none"
  BY Ground DEF Inv, GameInv, Handlers, RoomLock, NoHandler
<1>1. ASSUME NEW l \in Loop, ExitRoom(l), Moves(l), GoesOn(l, "left") PROVE RoomLock'
  <2>1. /\ roomLock = NoThread /\ roomLock' = l /\ leaver'.user = hnd[l].user
        /\ hnd'[l].pc = "left" /\ hnd'[l].user = hnd[l].user
        /\ \A m \in Loop : m # l => hnd'[m] = hnd[m]
    BY <1>1, ExitRoomDoes DEF Moves, GoesOn
  <2>2. \A m \in Loop : hnd'[m].pc = "left" <=> roomLock' = m
    BY <1>0, <2>1
  <2>3. \A m \in Loop : hnd'[m].pc = "left" => leaver'.user = hnd'[m].user
    BY <2>1, <2>2
  <2>4. QED
    BY <1>0, <2>1, <2>2, <2>3 DEF RoomLock
<1>2. ASSUME NEW l \in Loop, ExitDone(l), Moves(l), hnd'[l] = NoHandler PROVE RoomLock'
  <2>1. /\ roomLock = l /\ roomLock' = NoThread /\ leaver' = NoLeaver
        /\ \A m \in Loop : m # l => hnd'[m] = hnd[m]
    BY <1>2, ExitDoneDoes DEF Moves
  <2>2. \A m \in Loop : hnd'[m].pc = "left" <=> roomLock' = m
    BY <1>0, <1>2, <2>1
  <2>3. QED
    BY <1>0, <2>1, <2>2 DEF RoomLock
<1>3. \/ \A m \in Loop : \/ hnd'[m] = hnd[m]
                         \/ hnd'[m].pc # "left" /\ hnd[m].pc # "left"
      \/ \E l \in Loop : \/ ExitRoom(l) /\ Moves(l) /\ GoesOn(l, "left")
                         \/ ExitDone(l) /\ Moves(l) /\ hnd'[l] = NoHandler
  <2>1. ASSUME NEW c \in Conn, NEW r \in Request, Begin(c, r), NEW m \in Loop
        PROVE  hnd'[m] = hnd[m] \/ (hnd'[m].pc # "left" /\ hnd[m].pc # "left")
    BY <1>0, <2>1, BeginDoes
  <2>2. ASSUME NEW l \in Loop, Moves(l), Passes(l), NEW m \in Loop
        PROVE  hnd'[m] = hnd[m] \/ (hnd'[m].pc # "left" /\ hnd[m].pc # "left")
    BY <1>0, <2>2 DEF Moves, Passes, Locking
  <2>3. ASSUME NEW l \in Loop, Moves(l), NEW m \in Loop,
               \/ LockPool(l) /\ GoesOn(l, "pool")
               \/ addUser(l) /\ GoesOn(l, "answer")
               \/ removeFromPool(l) /\ GoesOn(l, "answer")
        PROVE  hnd'[m] = hnd[m] \/ (hnd'[m].pc # "left" /\ hnd[m].pc # "left")
    BY <2>3 DEF Moves, GoesOn, LockPool, addUser, removeFromPool
  <2>4. QED
    BY <2>1, <2>2, <2>3, HandlerDoes
<1>4. ASSUME \A m \in Loop : \/ hnd'[m] = hnd[m]
                             \/ hnd'[m].pc # "left" /\ hnd[m].pc # "left",
             \A l \in Loop : ~ExitRoom(l) /\ ~ExitDone(l)
      PROVE  RoomLock'
  <2>1. UNCHANGED <<roomLock, leaver>>
    BY <1>4, WhoWrites
  <2>2. QED
    BY <1>0, <1>4, <2>1 DEF RoomLock
<1>5. ASSUME NEW l \in Loop, ExitRoom(l) \/ ExitDone(l),
             \A m \in Loop : \/ hnd'[m] = hnd[m]
                             \/ hnd'[m].pc # "left" /\ hnd[m].pc # "left"
      PROVE  FALSE
  <2>1. CASE ExitRoom(l)
    <3>1. hnd[l].pc = "sender" /\ hnd' = [hnd EXCEPT ![l].pc = "left"]
      BY <2>1, ExitRoomDoes
    <3>2. PICK v : v = 0
      OBVIOUS
    <3>3. hnd'[l].pc = "left"
      BY <3>1, <3>2, Moving
    <3>4. QED
      BY <1>5, <3>1, <3>3
  <2>2. CASE ExitDone(l)
    <3>1. hnd[l].pc = "left" /\ hnd' = [hnd EXCEPT ![l] = NoHandler]
      BY <2>2, ExitDoneDoes
    <3>2. hnd'[l].pc = "none"
      BY <1>0, <3>1 DEF Inv, TypeInv, HandlerTypes
    <3>3. QED
      BY <1>5, <3>1, <3>2
  <2>3. QED
    BY <1>5, <2>1, <2>2
<1>6. QED
  BY <1>1, <1>2, <1>3, <1>4, <1>5

LEMMA HandlersStep ==
    ASSUME Inv, Undisturbed, GameNext
    PROVE  Handlers'
<1>1. ASSUME NEW c \in Conn, inbox'[c] = "chess" PROVE "chess" \in GameAsks
  <2>0. /\ inbox[c] = "chess" => "chess" \in GameAsks
        /\ inbox \in [Conn -> Request \cup {"none"}]
    BY DEF Inv, GameInv, Handlers, TypeInv, ClientTypes
  <2>1. ASSUME NEW d \in Conn, NEW r, Disconnect(d) \/ Begin(d, r)
        PROVE  inbox'[c] = inbox[c] \/ inbox'[c] = "none"
    BY <2>0, <2>1 DEF Disconnect, Begin
  <2>2. ASSUME NEW d \in Conn, AskStart(d) \/ AskCancel(d) \/ AskInRoom(d),
               "chess" \notin GameAsks
        PROVE  inbox'[c] = inbox[c] \/ inbox'[c] # "chess"
    BY <2>0, <2>2 DEF AskStart, AskCancel, AskInRoom, AskMove, AskChat, AskExit, Ask
  <2>3. QED
    BY <1>1, <2>0, <2>1, <2>2, WhoWrites
<1>2. QED
  BY <1>1, HandlerKnowsStep, PoolLockStep, RoomLockStep DEF Handlers

-----------------------------------------------------------------------------
(* The pool.                                                               *)

\* Who leaves the pool, and who stays in it.
LEMMA PoolShrinks ==
    ASSUME Inv, GameNext, NEW gone,
           \A t \in Tier : \A i \in 1..Len(pool'[t]) :
              /\ \E k \in 1..Len(pool[t]) : /\ pool'[t][i] = pool[t][k]
                                            /\ pool[t][k] \notin gone
              /\ \A j \in 1..Len(pool'[t]) : pool'[t][i] = pool'[t][j] => i = j,
           \A t \in Tier : \A k \in 1..Len(pool[t]) : pool[t][k] \notin gone =>
              \E i \in 1..Len(pool'[t]) : pool'[t][i] = pool[t][k],
           \A o \in Obj : UserOf(o) \notin gone /\ State(o) = "matching" =>
              State(o)' = "matching" /\ info'[o].points = info[o].points
    PROVE  /\ PoolKnows'
           /\ \A u : Waits(u)' <=> Waits(u) /\ u \notin gone
<1>1. PoolKnows
  BY DEF Inv, GameInv, Queue
<1>2. \A o \in Obj : o \in Obj' /\ UserOf(o)' = UserOf(o)
  BY Grows
<1>3. ASSUME NEW t \in Tier, NEW i \in 1..Len(pool'[t])
      PROVE  \E o \in Obj' : /\ UserOf(o)' = pool'[t][i]
                             /\ State(o)' = "matching"
                             /\ tierOf(info'[o].points) = t
  <2>1. PICK k \in 1..Len(pool[t]) : pool'[t][i] = pool[t][k] /\ pool[t][k] \notin gone
    BY <1>3
  <2>2. PICK o \in Obj : /\ UserOf(o) = pool[t][k] /\ State(o) = "matching"
                         /\ tierOf(info[o].points) = t
    BY <1>1 DEF PoolKnows
  <2>3. State(o)' = "matching" /\ info'[o].points = info[o].points
    BY <2>1, <2>2
  <2>4. QED
    BY <1>2, <2>1, <2>2, <2>3
<1>4. PoolKnows'
  <2>1. ASSUME NEW t \in Tier, NEW i \in 1..Len(pool'[t])
        PROVE  \A j \in 1..Len(pool'[t]) : pool'[t][i] = pool'[t][j] => i = j
    BY <2>1
  <2>2. QED
    BY <1>3, <2>1 DEF PoolKnows
<1>5. ASSUME NEW u PROVE Waits(u)' <=> Waits(u) /\ u \notin gone
  <2>1. ASSUME Waits(u)' PROVE Waits(u) /\ u \notin gone
    BY <2>1 DEF Waits
  <2>2. ASSUME Waits(u), u \notin gone PROVE Waits(u)'
    <3>1. PICK t \in Tier : \E k \in 1..Len(pool[t]) : pool[t][k] = u
      BY <2>2 DEF Waits
    <3>2. PICK k \in 1..Len(pool[t]) : pool[t][k] = u
      BY <3>1
    <3>3. PICK i \in 1..Len(pool'[t]) : pool'[t][i] = u
      BY <2>2, <3>2
    <3>4. QED
      BY <3>3 DEF Waits
  <2>3. QED
    BY <2>1, <2>2
<1>6. QED
  BY <1>4, <1>5

\* Nobody whose state changes while the pool does not was waiting in it.
LEMMA WaitersStay ==
    ASSUME Inv, Undisturbed, GameNext, NEW o \in Obj, State(o) = "matching",
           Waits(UserOf(o)), UNCHANGED pool
    PROVE  State(o)' = "matching" /\ tierOf(info'[o].points) = tierOf(info[o].points)
<1>1. ~Held(UserOf(o))
  BY DEF Inv, GameInv, Queue, MatchingKnows
<1>2. CASE MatcherDecide
  <2>1. PICK p, q \in Obj :
           /\ Looked(p, q) /\ mt.pc = "decide"
           /\ \A r \in Obj : r \notin {p, q} => State(r)' = State(r)
    <3>1. UNCHANGED info => \A r \in Obj : State(r)' = State(r)
      BY DEF State
    <3>2. QED
      BY ZenonT(30), <1>2, <3>1, DecideDoes
  <2>2. Held(UserOf(p)) /\ Held(UserOf(q))
    BY <2>1 DEF Looked, Held, Taken
  <2>3. o \notin {p, q}
    BY <1>1, <2>2
  <2>4. QED
    BY <2>1, <2>3, StateWrites
<1>3. CASE MatcherSetGaming
  <2>1. PICK p, q \in Obj :
           /\ Looked(p, q) /\ mt.pc = "gaming"
           /\ \A r \in Obj : r \notin {p, q} => State(r)' = State(r)
    <3>1. UNCHANGED info => \A r \in Obj : State(r)' = State(r)
      BY DEF State
    <3>2. QED
      BY ZenonT(30), <1>3, <3>1, SetGamingDoes
  <2>2. Held(UserOf(p)) /\ Held(UserOf(q))
    BY <2>1 DEF Looked, Held, Taken
  <2>3. o \notin {p, q}
    BY <1>1, <2>2
  <2>4. QED
    BY <2>1, <2>3, StateWrites
<1>4. ASSUME NEW l \in Loop, ExitDone(l) PROVE State(o)' = State(o)
  <2>1. PICK p \in Obj : /\ State(p) = "gaming"
                         /\ \A r \in Obj : r # p => State(r)' = State(r)
    BY ZenonT(30), <1>4, ExitDoneDoes
  <2>2. QED
    BY <2>1
<1>5. ASSUME NEW l \in Loop, addUser(l) PROVE State(o)' = State(o)
  <2>1. PICK p \in Obj :
              /\ ConnOf(p) = hnd[l].conn /\ UserOf(p) = hnd[l].user
              /\ Stands(p) /\ Post(ConnOf(p)) = hnd[l]
              /\ hnd[l].req = "start" /\ hnd[l].pc = "pool"
              /\ State(p) = "online" /\ ~Coming(ConnOf(p)) /\ State(p)' = "matching"
              /\ \A r \in Obj : /\ r # p => State(r)' = State(r)
                                /\ info'[r].points = info[r].points
              /\ \E t \in Tier : /\ t = tierOf(info[p].points)
                                 /\ pool' = [pool EXCEPT ![t] = Append(@, UserOf(p))]
              /\ hnd' = [hnd EXCEPT ![l].pc = "answer", ![l].ok = TRUE]
              /\ mt.pc \in {"awake", "asleep"} /\ mt'.pc \in {"awake", "asleep"}
              /\ matchLock = l /\ matchLock' = NoThread
    BY <1>5, AddUser, ZenonT(30)
  <2>2. QED
    BY <2>1
<1>6. ASSUME NEW l \in Loop, removeFromPool(l) PROVE State(o)' = State(o)
  <2>1. PICK p \in Obj :
           /\ \A r \in Obj : r # p => State(r)' = State(r)
           /\ \/ /\ State(p) = "matching"
                 /\ \E t \in Tier : /\ t = tierOf(info[p].points)
                                    /\ pool' = [pool EXCEPT ![t] = Without(@, UserOf(p))]
              \/ State(p)' = State(p)
    BY ZenonT(60), <1>6, RemoveFromPool
  <2>2. CASE o # p
    BY <2>1, <2>2
  <2>3. CASE o = p /\ State(p)' # State(p)
    <3>1. PICK t \in Tier : /\ t = tierOf(info[o].points)
                            /\ pool' = [pool EXCEPT ![t] = Without(@, UserOf(o))]
      BY <2>1, <2>3
    <3>2. PICK s \in Tier : \E i \in 1..Len(pool[s]) : pool[s][i] = UserOf(o)
      BY DEF Waits
    <3>3. PICK i \in 1..Len(pool[s]) : pool[s][i] = UserOf(o)
      BY <3>2
    <3>4. /\ PoolKnows /\ OneObject
          /\ pool \in [Tier -> Seq(User)]
      BY DEF Inv, GameInv, Queue, Accounts, TypeInv, OtherTypes
    <3>5. s = t
      BY <3>1, <3>3, <3>4 DEF PoolKnows, OneObject
    <3>6. \A j \in 1..Len(pool[t]) : pool[t][j] = UserOf(o) <=> j = i
      BY <3>3, <3>4, <3>5 DEF PoolKnows
    <3>7. pool[t] \in Seq(User) /\ i \in 1..Len(pool[t]) /\ Len(pool[t]) \in Nat
      BY <3>3, <3>4, <3>5
    <3>8. Len(Without(pool[t], UserOf(o))) = Len(pool[t]) - 1
      BY <3>6, <3>7, WithoutOne
    <3>9. pool'[t] = Without(pool[t], UserOf(o))
      BY <3>1, <3>4
    <3>10. QED
      BY <3>7, <3>8, <3>9
  <2>4. QED
    BY <2>2, <2>3
<1>7. QED
  BY <1>2, <1>3, <1>4, <1>5, <1>6, StateWrites

\* The match thread takes the first two of a tier out.
LEMMA TakeDoes ==
    ASSUME Inv, GameNext, MatcherTake
    PROVE  /\ PoolKnows' /\ mt.pc = "scan" /\ mt'.pc = "conn1"
           /\ mt'.u1 # mt'.u2 /\ UNCHANGED info
           /\ \E p, q \in Obj :
                 /\ UserOf(p) = mt'.u1 /\ State(p) = "matching"
                 /\ UserOf(q) = mt'.u2 /\ State(q) = "matching"
           /\ \A u : Waits(u)' <=> Waits(u) /\ u \notin {mt'.u1, mt'.u2}
<1>1. /\ PoolKnows /\ pool \in [Tier -> Seq(User)] /\ mt \in MatcherState
  BY DEF Inv, GameInv, Queue, TypeInv, OtherTypes, MatcherTypes
<1>2. PICK t \in Tier :
         /\ Full(t) /\ mt.pc = "scan"
         /\ mt' = [mt EXCEPT !.pc = "conn1", !.tier = t, !.u1 = pool[t][1],
                             !.u2 = pool[t][2]]
         /\ pool' = [pool EXCEPT ![t] = Tail(Tail(@))]
  BY DEF MatcherTake
<1> DEFINE n == Len(pool[t])
           a == pool[t][1]
           b == pool[t][2]
<1>3. mt'.pc = "conn1" /\ mt'.u1 = a /\ mt'.u2 = b
  BY <1>1, <1>2 DEF MatcherState
<1>4. pool[t] \in Seq(User) /\ n \in Nat /\ n >= 2 /\ 1 \in 1..n /\ 2 \in 1..n
  BY <1>1, <1>2 DEF Full
<1>5. /\ Tail(pool[t]) \in Seq(User) /\ Len(Tail(pool[t])) = n - 1
      /\ \A i \in 1..(n - 1) : Tail(pool[t])[i] = pool[t][i + 1]
  BY <1>4
<1>6. pool'[t] = Tail(Tail(pool[t])) /\ \A s \in Tier \ {t} : pool'[s] = pool[s]
  BY <1>1, <1>2
<1>7. /\ Len(pool'[t]) = n - 2
      /\ \A i \in 1..(n - 2) : pool'[t][i] = pool[t][i + 2]
  <2> DEFINE s == Tail(pool[t])
  <2>1. s \in Seq(User) /\ Len(s) = n - 1 /\ \A i \in 1..(n - 1) : s[i] = pool[t][i + 1]
    BY <1>5
  <2> HIDE DEF s
  <2>2. Len(Tail(s)) = n - 2 /\ \A i \in 1..(n - 2) : Tail(s)[i] = s[i + 1]
    BY <1>4, <2>1
  <2>3. \A i \in 1..(n - 2) : i + 1 \in 1..(n - 1) /\ (i + 1) + 1 = i + 2
    BY <1>4
  <2>4. pool'[t] = Tail(s)
    BY <1>6 DEF s
  <2> HIDE DEF n
  <2>5. QED
    BY <2>1, <2>2, <2>3, <2>4
<1>8. \A i \in 1..n, j \in 1..n : pool[t][i] = pool[t][j] => i = j
  BY <1>1 DEF PoolKnows
<1>9. a # b
  BY <1>4, <1>8
<1>10. PICK p \in Obj : /\ UserOf(p) = a /\ State(p) = "matching"
                        /\ tierOf(info[p].points) = t
  BY <1>1, <1>4 DEF PoolKnows
<1>11. PICK q \in Obj : /\ UserOf(q) = b /\ State(q) = "matching"
                        /\ tierOf(info[q].points) = t
  BY <1>1, <1>4 DEF PoolKnows
<1>12. \A s \in Tier : s # t => \A i \in 1..Len(pool[s]) : pool[s][i] \notin {a, b}
  BY <1>1, <1>10, <1>11 DEF PoolKnows, Inv, GameInv, Accounts, OneObject
<1> DEFINE gone == {a, b}
<1>13. ASSUME NEW s \in Tier, NEW i \in 1..Len(pool'[s])
       PROVE  /\ \E k \in 1..Len(pool[s]) : /\ pool'[s][i] = pool[s][k]
                                            /\ pool[s][k] \notin gone
              /\ \A j \in 1..Len(pool'[s]) : pool'[s][i] = pool'[s][j] => i = j
  <2>1. CASE s # t
    <3>1. pool'[s] = pool[s]
      BY <1>6, <2>1
    <3>2. \A j \in 1..Len(pool[s]) : pool[s][i] = pool[s][j] => i = j
      BY <1>1, <1>13, <3>1 DEF PoolKnows
    <3>3. pool[s][i] \notin gone
      BY <1>12, <1>13, <2>1, <3>1
    <3>4. QED
      BY <1>13, <3>1, <3>2, <3>3
  <2>2. CASE s = t
    <3>1. i \in 1..(n - 2) /\ i + 2 \in 1..n /\ i + 2 # 1 /\ i + 2 # 2
      BY <1>4, <1>7, <1>13, <2>2
    <3>2. pool'[s][i] = pool[t][i + 2] /\ pool[t][i + 2] \notin gone
      BY <1>4, <1>7, <1>8, <2>2, <3>1
    <3>3. ASSUME NEW j \in 1..Len(pool'[s]), pool'[s][i] = pool'[s][j] PROVE i = j
      <4>1. j \in 1..(n - 2) /\ j + 2 \in 1..n
        BY <1>4, <1>7, <3>3, <2>2
      <4>2. pool[t][i + 2] = pool[t][j + 2]
        BY <1>7, <2>2, <3>1, <3>3, <4>1
      <4>3. i + 2 = j + 2
        BY <1>8, <3>1, <4>1, <4>2
      <4>4. QED
        BY <3>1, <4>1, <4>3
    <3>4. QED
      BY <2>2, <3>1, <3>2, <3>3
  <2>3. QED
    BY <2>1, <2>2
<1>14. ASSUME NEW s \in Tier, NEW k \in 1..Len(pool[s]), pool[s][k] \notin gone
       PROVE  \E i \in 1..Len(pool'[s]) : pool'[s][i] = pool[s][k]
  <2>1. CASE s # t
    BY <1>6, <1>14, <2>1
  <2>2. CASE s = t
    <3>1. k # 1 /\ k # 2 /\ k \in 1..n
      BY <1>14, <2>2
    <3>2. k - 2 \in 1..(n - 2) /\ (k - 2) + 2 = k
      BY <1>4, <3>1
    <3>3. QED
      BY <1>7, <2>2, <3>2
  <2>3. QED
    BY <2>1, <2>2
<1>15. UNCHANGED info
  BY DEF MatcherTake
<1>16. \A o \in Obj : State(o)' = State(o) /\ info'[o].points = info[o].points
  BY <1>15 DEF State
<1> HIDE DEF gone, n
<1>17. PoolKnows' /\ \A u : Waits(u)' <=> Waits(u) /\ u \notin gone
  BY <1>13, <1>14, <1>16, PoolShrinks
<1>18. gone = {mt'.u1, mt'.u2}
  BY <1>3 DEF gone
<1>19. QED
  BY <1>2, <1>3, <1>9, <1>10, <1>11, <1>15, <1>17, <1>18

\* A cancel that is granted.
LEMMA LeaveDoes ==
    ASSUME Inv, GameNext, NEW o \in Obj, State(o) = "matching",
           mt.pc \in {"awake", "asleep"},
           \A p \in Obj : /\ p # o => State(p)' = State(p)
                          /\ info'[p].points = info[p].points,
           NEW t \in Tier, t = tierOf(info[o].points),
           pool' = [pool EXCEPT ![t] = Without(@, UserOf(o))]
    PROVE  PoolKnows' /\ \A u : Waits(u)' <=> Waits(u) /\ u # UserOf(o)
<1> DEFINE v == UserOf(o)
           n == Len(pool[t])
           gone == {v}
<1>1. /\ PoolKnows /\ pool \in [Tier -> Seq(User)] /\ OneObject
  BY DEF Inv, GameInv, Queue, TypeInv, OtherTypes, Accounts
<1>2. Waits(v)
  BY DEF Inv, GameInv, Queue, MatchingKnows, Held, Taken
<1>3. PICK s \in Tier : \E i \in 1..Len(pool[s]) : pool[s][i] = v
  BY <1>2 DEF Waits
<1>4. \A r \in Tier : \A i \in 1..Len(pool[r]) : pool[r][i] = v => r = t
  BY <1>1 DEF PoolKnows, OneObject
<1>5. PICK k \in 1..n : pool[t][k] = v
  BY <1>3, <1>4
<1>6. \A i \in 1..n, j \in 1..n : pool[t][i] = pool[t][j] => i = j
  BY <1>1 DEF PoolKnows
<1>7. \A i \in 1..n : pool[t][i] = v <=> i = k
  BY <1>5, <1>6
<1>8. pool[t] \in Seq(User) /\ n \in Nat
  BY <1>1
<1>9. /\ Len(Without(pool[t], v)) = n - 1
      /\ \A i \in 1..(n - 1) : Without(pool[t], v)[i] = pool[t][IF i < k THEN i ELSE i + 1]
  <2>1. k \in 1..Len(pool[t]) /\ \A i \in 1..Len(pool[t]) : pool[t][i] = v <=> i = k
    BY <1>7
  <2> HIDE DEF v
  <2>2. QED
    BY ZenonT(60), <1>8, <2>1, WithoutOne
<1>10. pool'[t] = Without(pool[t], v) /\ \A r \in Tier \ {t} : pool'[r] = pool[r]
  BY <1>1
<1>11. /\ Len(pool'[t]) = n - 1
       /\ \A i \in 1..(n - 1) : pool'[t][i] = pool[t][IF i < k THEN i ELSE i + 1]
  BY <1>9, <1>10
<1>12. ASSUME NEW s2 \in Tier, NEW i \in 1..Len(pool'[s2])
       PROVE  /\ \E m \in 1..Len(pool[s2]) : /\ pool'[s2][i] = pool[s2][m]
                                             /\ pool[s2][m] \notin gone
              /\ \A j \in 1..Len(pool'[s2]) : pool'[s2][i] = pool'[s2][j] => i = j
  <2>1. CASE s2 # t
    <3>1. pool'[s2] = pool[s2]
      BY <1>10, <2>1
    <3>2. \A j \in 1..Len(pool[s2]) : pool[s2][i] = pool[s2][j] => i = j
      BY <1>1, <1>12, <3>1 DEF PoolKnows
    <3>3. pool[s2][i] \notin gone
      BY <1>4, <1>12, <2>1, <3>1
    <3>4. QED
      BY <1>12, <3>1, <3>2, <3>3
  <2>2. CASE s2 = t
    <3> HIDE DEF n, v
    <3> DEFINE at(m) == IF m < k THEN m ELSE m + 1
    <3>1. \A m \in 1..(n - 1) : at(m) \in 1..n /\ at(m) # k
      BY <1>8, <1>5
    <3>2. i \in 1..(n - 1)
      BY <1>11, <1>12, <2>2
    <3>3. \A m \in 1..(n - 1) : pool'[t][m] = pool[t][at(m)]
      BY <1>11
    <3>4. \A m \in 1..(n - 1), j \in 1..(n - 1) : at(m) = at(j) => m = j
      BY <1>8, <1>5
    <3> HIDE DEF at
    <3>5. pool[t][at(i)] # v
      BY <1>7, <3>1, <3>2
    <3>6. \A j \in 1..(n - 1) : pool'[t][i] = pool'[t][j] => i = j
      BY <1>6, <3>1, <3>2, <3>3, <3>4
    <3>7. \E m \in 1..n : pool'[t][i] = pool[t][m] /\ pool[t][m] \notin gone
      BY <3>1, <3>2, <3>3, <3>5
    <3>8. QED
      BY <1>11, <2>2, <3>6, <3>7 DEF n
  <2>3. QED
    BY <2>1, <2>2
<1>13. ASSUME NEW s2 \in Tier, NEW m \in 1..Len(pool[s2]), pool[s2][m] \notin gone
       PROVE  \E i \in 1..Len(pool'[s2]) : pool'[s2][i] = pool[s2][m]
  <2>1. CASE s2 # t
    BY <1>10, <1>13, <2>1
  <2>2. CASE s2 = t
    <3>1. m # k /\ m \in 1..n
      BY <1>5, <1>13, <2>2
    <3>2. CASE m < k
      <4>1. m \in 1..(n - 1)
        BY <1>5, <1>8, <3>1, <3>2
      <4>2. QED
        BY <1>11, <2>2, <3>2, <4>1
    <3>3. CASE ~ (m < k)
      <4>1. m - 1 \in 1..(n - 1) /\ ~ (m - 1 < k) /\ (m - 1) + 1 = m
        BY <1>5, <1>8, <3>1, <3>3
      <4>2. QED
        BY ZenonT(30), <1>11, <2>2, <4>1
    <3>4. QED
      BY <3>2, <3>3
  <2>3. QED
    BY <2>1, <2>2
<1>14. \A p \in Obj : UserOf(p) \notin gone /\ State(p) = "matching" =>
          State(p)' = "matching" /\ info'[p].points = info[p].points
  OBVIOUS
<1> HIDE DEF gone, n
<1>15. PoolKnows' /\ \A u : Waits(u)' <=> Waits(u) /\ u \notin gone
  BY <1>12, <1>13, <1>14, PoolShrinks
<1>16. \A u : u \notin gone <=> u # UserOf(o)
  BY DEF gone
<1>17. QED
  BY <1>15, <1>16

\* A start that is granted.
LEMMA JoinDoes ==
    ASSUME Inv, GameNext, NEW o \in Obj, State(o) = "online", State(o)' = "matching",
           \A p \in Obj : /\ p # o => State(p)' = State(p)
                          /\ info'[p].points = info[p].points,
           NEW t \in Tier, t = tierOf(info[o].points),
           pool' = [pool EXCEPT ![t] = Append(@, UserOf(o))]
    PROVE  PoolKnows' /\ \A u : Waits(u)' <=> Waits(u) \/ u = UserOf(o)
<1> DEFINE v == UserOf(o)
           n == Len(pool[t])
<1>1. /\ PoolKnows /\ pool \in [Tier -> Seq(User)] /\ OneObject /\ v \in User
      /\ \A p \in Obj : p \in Obj' /\ UserOf(p)' = UserOf(p)
  BY Objects, Grows DEF Inv, GameInv, Queue, TypeInv, OtherTypes, Accounts
<1>2. \A s \in Tier : \A i \in 1..Len(pool[s]) : pool[s][i] # v
  BY <1>1 DEF PoolKnows, OneObject
<1>3. pool[t] \in Seq(User) /\ n \in Nat
  BY <1>1
<1>4. /\ Len(pool'[t]) = n + 1 /\ pool'[t][n + 1] = v
      /\ \A i \in 1..n : pool'[t][i] = pool[t][i]
      /\ \A s \in Tier \ {t} : pool'[s] = pool[s]
  BY <1>1, <1>3
<1> HIDE DEF v, n
<1>5. ASSUME NEW s \in Tier, NEW i \in 1..Len(pool'[s])
      PROVE  \/ s = t /\ i = n + 1 /\ pool'[s][i] = v
             \/ i \in 1..Len(pool[s]) /\ pool'[s][i] = pool[s][i]
  BY <1>3, <1>4 DEF n
<1>6. \A s \in Tier : \A i \in 1..Len(pool[s]) :
         i \in 1..Len(pool'[s]) /\ pool'[s][i] = pool[s][i]
  BY <1>3, <1>4 DEF n
<1>7. ASSUME NEW s \in Tier, NEW i \in 1..Len(pool'[s])
      PROVE  /\ \A j \in 1..Len(pool'[s]) : pool'[s][i] = pool'[s][j] => i = j
             /\ \E p \in Obj' : /\ UserOf(p)' = pool'[s][i]
                                /\ State(p)' = "matching"
                                /\ tierOf(info'[p].points) = s
  <2>1. \A j \in 1..Len(pool'[s]) : pool'[s][i] = pool'[s][j] => i = j
    BY <1>1, <1>2, <1>5, <1>7 DEF PoolKnows
  <2>2. CASE s = t /\ i = n + 1 /\ pool'[s][i] = v
    <3>1. o \in Obj' /\ UserOf(o)' = v /\ State(o)' = "matching"
      BY <1>1 DEF v
    <3>2. info'[o].points = info[o].points
      OBVIOUS
    <3>3. tierOf(info'[o].points) = s
      BY <2>2, <3>2
    <3>4. QED
      BY <2>1, <2>2, <3>1, <3>3, Zenon
  <2>3. CASE i \in 1..Len(pool[s]) /\ pool'[s][i] = pool[s][i]
    <3>1. PICK p \in Obj : /\ UserOf(p) = pool[s][i] /\ State(p) = "matching"
                           /\ tierOf(info[p].points) = s
      BY <1>1, <2>3 DEF PoolKnows
    <3>2. p # o
      BY <3>1
    <3>3. State(p)' = "matching" /\ info'[p].points = info[p].points
      BY <3>1, <3>2
    <3>4. p \in Obj' /\ UserOf(p)' = pool'[s][i]
      BY <1>1, <2>3, <3>1
    <3>5. tierOf(info'[p].points) = s
      BY <3>1, <3>3
    <3>6. QED
      BY <2>1, <3>3, <3>4, <3>5, Zenon
  <2>4. QED
    BY <1>5, <2>1, <2>2, <2>3
<1>8. PoolKnows'
  BY <1>7 DEF PoolKnows
<1>9. ASSUME NEW u PROVE Waits(u)' <=> Waits(u) \/ u = v
  <2>1. Waits(u)' => Waits(u) \/ u = v
    BY <1>5 DEF Waits
  <2>2. Waits(u) => Waits(u)'
    BY <1>6 DEF Waits
  <2>3. u = v => Waits(u)'
    <3>1. n + 1 \in 1..Len(pool'[t])
      BY <1>3, <1>4 DEF n
    <3>2. QED
      BY <1>4, <3>1 DEF Waits
  <2>4. QED
    BY <2>1, <2>2, <2>3
<1>10. QED
  BY <1>8, <1>9 DEF v

LEMMA PoolStays ==
    ASSUME Inv, Undisturbed, GameNext, UNCHANGED pool
    PROVE  PoolKnows' /\ \A u : Waits(u)' <=> Waits(u)
<1>1. /\ PoolKnows /\ \A p \in Obj : p \in Obj' /\ UserOf(p)' = UserOf(p)
  BY Grows DEF Inv, GameInv, Queue
<1>2. ASSUME NEW t \in Tier, NEW i \in 1..Len(pool[t])
      PROVE  \E o \in Obj' : /\ UserOf(o)' = pool[t][i]
                             /\ State(o)' = "matching"
                             /\ tierOf(info'[o].points) = t
  <2>1. PICK o \in Obj : /\ UserOf(o) = pool[t][i] /\ State(o) = "matching"
                         /\ tierOf(info[o].points) = t
    BY <1>1 DEF PoolKnows
  <2>2. Waits(UserOf(o))
    BY <2>1 DEF Waits
  <2>3. State(o)' = "matching" /\ tierOf(info'[o].points) = tierOf(info[o].points)
    BY <2>1, <2>2, WaitersStay
  <2>4. QED
    BY <1>1, <2>1, <2>3
<1>3. PoolKnows'
  BY <1>1, <1>2 DEF PoolKnows
<1>4. \A u : Waits(u)' <=> Waits(u)
  BY DEF Waits
<1>5. QED
  BY <1>3, <1>4

\* Nobody of an account that has just logged in waits or is in hand.
LEMMA NewcomerRests ==
    ASSUME Inv, NEW u, \A o \in Obj : UserOf(o) # u
    PROVE  ~Waits(u) /\ ~Held(u)
<1>1. ~Waits(u)
  BY DEF Inv, GameInv, Queue, PoolKnows, Waits
<1>2. ASSUME Held(u) PROVE FALSE
  <2>1. mt.pc \notin {"awake", "asleep", "scan"} /\ u \in {mt.u1, mt.u2}
    BY <1>2 DEF Held, Taken
  <2>2. PICK p, q \in Obj : Looked(p, q)
    BY <2>1, InHandPair
  <2>3. QED
    BY <2>1, <2>2 DEF Looked
<1>3. QED
  BY <1>1, <1>2

LEMMA NotHeld ==
    ASSUME mt.pc \in {"awake", "asleep", "scan", "push1", "push2"}
    PROVE  \A u : ~Held(u)
BY DEF Held, Taken

\* Who the match thread has in hand changes as it takes a pair and lets it go.
LEMMA HeldStep ==
    ASSUME Inv, GameNext
    PROVE  \/ \A u : Held(u)' <=> Held(u)
           \/ MatcherTake \/ MatcherSetGaming
<1>1. CASE UNCHANGED mt
  BY <1>1 DEF Held
<1>2. CASE MatcherTest
  <2>1. mt.pc \in {"awake", "scan"} /\ mt'.pc \in {"asleep", "scan"}
    BY <1>2 DEF MatcherTest, MatcherStart
  <2>2. QED
    BY <2>1 DEF Held, Taken
<1>3. CASE MatcherLookup
  <2>1. /\ mt'.u1 = mt.u1 /\ mt'.u2 = mt.u2
        /\ mt.pc \in Taken /\ mt'.pc \in Taken
    BY <1>3, MatcherLooks DEF Taken
  <2>2. QED
    BY <2>1 DEF Held
<1>4. CASE MatcherDecide
  <2>1. /\ mt'.u1 = mt.u1 /\ mt'.u2 = mt.u2 /\ mt.pc = "decide"
        /\ mt'.pc \in {"tell", "create"}
    BY <1>4, DecideDoes
  <2>2. QED
    BY <2>1 DEF Held, Taken
<1>5. CASE MatcherTell \/ MatcherCreateRoom
  <2>1. mt.pc \in {"tell", "create"}
        /\ \E pc \in {"create", "gaming"} : mt' = [mt EXCEPT !.pc = pc]
    BY <1>5 DEF MatcherTell, MatcherCreateRoom
  <2>2. mt'.pc \in {"create", "gaming"} /\ mt'.u1 = mt.u1 /\ mt'.u2 = mt.u2
    BY <2>1, MatcherMoves
  <2>3. QED
    BY <2>1, <2>2 DEF Held, Taken
<1>6. CASE MatcherPush
  <2>1. CASE mt.pc = "push1" /\ mt' = [mt EXCEPT !.pc = "push2"]
    <3>1. mt'.pc = "push2"
      BY <2>1, MatcherMoves
    <3>2. QED
      BY <2>1, <3>1 DEF Held, Taken
  <2>2. CASE mt.pc = "push2" /\ mt' = [MatcherStart EXCEPT !.pc = "scan", !.tier = mt.tier + 1]
    <3>1. mt'.pc = "scan"
      BY <2>2 DEF MatcherStart
    <3>2. QED
      BY <2>2, <3>1 DEF Held, Taken
  <2>3. QED
    BY <1>6, <2>1, <2>2 DEF MatcherPush
<1>7. ASSUME NEW l \in Loop, addUser(l) PROVE \A u : Held(u)' <=> Held(u)
  <2>1. mt.pc \in {"awake", "asleep"} /\ mt'.pc \in {"awake", "asleep"}
    BY <1>7, AddUser
  <2>2. QED
    BY <2>1 DEF Held, Taken
<1>8. QED
  BY <1>1, <1>2, <1>3, <1>4, <1>5, <1>6, <1>7, WhoWrites

\* Nobody is newly MATCHING but by a start that is granted.
LEMMA MatchingBefore ==
    ASSUME Inv, Undisturbed, GameNext, NEW o \in Obj, State(o)' = "matching",
           \A l \in Loop : ~addUser(l)
    PROVE  State(o) = "matching"
<1>1. CASE State(o)' = State(o)
  BY <1>1
<1>2. CASE MatcherDecide
  <2>1. \/ UNCHANGED info
        \/ \E r \in Obj : /\ State(r)' = "online"
                          /\ \A x \in Obj : x # r => State(x)' = State(x)
    BY ZenonT(30), <1>2, DecideDoes
  <2>2. UNCHANGED info => State(o)' = State(o)
    BY DEF State
  <2>3. QED
    BY <2>1, <2>2
<1>3. CASE MatcherSetGaming
  <2>1. \/ UNCHANGED info
        \/ \E p, q \in Obj : \A r \in Obj :
              State(r)' = IF r \in {p, q} THEN "gaming" ELSE State(r)
    BY ZenonT(30), <1>3, SetGamingDoes
  <2>2. UNCHANGED info => State(o)' = State(o)
    BY DEF State
  <2>3. QED
    BY <2>1, <2>2
<1>4. ASSUME NEW l \in Loop, removeFromPool(l) PROVE State(o) = "matching"
  <2>1. PICK p \in Obj :
           /\ \A r \in Obj : r # p => State(r)' = State(r)
           /\ State(p)' = "online" \/ State(p)' = State(p)
    BY <1>4, RemoveFromPool
  <2>2. QED
    BY <2>1
<1>5. ASSUME NEW l \in Loop, ExitDone(l) PROVE State(o) = "matching"
  <2>1. PICK p \in Obj :
           /\ \A r \in Obj : r # p => State(r)' = State(r)
           /\ State(p)' = "online"
    BY ZenonT(30), <1>5, ExitDoneDoes
  <2>2. QED
    BY <2>1
<1>6. QED
  BY <1>1, <1>2, <1>3, <1>4, <1>5, StateWrites

\* Every object after a step was there before, or is that of a new login.
LEMMA ObjectsThen ==
    ASSUME Inv, GameNext, NEW o \in Obj'
    PROVE  \/ o \in Obj /\ UserOf(o)' = UserOf(o) /\ ConnOf(o)' = ConnOf(o)
           \/ \E l \in Loop : /\ GameLoginAdd(l)
                              /\ UserOf(o)' = io[l].user /\ ConnOf(o)' = io[l].conn
                              /\ State(o)' = "online"
                              /\ \A p \in Obj : /\ UserOf(p) # io[l].user
                                                /\ ConnOf(p) # io[l].conn
<1>1. CASE o \in Obj
  BY <1>1, Grows
<1>2. ASSUME NEW l \in Loop, GameLoginAdd(l), o \notin Obj
      PROVE  /\ UserOf(o)' = io[l].user /\ ConnOf(o)' = io[l].conn
             /\ State(o)' = "online"
             /\ \A p \in Obj : UserOf(p) # io[l].user /\ ConnOf(p) # io[l].conn
  <2>1. PICK n \in Nat : /\ Obj' = Obj \cup {n} /\ UserOf(n)' = io[l].user
                         /\ ConnOf(n)' = io[l].conn /\ State(n)' = "online"
    BY <1>2, NewObject
  <2>2. o = n
    BY <1>2, <2>1
  <2>3. QED
    BY <1>2, <2>1, <2>2, NewObject
<1>3. UNCHANGED heap => Obj' = Obj
  BY DEF Obj
<1>4. QED
  BY <1>1, <1>2, <1>3, WhoWrites

LEMMA PoolStep ==
    ASSUME Inv, Undisturbed, GameNext
    PROVE  PoolKnows' /\ MatchingKnows'
<1>0. /\ MatchingKnows /\ \A o \in Obj : o \in Obj' /\ UserOf(o)' = UserOf(o)
      /\ OneObject
  BY Grows DEF Inv, GameInv, Queue, Accounts
<1>1. CASE MatcherTake
  <2>1. /\ PoolKnows' /\ mt.pc = "scan" /\ mt'.pc = "conn1" /\ UNCHANGED info
        /\ \A u : Waits(u)' <=> Waits(u) /\ u \notin {mt'.u1, mt'.u2}
    BY <1>1, TakeDoes
  <2>2. \A u : ~Held(u)
    BY <2>1, NotHeld
  <2>3. \A u : Held(u)' <=> u \in {mt'.u1, mt'.u2}
    BY <2>1 DEF Held, Taken
  <2>4. \A o \in Obj' : o \in Obj /\ UserOf(o)' = UserOf(o) /\ State(o)' = State(o)
    BY <1>0, <1>1, <2>1 DEF MatcherTake, restVars, sessionVars, Obj, State
  <2>5. QED
    BY <1>0, <2>1, <2>2, <2>3, <2>4 DEF MatchingKnows
<1>2. ASSUME NEW l \in Loop, addUser(l) PROVE PoolKnows' /\ MatchingKnows'
  <2>1. PICK o \in Obj :
           /\ State(o) = "online" /\ State(o)' = "matching"
           /\ \A p \in Obj : /\ p # o => State(p)' = State(p)
                             /\ info'[p].points = info[p].points
           /\ \E t \in Tier : /\ t = tierOf(info[o].points)
                              /\ pool' = [pool EXCEPT ![t] = Append(@, UserOf(o))]
           /\ mt.pc \in {"awake", "asleep"} /\ mt'.pc \in {"awake", "asleep"}
    BY <1>2, AddUser, ZenonT(30)
  <2>2. PICK t \in Tier : /\ t = tierOf(info[o].points)
                          /\ pool' = [pool EXCEPT ![t] = Append(@, UserOf(o))]
    BY <2>1
  <2>3. PoolKnows' /\ \A u : Waits(u)' <=> Waits(u) \/ u = UserOf(o)
    BY <2>1, <2>2, JoinDoes
  <2>4. \A u : ~Held(u) /\ ~Held(u)'
    BY <2>1 DEF Held, Taken
  <2>5. \A p \in Obj' : p \in Obj /\ UserOf(p)' = UserOf(p)
    BY <1>0, <1>2 DEF addUser, Unlock, sessionVars, Obj
  <2>6. QED
    BY <1>0, <2>1, <2>3, <2>4, <2>5 DEF MatchingKnows
<1>3. ASSUME NEW l \in Loop, removeFromPool(l), ~UNCHANGED pool
      PROVE  PoolKnows' /\ MatchingKnows'
  <2>1. PICK o \in Obj :
           /\ State(o) = "matching" /\ State(o)' = "online"
           /\ \A p \in Obj : /\ p # o => State(p)' = State(p)
                             /\ info'[p].points = info[p].points
           /\ \E t \in Tier : /\ t = tierOf(info[o].points)
                              /\ pool' = [pool EXCEPT ![t] = Without(@, UserOf(o))]
           /\ mt.pc \in {"awake", "asleep"} /\ UNCHANGED mt
    BY <1>3, RemoveFromPool, ZenonT(30)
  <2>2. PICK t \in Tier : /\ t = tierOf(info[o].points)
                          /\ pool' = [pool EXCEPT ![t] = Without(@, UserOf(o))]
    BY <2>1
  <2>3. PoolKnows' /\ \A u : Waits(u)' <=> Waits(u) /\ u # UserOf(o)
    BY <2>1, <2>2, LeaveDoes
  <2>4. \A u : ~Held(u) /\ ~Held(u)'
    BY <2>1 DEF Held, Taken
  <2>5. \A p \in Obj' : p \in Obj /\ UserOf(p)' = UserOf(p)
    BY <1>0, <1>3 DEF removeFromPool, Unlock, sessionVars, Obj
  <2>6. \A p \in Obj : State(p)' = "matching" => UserOf(p) # UserOf(o)
    BY <1>0, <2>1 DEF OneObject
  <2>7. QED
    BY <1>0, <2>1, <2>3, <2>4, <2>5, <2>6 DEF MatchingKnows
<1>4. ASSUME UNCHANGED pool, ~MatcherTake, \A l \in Loop : ~addUser(l)
      PROVE  PoolKnows' /\ MatchingKnows'
  <2>1. PoolKnows' /\ \A u : Waits(u)' <=> Waits(u)
    BY <1>4, PoolStays
  <2>2. ASSUME NEW o \in Obj
        PROVE  /\ State(o)' = "matching" => Waits(UserOf(o)) \/ Held(UserOf(o))'
               /\ Held(UserOf(o))' => ~Waits(UserOf(o))
    <3>0. PICK u \in {UserOf(o)} : TRUE
      OBVIOUS
    <3>u. u = UserOf(o) /\ u = UserOf(o)'
      BY <1>0, <3>0
    <3>1. State(o)' = "matching" => State(o) = "matching"
      BY <1>4, MatchingBefore
    <3>2. CASE \A v : Held(v)' <=> Held(v)
      <4>1. /\ State(o)' = "matching" => Waits(u) \/ Held(u)'
            /\ Held(u)' => ~Waits(u)
        BY <1>0, <3>1, <3>2, <3>u DEF MatchingKnows
      <4>2. Held(u)' <=> Held(UserOf(o))'
        BY <3>u DEF Held
      <4>3. QED
        BY <3>u, <4>1, <4>2
    <3>3. CASE MatcherSetGaming
      <4>1. PICK p, q \in Obj :
               /\ Looked(p, q) /\ mt.pc = "gaming"
               /\ \/ UNCHANGED <<info, mt>>
                  \/ /\ \A r \in Obj :
                          /\ State(r)' = IF r \in {p, q} THEN "gaming" ELSE State(r)
                          /\ info'[r].points = info[r].points
                     /\ mt'.pc = "push1"
        BY <3>3, SetGamingDoes, ZenonT(30)
      <4>2. CASE UNCHANGED <<info, mt>>
        <5>1. \A v : Held(v)' <=> Held(v)
          BY <4>2 DEF Held
        <5>2. QED
          BY <3>2, <5>1
      <4>3. CASE /\ \A r \in Obj :
                      State(r)' = IF r \in {p, q} THEN "gaming" ELSE State(r)
                 /\ mt'.pc = "push1"
        <5>1. ~Held(UserOf(o))'
          BY <4>3 DEF Held, Taken
        <5>2. ASSUME State(o)' = "matching" PROVE Waits(UserOf(o))
          <6>1. o \notin {p, q} /\ State(o) = "matching"
            BY <4>3, <5>2
          <6>2. UserOf(o) # mt.u1 /\ UserOf(o) # mt.u2
            BY <1>0, <4>1, <6>1 DEF Looked, OneObject
          <6>3. QED
            BY <1>0, <6>1, <6>2 DEF MatchingKnows, Held
        <5>3. QED
          BY <5>1, <5>2
      <4>4. QED
        BY <4>1, <4>2, <4>3
    <3>4. QED
      BY <1>4, <3>2, <3>3, HeldStep
  <2>3. ASSUME NEW o \in Obj', NEW l \in Loop, GameLoginAdd(l),
               UserOf(o)' = io[l].user, State(o)' = "online",
               \A p \in Obj : UserOf(p) # io[l].user
        PROVE  State(o)' # "matching" /\ ~Held(UserOf(o))'
    <3>1. UNCHANGED mt
      BY <2>3 DEF GameLoginAdd, LoginAdd
    <3>2. ~Held(io[l].user)
      BY <2>3, NewcomerRests
    <3>3. QED
      BY <2>3, <3>1, <3>2 DEF Held
  <2>4. ASSUME NEW o \in Obj'
        PROVE  /\ State(o)' = "matching" => Waits(UserOf(o))' \/ Held(UserOf(o))'
               /\ Held(UserOf(o))' => ~Waits(UserOf(o))'
    <3>1. CASE o \in Obj /\ UserOf(o)' = UserOf(o)
      <4>1. PICK u \in {UserOf(o)} : TRUE
        OBVIOUS
      <4>2. u = UserOf(o) /\ u = UserOf(o)'
        BY <3>1, <4>1
      <4>3. /\ Waits(UserOf(o))' <=> Waits(u)'
            /\ Held(UserOf(o))' <=> Held(u)'
        BY <4>2 DEF Waits, Held
      <4>4. QED
        BY <2>1, <2>2, <3>1, <4>2, <4>3
    <3>2. ASSUME NEW l \in Loop, GameLoginAdd(l),
                 UserOf(o)' = io[l].user, State(o)' = "online",
                 \A p \in Obj : UserOf(p) # io[l].user
          PROVE  State(o)' # "matching" /\ ~Held(UserOf(o))'
      BY <2>3, <3>2
    <3>3. QED
      BY <3>1, <3>2, ObjectsThen
  <2>5. QED
    BY <2>1, <2>4 DEF MatchingKnows
<1>5. QED
  BY <1>1, <1>2, <1>3, <1>4, WhoWrites

\* What the match thread has looked up stays true as it goes on.
LEMMA LookedStays ==
    ASSUME Inv, GameNext, NEW p \in Obj, NEW q \in Obj, Looked(p, q),
           mt'.u1 = mt.u1, mt'.u2 = mt.u2, mt'.c1 = mt.c1,
           mt'.c2 = mt.c2, mt'.o1 = mt.o1, mt'.o2 = mt.o2,
           \/ mt'.pc = mt.pc
           \/ mt.pc \in {"decide", "tell", "create", "gaming", "push1"}
    PROVE  Looked(p, q)'
<1>1. /\ UserOf(p)' = UserOf(p) /\ ConnOf(p)' = ConnOf(p)
      /\ UserOf(q)' = UserOf(q) /\ ConnOf(q)' = ConnOf(q)
  BY Grows
<1>2. (Lost(p) => Lost(p)') /\ (Lost(q) => Lost(q)')
  BY StaysLost
<1>3. QED
  BY <1>1, <1>2 DEF Looked, FoundConn, FoundObj

\* While the match thread has a pair in hand, who is not in a game stays as
\* he is, and in the room he is in.
LEMMA StateStays ==
    ASSUME Inv, Undisturbed, GameNext, NEW p \in Obj, State(p) # "gaming",
           mt.pc \notin {"awake", "asleep"}, UNCHANGED mt
    PROVE  /\ State(p)' = State(p)
           /\ roomOf'[UserOf(p)] = roomOf[UserOf(p)]
<1>1. ~MatcherDecide /\ ~MatcherCreateRoom
  BY DEF MatcherDecide, MatcherCreateRoom, Inv, TypeInv, MatcherTypes, MatcherState
<1>2. ASSUME MatcherSetGaming PROVE State(p)' = State(p)
  <2>1. UNCHANGED info
    BY <1>2, SetGamingDoes
  <2>2. QED
    BY <2>1 DEF State
<1>3. \A l \in Loop : ~addUser(l) /\ ~removeFromPool(l)
  BY AddUser, RemoveFromPool
<1>4. ASSUME NEW l \in Loop, ExitDone(l) PROVE State(p)' = State(p)
  BY <1>4, ExitDoneDoes
<1>5. State(p)' = State(p)
  BY <1>1, <1>2, <1>3, <1>4, StateWrites
<1>6. ASSUME NEW l \in Loop, ExitRoom(l)
      PROVE  roomOf'[UserOf(p)] = roomOf[UserOf(p)]
  <2>1. PICK o \in Obj : /\ Playing(State(o), Roomed(o), Coming(ConnOf(o)))
                         /\ roomOf' = [roomOf EXCEPT ![UserOf(o)] = NoRoom]
    BY <1>6, ExitRoomDoes
  <2>2. o # p /\ UserOf(o) # UserOf(p)
    BY <2>1 DEF Playing, Inv, GameInv, Accounts, OneObject
  <2>3. QED
    BY <2>1, <2>2
<1>7. roomOf'[UserOf(p)] = roomOf[UserOf(p)]
  BY <1>1, <1>6, WhoWrites
<1>8. QED
  BY <1>5, <1>7

\* Rooms keep their players, and their number but for the match thread's.
LEMMA RoomsStay ==
    ASSUME Inv, GameNext
    PROVE  \/ MatcherCreateRoom
           \/ /\ Len(rooms') = Len(rooms)
              /\ \A n \in 1..Len(rooms) : Players(n)' = Players(n)
<1>1. UNCHANGED rooms => \A n \in 1..Len(rooms) : Players(n)' = Players(n)
  BY DEF Players
<1>2. ASSUME NEW l \in Loop, ExitRoom(l)
      PROVE  /\ Len(rooms') = Len(rooms)
             /\ \A n \in 1..Len(rooms) : Players(n)' = Players(n)
  BY <1>2, ExitRoomDoes
<1>3. QED
  BY <1>1, <1>2, WhoWrites

LEMMA PairStays ==
    ASSUME Inv, Undisturbed, GameNext, UNCHANGED mt,
           mt.pc \notin {"awake", "asleep", "scan"},
           NEW p \in Obj, NEW q \in Obj, Looked(p, q), Paired(p, q)
    PROVE  Looked(p, q)' /\ Paired(p, q)'
<1>1. Looked(p, q)'
  BY LookedStays
<1>2. ConnOf(p)' = ConnOf(p) /\ ConnOf(q)' = ConnOf(q)
  BY Grows
<1>3. State(p) # "gaming" => /\ State(p)' = State(p)
                             /\ roomOf'[mt.u1] = roomOf[mt.u1]
  BY StateStays DEF Looked
<1>4. State(q) # "gaming" => /\ State(q)' = State(q)
                             /\ roomOf'[mt.u2] = roomOf[mt.u2]
  BY StateStays DEF Looked
<1>5. mt.pc = "gaming" => Len(rooms') = Len(rooms)
                          /\ \A n \in 1..Len(rooms) : Players(n)' = Players(n)
  BY RoomsStay DEF MatcherCreateRoom
<1>6. ASSUME mt.pc = "gaming"
      PROVE  Len(rooms') # NoRoom /\ Players(Len(rooms))' = {mt.u1, mt.u2}
  <2>1. PICK n \in {Len(rooms)} : TRUE
    OBVIOUS
  <2>2. n \in 1..Len(rooms) /\ Len(rooms') = n /\ Players(n) = {mt.u1, mt.u2}
    BY <1>5, <1>6, <2>1, Ground DEF Paired, NoRoom, Inv
  <2>3. Players(n)' = {mt.u1, mt.u2}
    BY <1>5, <1>6, <2>2
  <2>4. QED
    BY <2>2, <2>3 DEF Players, NoRoom
<1>7. mt.pc \in Taken \cup {"tell", "create", "gaming"} =>
         State(p) # "gaming" /\ State(q) # "gaming"
  BY DEF Paired
<1>8. QED
  <2>1. Gone' <=> Gone
    BY DEF Gone
  <2>2. mt.pc \in Taken \/ (mt.pc \in {"create", "gaming"} /\ ~Gone) =>
          State(p)' = "matching" /\ State(q)' = "matching"
    BY <1>3, <1>4 DEF Paired
  <2>3. mt.pc \in {"tell", "create", "gaming"} /\ Gone =>
          /\ State(p)' # "gaming" /\ State(q)' # "gaming"
          /\ mt.c1 # NoConn /\ mt.o1 # NoObj => State(p)' = "online"
          /\ mt.c1 = NoConn /\ mt.o2 # NoObj => State(q)' = "online"
    BY <1>3, <1>4 DEF Paired
  <2>4. mt.pc = "gaming" =>
          /\ Len(rooms') # NoRoom
          /\ roomOf'[mt.u1] = Len(rooms') /\ roomOf'[mt.u2] = Len(rooms')
          /\ Players(Len(rooms))' = {mt.u1, mt.u2}
    BY <1>3, <1>4, <1>5, <1>6, <1>7 DEF Paired
  <2>5. QED
    BY <1>1, <1>2, <2>1, <2>2, <2>3, <2>4 DEF Paired

LEMMA MatcherKnowsStep ==
    ASSUME Inv, Undisturbed, GameNext
    PROVE  MatcherKnows'
<1>a. ASSUME NEW p \in Obj, NEW q \in Obj, Looked(p, q)', Paired(p, q)',
             mt'.u1 # mt'.u2
      PROVE  MatcherKnows'
  BY <1>a, Grows DEF MatcherKnows
<1>1. CASE mt'.pc \in {"awake", "asleep", "scan"}
  BY <1>1 DEF MatcherKnows
<1>2. CASE UNCHANGED mt /\ mt.pc \notin {"awake", "asleep", "scan"}
  <2>1. PICK p, q \in Obj : Looked(p, q) /\ Paired(p, q)
    BY <1>2, InHandPair
  <2>2. Looked(p, q)' /\ Paired(p, q)'
    BY <1>2, <2>1, PairStays
  <2>3. mt'.u1 # mt'.u2
    BY <1>2, InHandPair
  <2>4. QED
    BY <1>a, <2>2, <2>3
<1>3. CASE MatcherTake
  <2>1. PICK p, q \in Obj : /\ UserOf(p) = mt'.u1 /\ State(p) = "matching"
                            /\ UserOf(q) = mt'.u2 /\ State(q) = "matching"
    BY <1>3, TakeDoes
  <2>2. UNCHANGED info /\ mt'.u1 # mt'.u2 /\ mt'.pc = "conn1"
    BY <1>3, TakeDoes
  <2>3. UserOf(p)' = UserOf(p) /\ UserOf(q)' = UserOf(q)
    BY Grows
  <2>4. Looked(p, q)'
    BY <2>1, <2>2, <2>3 DEF Looked
  <2>5. State(p)' = "matching" /\ State(q)' = "matching"
    BY <2>1, <2>2 DEF State
  <2>6. Paired(p, q)'
    BY <2>2, <2>5 DEF Paired, Taken
  <2>7. QED
    BY <1>a, <2>2, <2>4, <2>6
<1>4. CASE MatcherLookup
  <2>1. /\ mt'.u1 = mt.u1 /\ mt'.u2 = mt.u2
        /\ \/ /\ mt.pc = "conn1" /\ mt'.pc = "conn2"
              /\ mt'.c1 = getConnByUserId(mt.u1)
           \/ /\ mt.pc = "conn2" /\ mt'.pc = "user1" /\ mt'.c1 = mt.c1
              /\ mt'.c2 = getConnByUserId(mt.u2)
           \/ /\ mt.pc = "user1" /\ mt'.pc = "user2"
              /\ mt'.c1 = mt.c1 /\ mt'.c2 = mt.c2
              /\ mt'.o1 = getUserByconn(mt.c1)
           \/ /\ mt.pc = "user2" /\ mt'.pc = "decide"
              /\ mt'.c1 = mt.c1 /\ mt'.c2 = mt.c2 /\ mt'.o1 = mt.o1
              /\ mt'.o2 = getUserByconn(mt.c2)
    BY <1>4, MatcherLooks
  <2>2. PICK p, q \in Obj : Looked(p, q) /\ Paired(p, q)
    BY <2>1, InHandPair
  <2>3. mt'.u1 # mt'.u2
    BY <2>1, InHandPair
  <2>4. /\ UserOf(p)' = UserOf(p) /\ ConnOf(p)' = ConnOf(p)
        /\ UserOf(q)' = UserOf(q) /\ ConnOf(q)' = ConnOf(q)
        /\ (Lost(p) => Lost(p)') /\ (Lost(q) => Lost(q)')
    BY Grows, StaysLost
  <2>5. \A o \in Obj : FoundConn(o, getConnByUserId(UserOf(o)))
    BY Session, Objects, Ground DEF FoundConn, getConnByUserId, Inv
  <2>6. ASSUME NEW o \in Obj, NEW c, FoundConn(o, c)
        PROVE  FoundObj(o, c, getUserByconn(c))
    <3>1. /\ UserOf(o) # NoUser /\ ConnOf(o) # NoConn
          /\ Lost(o) => connUser[ConnOf(o)] = NoUser
          /\ ~Lost(o) => userObj[UserOf(o)] = o /\ connUser[ConnOf(o)] = UserOf(o)
      BY Session, Objects, Ground DEF Inv
    <3>2. QED
      BY <2>6, <3>1 DEF FoundConn, FoundObj, getUserByconn
  <2>7. UserOf(p) = mt.u1 /\ UserOf(q) = mt.u2
    BY <2>2 DEF Looked
  <2>8. mt.pc # "conn1" => FoundConn(p, mt.c1)
    BY <2>2 DEF Looked
  <2>9. mt.pc \notin {"conn1", "conn2"} => FoundConn(q, mt.c2)
    BY <2>2 DEF Looked
  <2>10. mt.pc = "user2" => FoundObj(p, mt.c1, mt.o1)
    BY <2>2 DEF Looked
  <2>11. mt'.pc # "conn1" => FoundConn(p, mt'.c1)
    BY <2>1, <2>5, <2>7, <2>8
  <2>12. mt'.pc \notin {"conn1", "conn2"} => FoundConn(q, mt'.c2)
    BY <2>1, <2>5, <2>7, <2>9
  <2>13. mt'.pc \notin {"conn1", "conn2", "user1"} => FoundObj(p, mt'.c1, mt'.o1)
    BY <2>1, <2>6, <2>8, <2>10
  <2>14. mt'.pc \notin {"conn1", "conn2", "user1", "user2"} =>
            FoundObj(q, mt'.c2, mt'.o2)
    BY <2>1, <2>6, <2>9
  <2>15. Looked(p, q)'
    BY <2>1, <2>4, <2>7, <2>11, <2>12, <2>13, <2>14 DEF Looked, FoundConn, FoundObj
  <2>16. mt.pc \in Taken /\ mt'.pc \in Taken /\ mt'.pc \notin {"push1", "push2"}
         /\ mt'.pc \notin {"tell", "create", "gaming"}
    BY <2>1 DEF Taken
  <2>17. State(p)' = "matching" /\ State(q)' = "matching"
    BY <1>4, <2>2, <2>16 DEF Paired, State, MatcherLookup
  <2>18. Paired(p, q)'
    BY <2>16, <2>17 DEF Paired
  <2>19. QED
    BY <1>a, <2>3, <2>15, <2>18
<1>5. CASE MatcherDecide
  <2>1. PICK p, q \in Obj :
           /\ p # q /\ Looked(p, q) /\ ConnOf(p) # ConnOf(q)
           /\ State(p) = "matching" /\ State(q) = "matching"
           /\ mt.pc = "decide"
           /\ mt'.u1 = mt.u1 /\ mt'.u2 = mt.u2 /\ mt'.c1 = mt.c1
           /\ mt'.c2 = mt.c2 /\ mt'.o1 = mt.o1 /\ mt'.o2 = mt.o2
           /\ \/ /\ ~Gone /\ mt'.pc = "create" /\ crashed' = FALSE
                 /\ UNCHANGED info
              \/ /\ Gone /\ mt'.pc = "tell" /\ crashed' = TRUE
                 /\ UNCHANGED info /\ (Lost(p) \/ Lost(q))
                 /\ (mt.c1 # NoConn => mt.o1 = NoObj)
                 /\ (mt.c1 = NoConn => mt.o2 = NoObj)
              \/ /\ Gone /\ mt'.pc = "tell" /\ crashed' = FALSE
                 /\ \E o \in {p, q} :
                       /\ o = IF mt.c1 = NoConn THEN q ELSE p
                       /\ ConnOf(o) = IF mt.c1 = NoConn THEN mt.c2 ELSE mt.c1
                       /\ State(o)' = "online"
                       /\ \A r \in Obj :
                             /\ r # o => State(r)' = State(r)
                             /\ info'[r].points = info[r].points
    BY <1>5, DecideDoes, ZenonT(30)
  <2>2. Looked(p, q)'
    BY <2>1, LookedStays
  <2>3. mt'.u1 # mt'.u2
    BY <2>1, InHandPair
  <2>4. Gone' <=> Gone
    BY <2>1 DEF Gone
  <2>5. CASE ~Gone /\ mt'.pc = "create" /\ UNCHANGED info
    <3>1. State(p)' = "matching" /\ State(q)' = "matching"
      BY <2>1, <2>5 DEF State
    <3>2. QED
      BY <1>a, <2>2, <2>3, <2>4, <2>5, <3>1 DEF Paired, Taken
  <2>6. CASE /\ Gone /\ mt'.pc = "tell" /\ UNCHANGED info
             /\ (mt.c1 # NoConn => mt.o1 = NoObj)
             /\ (mt.c1 = NoConn => mt.o2 = NoObj)
    <3>1. State(p)' = "matching" /\ State(q)' = "matching"
      BY <2>1, <2>6 DEF State
    <3>2. Paired(p, q)'
      BY <2>1, <2>4, <2>6, <3>1 DEF Paired, Taken
    <3>3. QED
      BY <1>a, <2>2, <2>3, <3>2
  <2>7. ASSUME Gone, mt'.pc = "tell", NEW o \in {p, q},
               o = IF mt.c1 = NoConn THEN q ELSE p, State(o)' = "online",
               \A r \in Obj : r # o => State(r)' = State(r)
        PROVE  MatcherKnows'
    <3>1. /\ State(p)' # "gaming" /\ State(q)' # "gaming"
          /\ mt.c1 # NoConn => State(p)' = "online"
          /\ mt.c1 = NoConn => State(q)' = "online"
      BY <2>1, <2>7
    <3>2. Paired(p, q)'
      BY <2>1, <2>4, <2>7, <3>1 DEF Paired, Taken
    <3>3. QED
      BY <1>a, <2>2, <2>3, <3>2
  <2>8. QED
    BY <2>1, <2>5, <2>6, <2>7
<1>6. CASE MatcherTell
  <2>1. mt.pc = "tell" /\ mt' = [mt EXCEPT !.pc = "create"] /\ UNCHANGED info
    BY <1>6 DEF MatcherTell
  <2>2. /\ mt'.pc = "create"
        /\ mt'.u1 = mt.u1 /\ mt'.u2 = mt.u2 /\ mt'.c1 = mt.c1
        /\ mt'.c2 = mt.c2 /\ mt'.o1 = mt.o1 /\ mt'.o2 = mt.o2
    BY <2>1, MatcherMoves
  <2>3. PICK p, q \in Obj : Looked(p, q) /\ Paired(p, q)
    BY <2>1, InHandPair
  <2>4. Looked(p, q)' /\ mt'.u1 # mt'.u2
    BY <2>1, <2>2, <2>3, LookedStays, InHandPair
  <2>5. State(p)' = State(p) /\ State(q)' = State(q) /\ (Gone' <=> Gone)
    BY <2>1, <2>2 DEF State, Gone
  <2>6. Paired(p, q)'
    BY <2>1, <2>2, <2>3, <2>5 DEF Paired, Taken
  <2>7. QED
    BY <1>a, <2>4, <2>6
<1>7. CASE MatcherCreateRoom
  <2>1. /\ mt.pc = "create" /\ mt' = [mt EXCEPT !.pc = "gaming"] /\ UNCHANGED info
        /\ createRoom(mt.u1, mt.u2)
    BY <1>7 DEF MatcherCreateRoom
  <2>2. /\ mt'.pc = "gaming"
        /\ mt'.u1 = mt.u1 /\ mt'.u2 = mt.u2 /\ mt'.c1 = mt.c1
        /\ mt'.c2 = mt.c2 /\ mt'.o1 = mt.o1 /\ mt'.o2 = mt.o2
    BY <2>1, MatcherMoves
  <2>3. PICK p, q \in Obj : Looked(p, q) /\ Paired(p, q)
    BY <2>1, InHandPair
  <2>4. Looked(p, q)' /\ mt'.u1 # mt'.u2
    BY <2>1, <2>2, <2>3, LookedStays, InHandPair
  <2>5. State(p)' = State(p) /\ State(q)' = State(q) /\ (Gone' <=> Gone)
    BY <2>1, <2>2 DEF State, Gone
  <2>6. /\ Len(rooms') # NoRoom
        /\ roomOf'[mt.u1] = Len(rooms') /\ roomOf'[mt.u2] = Len(rooms')
        /\ Players(Len(rooms))' = {mt.u1, mt.u2}
    <3>1. /\ rooms \in Seq(RoomEntry) /\ roomOf \in [User -> 0..Len(rooms)]
          /\ mt.u1 \in User /\ mt.u2 \in User
      BY <2>1 DEF Inv, TypeInv, RoomsTypeOK, RoomEntry, MatcherTypes
    <3>2. PICK k \in InitialCounts :
             rooms' = Append(rooms, [white |-> mt.u1, black |-> mt.u2, count |-> k])
      BY <2>1 DEF createRoom
    <3>3. /\ Len(rooms') = Len(rooms) + 1 /\ Len(rooms) \in Nat
          /\ rooms'[Len(rooms) + 1] = [white |-> mt.u1, black |-> mt.u2, count |-> k]
      BY <3>1, <3>2
    <3>4. roomOf' = [roomOf EXCEPT ![mt.u1] = Len(rooms) + 1,
                                   ![mt.u2] = Len(rooms) + 1]
      BY <2>1 DEF createRoom, FileBoth
    <3>5. roomOf'[mt.u1] = Len(rooms) + 1 /\ roomOf'[mt.u2] = Len(rooms) + 1
      BY <3>1, <3>4
    <3>6. QED
      BY <3>3, <3>5 DEF Players, NoRoom
  <2>7. Paired(p, q)'
    BY <2>1, <2>2, <2>3, <2>5, <2>6 DEF Paired, Taken
  <2>8. QED
    BY <1>a, <2>4, <2>7
<1>8. CASE MatcherSetGaming
  <2>1. PICK p, q \in Obj :
           /\ p # q /\ Looked(p, q) /\ ConnOf(p) # ConnOf(q)
           /\ mt.pc = "gaming"
           /\ roomOf[UserOf(p)] = Len(rooms) /\ roomOf[UserOf(q)] = Len(rooms)
           /\ Roomed(p) /\ Roomed(q)
           /\ \/ /\ crashed' = TRUE /\ UNCHANGED <<info, mt>>
                 /\ Lost(p) \/ Lost(q)
              \/ /\ crashed' = crashed /\ ~Gone
                 /\ State(p) = "matching" /\ State(q) = "matching"
                 /\ \A r \in Obj :
                       /\ State(r)' = IF r \in {p, q} THEN "gaming" ELSE State(r)
                       /\ info'[r].points = info[r].points
                 /\ mt.c1 = ConnOf(p) /\ mt.c2 = ConnOf(q)
                 /\ mt'.pc = "push1"
                 /\ mt'.u1 = mt.u1 /\ mt'.u2 = mt.u2 /\ mt'.c1 = mt.c1
                 /\ mt'.c2 = mt.c2 /\ mt'.o1 = mt.o1 /\ mt'.o2 = mt.o2
    BY <1>8, SetGamingDoes, ZenonT(30)
  <2>2. CASE UNCHANGED mt
    BY <1>2, <2>1, <2>2
  <2>3. CASE /\ mt.c1 = ConnOf(p) /\ mt.c2 = ConnOf(q) /\ mt'.pc = "push1"
             /\ mt'.u1 = mt.u1 /\ mt'.u2 = mt.u2 /\ mt'.c1 = mt.c1
             /\ mt'.c2 = mt.c2 /\ mt'.o1 = mt.o1 /\ mt'.o2 = mt.o2
    <3>1. Looked(p, q)' /\ mt'.u1 # mt'.u2
      BY <2>1, <2>3, LookedStays, InHandPair
    <3>2. ConnOf(p)' = ConnOf(p) /\ ConnOf(q)' = ConnOf(q)
      BY Grows
    <3>3. Paired(p, q)'
      BY <2>3, <3>2 DEF Paired, Taken
    <3>4. QED
      BY <1>a, <3>1, <3>3
  <2>4. QED
    BY <2>1, <2>2, <2>3
<1>9. CASE MatcherPush /\ mt'.pc \notin {"awake", "asleep", "scan"}
  <2>1. mt.pc = "push1" /\ mt' = [mt EXCEPT !.pc = "push2"]
    BY <1>9 DEF MatcherPush, Inv, TypeInv, MatcherTypes, MatcherState, MatcherStart
  <2>2. /\ mt'.pc = "push2"
        /\ mt'.u1 = mt.u1 /\ mt'.u2 = mt.u2 /\ mt'.c1 = mt.c1
        /\ mt'.c2 = mt.c2 /\ mt'.o1 = mt.o1 /\ mt'.o2 = mt.o2
    BY <2>1, MatcherMoves
  <2>3. PICK p, q \in Obj : Looked(p, q) /\ Paired(p, q)
    BY <2>1, InHandPair
  <2>4. Looked(p, q)' /\ mt'.u1 # mt'.u2
    BY <2>1, <2>2, <2>3, LookedStays, InHandPair
  <2>5. ConnOf(p)' = ConnOf(p) /\ ConnOf(q)' = ConnOf(q)
    BY Grows
  <2>6. Paired(p, q)'
    BY <2>1, <2>2, <2>3, <2>5 DEF Paired, Taken
  <2>7. QED
    BY <1>a, <2>4, <2>6
<1>10. MatcherTest => mt'.pc \in {"asleep", "scan"}
  BY DEF MatcherTest, MatcherStart
<1>11. \A l \in Loop : addUser(l) => mt'.pc \in {"awake", "asleep"}
  BY AddUser
<1>12. UNCHANGED mt /\ mt.pc \in {"awake", "asleep", "scan"} =>
          mt'.pc \in {"awake", "asleep", "scan"}
  OBVIOUS
<1>13. QED
  BY <1>1, <1>2, <1>3, <1>4, <1>5, <1>6, <1>7, <1>8, <1>9, <1>10, <1>11, <1>12,
     WhoWrites

LEMMA QueueStep ==
    ASSUME Inv, Undisturbed, GameNext
    PROVE  Queue'
BY PoolStep, MatcherKnowsStep DEF Queue

-----------------------------------------------------------------------------
(* Rooms.                                                                  *)

RoomTrue(o) ==
    /\ State(o) = "gaming" => Roomed(o) \/ leaver.user = UserOf(o)
    /\ Roomed(o) => State(o) = "gaming" \/ (mt.pc = "gaming" /\ Held(UserOf(o)))

\* Only the start of the game ends the time between room and game.
LEMMA GamingStays ==
    ASSUME Inv, GameNext, mt.pc = "gaming", ~MatcherSetGaming
    PROVE  mt'.pc = "gaming" /\ \A u : Held(u)' <=> Held(u)
<1>1. ~MatcherTest /\ ~MatcherTake /\ ~MatcherLookup /\ ~MatcherDecide
      /\ ~MatcherTell /\ ~MatcherCreateRoom /\ ~MatcherPush
  BY DEF MatcherTest, MatcherTake, MatcherLookup, Lookup, MatcherDecide,
         MatcherTell, MatcherCreateRoom, MatcherPush
<1>2. \A l \in Loop : ~addUser(l)
  BY AddUser
<1>3. UNCHANGED mt
  BY <1>1, <1>2, WhoWrites
<1>4. QED
  BY <1>3 DEF Held

LEMMA RoomTrueStep ==
    ASSUME Inv, Undisturbed, GameNext, NEW o \in Obj
    PROVE  RoomTrue(o)'
<1>0. RoomTrue(o) /\ OneObject /\ UserOf(o) \in User
  BY Objects DEF Inv, GameInv, RoomKnows, RoomTrue, Accounts
<1>u. PICK u \in {UserOf(o)} : TRUE
  OBVIOUS
<1>v. u = UserOf(o) /\ u = UserOf(o)'
  BY <1>u, Grows
<1>w. /\ Roomed(o)' <=> roomOf'[u] # NoRoom
      /\ Roomed(o) <=> roomOf[u] # NoRoom
      /\ Held(UserOf(o))' <=> Held(u)'
      /\ Held(UserOf(o)) <=> Held(u)
  BY <1>v DEF Roomed, Held
<1>g. mt.pc = "gaming" /\ Held(u) /\ ~MatcherSetGaming =>
         mt'.pc = "gaming" /\ Held(u)'
  BY GamingStays
<1>1. CASE MatcherSetGaming
  <2>1. PICK p, q \in Obj :
           /\ p # q /\ Looked(p, q) /\ ConnOf(p) # ConnOf(q)
           /\ mt.pc = "gaming"
           /\ roomOf[UserOf(p)] = Len(rooms) /\ roomOf[UserOf(q)] = Len(rooms)
           /\ Roomed(p) /\ Roomed(q)
           /\ \/ /\ crashed' = TRUE /\ UNCHANGED <<info, mt>>
                 /\ Lost(p) \/ Lost(q)
              \/ /\ crashed' = crashed /\ ~Gone
                 /\ State(p) = "matching" /\ State(q) = "matching"
                 /\ \A r \in Obj :
                       /\ State(r)' = IF r \in {p, q} THEN "gaming" ELSE State(r)
                       /\ info'[r].points = info[r].points
                 /\ mt.c1 = ConnOf(p) /\ mt.c2 = ConnOf(q)
                 /\ mt'.pc = "push1"
                 /\ mt'.u1 = mt.u1 /\ mt'.u2 = mt.u2 /\ mt'.c1 = mt.c1
                 /\ mt'.c2 = mt.c2 /\ mt'.o1 = mt.o1 /\ mt'.o2 = mt.o2
    BY <1>1, SetGamingDoes, ZenonT(30)
  <2>2. UNCHANGED <<roomOf, leaver>>
    BY <1>1 DEF MatcherSetGaming, roomVars
  <2>3. Roomed(o)' <=> Roomed(o)
    BY <1>w, <2>2
  <2>4. CASE UNCHANGED <<info, mt>>
    <3>1. State(o)' = State(o) /\ (Held(UserOf(o))' <=> Held(UserOf(o)))
      BY <1>w, <2>4 DEF State, Held
    <3>2. QED
      BY <1>0, <1>v, <2>2, <2>3, <2>4, <3>1 DEF RoomTrue
  <2>5. CASE \A r \in Obj :
                State(r)' = IF r \in {p, q} THEN "gaming" ELSE State(r)
    <3>1. UserOf(p) = mt.u1 /\ UserOf(q) = mt.u2
      BY <2>1 DEF Looked
    <3>2. Held(UserOf(o)) => o \in {p, q}
      BY <1>0, <3>1 DEF Held, OneObject
    <3>3. QED
      BY <1>0, <1>v, <2>1, <2>2, <2>3, <2>5, <3>2 DEF RoomTrue
  <2>6. QED
    BY <2>1, <2>4, <2>5
<1>2. CASE UNCHANGED <<roomOf, leaver>> /\ ~MatcherSetGaming
  <2>1. Roomed(o)' <=> Roomed(o)
    BY <1>w, <1>2
  <2>2. CASE State(o)' = State(o)
    BY <1>0, <1>2, <1>g, <1>v, <1>w, <2>1, <2>2 DEF RoomTrue
  <2>3. ASSUME State(o)' # State(o), mt.pc # "gaming",
               State(o) # "gaming", State(o)' # "gaming"
        PROVE  RoomTrue(o)'
    BY <1>0, <2>1, <2>3 DEF RoomTrue
  <2>4. ASSUME MatcherDecide, State(o)' # State(o)
        PROVE  mt.pc # "gaming" /\ State(o) # "gaming" /\ State(o)' # "gaming"
    <3>1. PICK p, q \in Obj :
             /\ p # q /\ Looked(p, q) /\ ConnOf(p) # ConnOf(q)
             /\ State(p) = "matching" /\ State(q) = "matching"
             /\ mt.pc = "decide"
             /\ mt'.u1 = mt.u1 /\ mt'.u2 = mt.u2 /\ mt'.c1 = mt.c1
             /\ mt'.c2 = mt.c2 /\ mt'.o1 = mt.o1 /\ mt'.o2 = mt.o2
             /\ \/ /\ ~Gone /\ mt'.pc = "create" /\ crashed' = FALSE
                   /\ UNCHANGED info
                \/ /\ Gone /\ mt'.pc = "tell" /\ crashed' = TRUE
                   /\ UNCHANGED info /\ (Lost(p) \/ Lost(q))
                   /\ (mt.c1 # NoConn => mt.o1 = NoObj)
                   /\ (mt.c1 = NoConn => mt.o2 = NoObj)
                \/ /\ Gone /\ mt'.pc = "tell" /\ crashed' = FALSE
                   /\ \E r \in {p, q} :
                         /\ r = IF mt.c1 = NoConn THEN q ELSE p
                         /\ ConnOf(r) = IF mt.c1 = NoConn THEN mt.c2 ELSE mt.c1
                         /\ State(r)' = "online"
                         /\ \A x \in Obj :
                               /\ x # r => State(x)' = State(x)
                               /\ info'[x].points = info[x].points
      BY <2>4, DecideDoes, ZenonT(30)
    <3>2. UNCHANGED info => State(o)' = State(o)
      BY DEF State
    <3>3. PICK r \in {p, q} : State(r)' = "online"
                              /\ \A x \in Obj : x # r => State(x)' = State(x)
      BY <2>4, <3>1, <3>2
    <3>4. QED
      BY <2>4, <3>1, <3>3
  <2>5. ASSUME NEW l \in Loop, addUser(l), State(o)' # State(o)
        PROVE  mt.pc # "gaming" /\ State(o) # "gaming" /\ State(o)' # "gaming"
    <3>1. PICK p \in Obj : /\ State(p) = "online" /\ State(p)' = "matching"
                           /\ \A x \in Obj : x # p => State(x)' = State(x)
                           /\ mt.pc \in {"awake", "asleep"}
      BY ZenonT(30), <2>5, AddUser
    <3>2. QED
      BY <2>5, <3>1
  <2>6. ASSUME NEW l \in Loop, removeFromPool(l), State(o)' # State(o)
        PROVE  mt.pc # "gaming" /\ State(o) # "gaming" /\ State(o)' # "gaming"
    <3>1. PICK p \in Obj : /\ \/ State(p) = "matching" /\ State(p)' = "online"
                              \/ State(p)' = State(p)
                           /\ \A x \in Obj : x # p => State(x)' = State(x)
                           /\ mt.pc \in {"awake", "asleep"}
      BY <2>6, RemoveFromPool
    <3>2. QED
      BY <2>6, <3>1
  <2>7. \A l \in Loop : ExitDone(l) => leaver' = NoLeaver /\ leaver # NoLeaver
    <3>1. ASSUME NEW l \in Loop, ExitDone(l)
          PROVE  leaver' = NoLeaver /\ leaver # NoLeaver
      BY <3>1 DEF ExitDone, removeUserDone, NoLeaver
    <3>2. QED
      BY <3>1
  <2>8. QED
    BY <1>2, <2>2, <2>3, <2>4, <2>5, <2>6, <2>7, StateWrites
<1>3. CASE MatcherCreateRoom
  <2>1. /\ mt.pc = "create" /\ mt' = [mt EXCEPT !.pc = "gaming"]
        /\ UNCHANGED <<info, leaver>>
        /\ roomOf' = [roomOf EXCEPT ![mt.u1] = Len(rooms) + 1,
                                    ![mt.u2] = Len(rooms) + 1]
    BY <1>3 DEF MatcherCreateRoom, createRoom, FileBoth
  <2>2. mt'.pc = "gaming" /\ mt'.u1 = mt.u1 /\ mt'.u2 = mt.u2
    BY <2>1, MatcherMoves
  <2>3. roomOf \in [User -> 0..Len(rooms)] /\ Len(rooms) \in Nat
    BY Ground DEF Inv, TypeInv, RoomsTypeOK
  <2>4. roomOf'[u] = IF u \in {mt.u1, mt.u2} THEN Len(rooms) + 1 ELSE roomOf[u]
    BY <1>0, <1>v, <2>1, <2>3
  <2>5. roomOf'[u] # NoRoom <=> roomOf[u] # NoRoom \/ u \in {mt.u1, mt.u2}
    BY <2>3, <2>4 DEF NoRoom
  <2>6. u \in {mt.u1, mt.u2} => mt'.pc = "gaming" /\ Held(u)'
    BY <2>2 DEF Held
  <2>7. State(o)' = State(o)
    BY <2>1 DEF State
  <2>8. QED
    BY <1>0, <1>v, <1>w, <2>1, <2>5, <2>6, <2>7 DEF RoomTrue
<1>4. ASSUME NEW l \in Loop, ExitRoom(l), ~MatcherSetGaming PROVE RoomTrue(o)'
  <2>1. PICK p \in Obj :
           /\ roomOf' = [roomOf EXCEPT ![UserOf(p)] = NoRoom]
           /\ roomLock = NoThread /\ leaver'.user = UserOf(p)
    BY <1>4, ExitRoomDoes
  <2>2. leaver.user = NoUser
    BY <2>1 DEF Inv, GameInv, Handlers, RoomLock, NoLeaver
  <2>3. UNCHANGED <<info, mt>>
    BY <1>4 DEF ExitRoom, handlerVars
  <2>4. State(o)' = State(o)
    BY <2>3 DEF State
  <2>5. UserOf(o) # NoUser
    BY <1>0, Ground DEF Inv
  <2>6. roomOf'[u] = IF u = UserOf(p) THEN NoRoom ELSE roomOf[u]
    BY <1>0, <1>v, <2>1, Ground DEF Inv, TypeInv, RoomsTypeOK
  <2>7. QED
    BY <1>0, <1>4, <1>g, <1>v, <1>w, <2>1, <2>2, <2>4, <2>5, <2>6 DEF RoomTrue
<1>5. ASSUME NEW l \in Loop, ExitDone(l) PROVE RoomTrue(o)'
  <2>1. PICK p \in Obj :
           /\ State(p) = "gaming" /\ ~Roomed(p) /\ State(p)' = "online"
           /\ \A x \in Obj : x # p => State(x)' = State(x)
           /\ leaver.user = UserOf(p) /\ leaver' = NoLeaver
    BY <1>5, ExitDoneDoes
  <2>2. UNCHANGED <<roomOf, mt>>
    BY <1>5 DEF ExitDone, handlerVars, removeUserDone
  <2>3. o # p => UserOf(o) # UserOf(p)
    BY <1>0 DEF OneObject
  <2>4. (Roomed(o)' <=> Roomed(o)) /\ (Held(UserOf(o))' <=> Held(UserOf(o)))
    BY <1>w, <2>2 DEF Held
  <2>5. QED
    BY <1>0, <2>1, <2>2, <2>3, <2>4 DEF RoomTrue
<1>6. QED
  BY <1>1, <1>2, <1>3, <1>4, <1>5, WhoWrites

LEMMA RoomKnowsStep ==
    ASSUME Inv, Undisturbed, GameNext
    PROVE  RoomKnows'
<1>0. RoomKnows
  BY DEF Inv, GameInv
<1>1. ASSUME NEW u \in User, roomOf'[u] # NoRoom
      PROVE  /\ u \in Players(roomOf[u])'
             /\ \E o \in Obj' : UserOf(o)' = u
  <2>0. roomOf \in [User -> 0..Len(rooms)] /\ Len(rooms) \in Nat
    BY Ground DEF Inv, TypeInv, RoomsTypeOK
  <2>1. CASE MatcherCreateRoom /\ u \in {mt.u1, mt.u2}
    <3>1. mt.pc = "create" /\ createRoom(mt.u1, mt.u2)
      BY <2>1 DEF MatcherCreateRoom
    <3>2. PICK p, q \in Obj : Looked(p, q)
      BY <3>1, InHandPair
    <3>3. \E o \in Obj' : UserOf(o)' = u
      BY <2>1, <3>2, Grows DEF Looked
    <3>4. PICK k \in InitialCounts :
             rooms' = Append(rooms, [white |-> mt.u1, black |-> mt.u2, count |-> k])
      BY <3>1 DEF createRoom
    <3>5. rooms'[Len(rooms) + 1] = [white |-> mt.u1, black |-> mt.u2, count |-> k]
      BY <3>4 DEF Inv, TypeInv, RoomsTypeOK
    <3>6. roomOf'[u] = Len(rooms) + 1
      BY <2>0, <2>1, <3>1 DEF createRoom, FileBoth
    <3>7. u \in Players(roomOf[u])'
      BY <2>1, <3>5, <3>6 DEF Players
    <3>8. QED
      BY <3>3, <3>7
  <2>2. CASE roomOf'[u] = roomOf[u]
    <3>1. PICK n \in {roomOf[u]} : TRUE
      OBVIOUS
    <3>2. n = roomOf[u] /\ n = roomOf'[u] /\ n \in 1..Len(rooms) /\ u \in Players(n)
      BY <1>0, <1>1, <2>0, <2>2, <3>1 DEF RoomKnows, NoRoom
    <3>3. Players(n)' = Players(n)
      <4>1. CASE MatcherCreateRoom
        <5>1. PICK k \in InitialCounts :
                 rooms' = Append(rooms, [white |-> mt.u1, black |-> mt.u2, count |-> k])
          BY <4>1 DEF MatcherCreateRoom, createRoom
        <5>2. rooms'[n] = rooms[n]
          BY <3>2, <5>1 DEF Inv, TypeInv, RoomsTypeOK
        <5>3. QED
          BY <5>2 DEF Players
      <4>2. QED
        BY <3>2, <4>1, RoomsStay
    <3>4. u \in Players(roomOf[u])'
      BY <3>2, <3>3 DEF Players
    <3>5. PICK o \in Obj : UserOf(o) = u
      BY <1>0, <1>1, <2>2 DEF RoomKnows
    <3>6. QED
      BY <3>4, <3>5, Grows
  <2>3. MatcherCreateRoom /\ u \notin {mt.u1, mt.u2} => roomOf'[u] = roomOf[u]
    BY <2>0 DEF MatcherCreateRoom, createRoom, FileBoth
  <2>4. ASSUME NEW l \in Loop, ExitRoom(l) PROVE roomOf'[u] = roomOf[u]
    <3>1. PICK p \in Obj : roomOf' = [roomOf EXCEPT ![UserOf(p)] = NoRoom]
      BY <2>4, ExitRoomDoes
    <3>2. QED
      BY <1>1, <2>0, <3>1
  <2>5. QED
    BY <2>1, <2>2, <2>3, <2>4, WhoWrites
<1>2. ASSUME NEW o \in Obj' PROVE RoomTrue(o)'
  <2>1. CASE o \in Obj
    BY <2>1, RoomTrueStep
  <2>2. ASSUME NEW l \in Loop, GameLoginAdd(l), UserOf(o)' = io[l].user,
               State(o)' = "online", \A p \in Obj : UserOf(p) # io[l].user
        PROVE  RoomTrue(o)'
    <3>1. UNCHANGED roomOf /\ io[l].user \in User
      BY <2>2, NewObject DEF GameLoginAdd, LoginAdd, roomVars
    <3>2. roomOf[io[l].user] = NoRoom
      BY <1>0, <2>2, <3>1 DEF RoomKnows
    <3>3. ~Roomed(o)'
      BY <2>2, <3>1, <3>2 DEF Roomed
    <3>4. QED
      BY <2>2, <3>3 DEF RoomTrue
  <2>3. QED
    BY <2>1, <2>2, ObjectsThen
<1>3. QED
  BY <1>1, <1>2 DEF RoomKnows, RoomTrue

-----------------------------------------------------------------------------
(* News.                                                                   *)

LEMMA QueuedNews ==
    ASSUME Inv, NEW c \in Conn, NEW msg \in News, Queued(c, msg)
    PROVE  /\ client[c] # "out" /\ ~Turn(c)
           /\ \A x \in News : Queued(c, x) => x = msg
<1>1. PICK l \in Loop : l = LoopOf[c]
  BY Ground DEF Inv
<1>2. PICK i \in 1..Len(pending[l]) : /\ pending[l][i].conn = c
                                      /\ pending[l][i].msg = msg
  BY <1>1 DEF Queued
<1>3. OneNews(l, i)
  BY DEF Inv, GameInv, NewsKnows
<1>4. client[c] # "out" /\ ~Turn(c)
  BY <1>2, <1>3 DEF OneNews
<1>5. ASSUME NEW x \in News, Queued(c, x) PROVE x = msg
  <2>1. PICK j \in 1..Len(pending[l]) : /\ pending[l][j].conn = c
                                        /\ pending[l][j].msg = x
    BY <1>1, <1>5 DEF Queued
  <2>2. i = j
    BY <1>2, <1>3, <2>1 DEF OneNews
  <2>3. QED
    BY <1>2, <2>1, <2>2
<1>6. QED
  BY <1>4, <1>5

\* Whose turn it is to be told.
LEMMA TurnOf ==
    ASSUME Inv, NEW c \in Conn, Turn(c)
    PROVE  \E o \in Obj :
              /\ ConnOf(o) = c
              /\ link[c] = "up" => client[c] # "out"
              /\ TellTurn(c) /\ link[c] = "up" => State(o) = "online" /\ Gone
<1>1. mt.pc \in {"tell", "push1", "push2"}
  BY DEF Turn, TellTurn, PushTurn
<1>2. PICK p, q \in Obj : /\ Looked(p, q) /\ Paired(p, q) /\ p # q
                          /\ ConnOf(p) # ConnOf(q)
  BY <1>1, InHandPair
<1>3. ConnOf(p) # NoConn /\ ConnOf(q) # NoConn /\ c # NoConn /\ NoObj \notin Obj
  BY Objects, Ground DEF Inv
<1>4. FoundConn(p, mt.c1) /\ FoundConn(q, mt.c2)
      /\ FoundObj(p, mt.c1, mt.o1) /\ FoundObj(q, mt.c2, mt.o2)
  BY <1>1, <1>2 DEF Looked
<1>5. PICK o \in {p, q} : /\ ConnOf(o) = c
                          /\ TellTurn(c) => o = IF mt.c1 = NoConn THEN q ELSE p
  BY <1>1, <1>2, <1>3, <1>4 DEF Turn, TellTurn, PushTurn, FoundConn
<1>6. link[c] = "up" => client[c] # "out"
  <2>1. Coming(c)
    BY DEF Coming
  <2>2. link[c] = "up" => Stands(o)
    BY <1>5 DEF Inv, GameInv, Clients
  <2>3. QED
    BY <1>5, <2>1, <2>2 DEF Stands, Standing, Free
<1>7. ASSUME TellTurn(c), link[c] = "up" PROVE State(o) = "online" /\ Gone
  <2>1. ~Lost(o)
    BY <1>5, <1>7, Session
  <2>2. mt.pc = "tell" /\ Gone
    BY <1>2, <1>7 DEF TellTurn, Paired
  <2>3. /\ mt.c1 # NoConn => o = p /\ mt.o1 # NoObj
        /\ mt.c1 = NoConn => o = q /\ mt.o2 # NoObj
    BY <1>3, <1>4, <1>5, <1>7, <2>1 DEF FoundObj
  <2>4. QED
    BY <1>2, <2>2, <2>3 DEF Paired
<1>8. QED
  BY <1>5, <1>6, <1>7

\* Whose turn comes ...
LEMMA TurnStep ==
    ASSUME Inv, Undisturbed, GameNext, NEW c \in Conn
    PROVE  \/ UNCHANGED mt
           \/ ~Turn(c)'
           \/ /\ mt.pc = "push1" /\ PushTurn(c) /\ PushTurn(c)' /\ ~TellTurn(c)'
              /\ c # mt.c1
           \/ \E o \in Obj :
                 /\ ConnOf(o) = c /\ State(o) = "matching"
                 /\ \/ MatcherDecide /\ TellTurn(c)' /\ ~PushTurn(c)'
                    \/ /\ MatcherSetGaming /\ PushTurn(c)' /\ ~TellTurn(c)'
                       /\ State(o)' = "gaming" /\ Roomed(o)'
<1>1. CASE mt'.pc \notin {"tell", "push1", "push2"}
  BY <1>1 DEF Turn, TellTurn, PushTurn
<1>2. CASE MatcherDecide
  <2>1. PICK p, q \in Obj :
           /\ p # q /\ Looked(p, q) /\ ConnOf(p) # ConnOf(q)
           /\ State(p) = "matching" /\ State(q) = "matching"
           /\ mt.pc = "decide"
           /\ mt'.u1 = mt.u1 /\ mt'.u2 = mt.u2 /\ mt'.c1 = mt.c1
           /\ mt'.c2 = mt.c2 /\ mt'.o1 = mt.o1 /\ mt'.o2 = mt.o2
           /\ \/ /\ ~Gone /\ mt'.pc = "create" /\ crashed' = FALSE
                 /\ UNCHANGED info
              \/ /\ Gone /\ mt'.pc = "tell" /\ crashed' = TRUE
                 /\ UNCHANGED info /\ (Lost(p) \/ Lost(q))
                 /\ (mt.c1 # NoConn => mt.o1 = NoObj)
                 /\ (mt.c1 = NoConn => mt.o2 = NoObj)
              \/ /\ Gone /\ mt'.pc = "tell" /\ crashed' = FALSE
                 /\ \E o \in {p, q} :
                       /\ o = IF mt.c1 = NoConn THEN q ELSE p
                       /\ ConnOf(o) = IF mt.c1 = NoConn THEN mt.c2 ELSE mt.c1
                       /\ State(o)' = "online"
                       /\ \A r \in Obj :
                             /\ r # o => State(r)' = State(r)
                             /\ info'[r].points = info[r].points
    BY <1>2, DecideDoes, ZenonT(30)
  <2>2. FoundConn(p, mt.c1) /\ FoundConn(q, mt.c2) /\ c # NoConn
    BY <2>1, Ground DEF Looked, Inv
  <2>3. mt'.pc = "tell" => ~PushTurn(c)'
    BY DEF PushTurn
  <2>4. TellTurn(c)' => c \in {ConnOf(p), ConnOf(q)}
    BY <2>1, <2>2 DEF TellTurn, FoundConn
  <2>5. QED
    BY <1>1, <1>2, <2>1, <2>3, <2>4 DEF Turn
<1>3. CASE MatcherSetGaming
  <2>1. PICK p, q \in Obj :
           /\ p # q /\ Looked(p, q) /\ ConnOf(p) # ConnOf(q)
           /\ mt.pc = "gaming"
           /\ roomOf[UserOf(p)] = Len(rooms) /\ roomOf[UserOf(q)] = Len(rooms)
           /\ Roomed(p) /\ Roomed(q)
           /\ \/ /\ crashed' = TRUE /\ UNCHANGED <<info, mt>>
                 /\ Lost(p) \/ Lost(q)
              \/ /\ crashed' = crashed /\ ~Gone
                 /\ State(p) = "matching" /\ State(q) = "matching"
                 /\ \A r \in Obj :
                       /\ State(r)' = IF r \in {p, q} THEN "gaming" ELSE State(r)
                       /\ info'[r].points = info[r].points
                 /\ mt.c1 = ConnOf(p) /\ mt.c2 = ConnOf(q)
                 /\ mt'.pc = "push1"
                 /\ mt'.u1 = mt.u1 /\ mt'.u2 = mt.u2 /\ mt'.c1 = mt.c1
                 /\ mt'.c2 = mt.c2 /\ mt'.o1 = mt.o1 /\ mt'.o2 = mt.o2
    BY <1>3, SetGamingDoes, ZenonT(30)
  <2>2. UNCHANGED roomOf /\ \A o \in Obj : UserOf(o)' = UserOf(o)
    BY <1>3, Grows DEF MatcherSetGaming, roomVars
  <2>3. Roomed(p)' /\ Roomed(q)'
    BY <2>1, <2>2 DEF Roomed
  <2>4. CASE ~UNCHANGED mt /\ Turn(c)'
    <3>1. mt'.pc = "push1" /\ ~TellTurn(c)' /\ PushTurn(c)' /\ c \in {mt.c1, mt.c2}
      BY <2>1, <2>4 DEF Turn, TellTurn, PushTurn
    <3>2. PICK o \in {p, q} : ConnOf(o) = c /\ State(o) = "matching"
                              /\ State(o)' = "gaming" /\ Roomed(o)'
      BY <2>1, <2>3, <2>4, <3>1
    <3>3. QED
      BY <1>3, <3>1, <3>2
  <2>5. QED
    BY <2>4
<1>4. CASE MatcherPush
  <2>1. CASE mt.pc = "push1" /\ mt' = [mt EXCEPT !.pc = "push2"]
    <3>1. mt'.pc = "push2" /\ mt'.c1 = mt.c1 /\ mt'.c2 = mt.c2
      BY <2>1, MatcherMoves
    <3>2. mt.c1 # mt.c2
      BY <2>1, InHandPair DEF Paired
    <3>3. QED
      BY <2>1, <3>1, <3>2 DEF Turn, TellTurn, PushTurn
  <2>2. CASE mt' = [MatcherStart EXCEPT !.pc = "scan", !.tier = mt.tier + 1]
    BY <1>1, <2>2 DEF MatcherStart
  <2>3. QED
    BY <1>4, <2>1, <2>2 DEF MatcherPush
<1>5. MatcherTest => mt'.pc \in {"asleep", "scan"}
  BY DEF MatcherTest, MatcherStart
<1>6. MatcherTake => mt'.pc = "conn1"
  BY TakeDoes
<1>7. MatcherLookup => mt'.pc \in {"conn2", "user1", "user2", "decide"}
  BY MatcherLooks
<1>8. MatcherTell => mt'.pc = "create"
  BY MatcherMoves DEF MatcherTell
<1>9. MatcherCreateRoom => mt'.pc = "gaming"
  BY MatcherMoves DEF MatcherCreateRoom
<1>10. \A l \in Loop : addUser(l) => mt'.pc \in {"awake", "asleep"}
  BY AddUser
<1>11. QED
  BY <1>1, <1>2, <1>3, <1>4, <1>5, <1>6, <1>7, <1>8, <1>9, <1>10, WhoWrites

\* ... has no news in the queue.
LEMMA NoTurnThen ==
    ASSUME Inv, Undisturbed, GameNext, NEW c \in Conn, NEW msg \in News,
           Queued(c, msg)
    PROVE  ~Turn(c)' /\ client'[c] # "out"
<1>1. client[c] # "out" /\ ~Turn(c)
  BY QueuedNews
<1>2. client'[c] # "out"
  BY <1>1, ClientWrites
<1>3. UNCHANGED mt => ~Turn(c)'
  BY <1>1 DEF Turn, TellTurn, PushTurn
<1>4. ASSUME NEW o \in Obj, ConnOf(o) = c, State(o) = "matching" PROVE FALSE
  BY <1>4 DEF Inv, GameInv, NewsKnows, NewsTrue, News
<1>5. QED
  BY <1>1, <1>2, <1>3, <1>4, TurnStep DEF Turn

LEMMA EntryOf ==
    ASSUME NEW S, NEW s \in Seq(S), NEW i \in 1..Len(s)
    PROVE  s[i] \in S
OBVIOUS

LEMMA Entry ==
    ASSUME Inv, NEW l \in Loop, NEW i \in 1..Len(pending[l])
    PROVE  pending[l][i].conn \in Conn /\ pending[l][i].msg \in Message
<1>1. pending[l] \in Seq([conn : Conn, msg : Message])
  BY DEF Inv, TypeInv, MessageTypes
<1>2. pending[l][i] \in [conn : Conn, msg : Message]
  BY <1>1, EntryOf, Zenon
<1>3. QED
  BY <1>2

LEMMA NewsAppended ==
    ASSUME Inv, Undisturbed, GameNext, NEW c \in Conn, NEW msg \in Message,
           pending' = [pending EXCEPT ![LoopOf[c]] =
                          Append(@, [conn |-> c, msg |-> msg])],
           \/ msg \in Talk
           \/ /\ msg \in News /\ Turn(c) /\ ~Turn(c)'
              /\ client'[c] # "out"
    PROVE  \A l \in Loop : \A i \in 1..Len(pending'[l]) : OneNews(l, i)'
<1>1. /\ \A l \in Loop : /\ Len(pending[l]) \in Nat
                         /\ Len(pending'[l]) = IF l = LoopOf[c] THEN Len(pending[l]) + 1
                                               ELSE Len(pending[l])
                         /\ \A i \in 1..Len(pending[l]) :
                               pending'[l][i] = pending[l][i]
      /\ pending'[LoopOf[c]][Len(pending[LoopOf[c]]) + 1]
           = [conn |-> c, msg |-> msg]
  BY MessageQueued DEF Inv
<1> SUFFICES ASSUME NEW l \in Loop, NEW i \in 1..Len(pending'[l])
             PROVE  OneNews(l, i)'
  OBVIOUS
<1> DEFINE last == Len(pending[l]) + 1
<1>2. ASSUME NEW j \in 1..Len(pending'[l])
      PROVE  \/ /\ j \in 1..Len(pending[l]) /\ pending'[l][j] = pending[l][j]
             \/ /\ j = last /\ l = LoopOf[c]
                /\ pending'[l][j].conn = c /\ pending'[l][j].msg = msg
  <2>1. CASE j \in 1..Len(pending[l])
    BY <1>1, <2>1
  <2>2. CASE j \notin 1..Len(pending[l])
    <3>1. l = LoopOf[c] /\ j = last
      BY <1>1, <1>2, <2>2
    <3>2. pending'[l][j] = [conn |-> c, msg |-> msg]
      BY <1>1, <3>1
    <3>3. QED
      BY <3>1, <3>2
  <2>3. QED
    BY <2>1, <2>2
<1>3. \A j \in 1..Len(pending[l]) : OneNews(l, j)
  BY DEF Inv, GameInv, NewsKnows
<1>4. \A j \in 1..Len(pending[l]) : LoopOf[pending[l][j].conn] = l
                                    /\ pending[l][j].conn \in Conn
  BY <1>3, Entry DEF OneNews
<1>5. ASSUME NEW j \in 1..Len(pending[l]), pending[l][j].msg \in News
      PROVE  /\ ~Turn(pending[l][j].conn)'
             /\ client'[pending[l][j].conn] # "out"
             /\ ~Turn(pending[l][j].conn)
  <2>1. PICK d \in Conn : d = pending[l][j].conn
    BY <1>4
  <2>2. PICK x \in News : x = pending[l][j].msg
    BY <1>5
  <2>3. Queued(d, x)
    BY <1>4, <2>1, <2>2 DEF Queued
  <2>4. ~Turn(d)' /\ client'[d] # "out" /\ ~Turn(d)
    BY <2>3, NoTurnThen, QueuedNews
  <2>5. d = pending[l][j].conn
    BY <2>1
  <2>6. Turn(pending[l][j].conn)' => Turn(d)'
    <3>1. (pending'[l][j].conn = d)
      BY <1>1, <2>1
    <3>2. QED
      BY <2>1 DEF Turn, TellTurn, PushTurn
  <2>7. QED
    BY <2>1, <2>4, <2>6
<1>6. CASE pending'[l][i] = pending[l][i] /\ i \in 1..Len(pending[l])
  <2>1. OneNews(l, i)
    BY <1>3, <1>6
  <2>2. PICK d \in Conn : d = pending[l][i].conn /\ d = pending'[l][i].conn
    BY <1>4, <1>6
  <2>3. LoopOf[pending'[l][i].conn] = l
    BY <1>6, <2>1 DEF OneNews
  <2>4. ASSUME pending'[l][i].msg \in News
        PROVE  /\ client'[pending'[l][i].conn] # "out" /\ ~Turn(d)'
               /\ \A j \in 1..Len(pending'[l]) :
                     /\ pending'[l][j].conn = pending'[l][i].conn
                     /\ pending'[l][j].msg \in News
                     => i = j
    <3>1. client'[d] # "out" /\ ~Turn(d)' /\ ~Turn(d)
      <4>1. Queued(d, pending[l][i].msg)
        BY <1>4, <1>6, <2>2 DEF Queued
      <4>2. PICK x \in News : x = pending[l][i].msg
        BY <1>6, <2>4
      <4>3. QED
        BY <4>1, <4>2, NoTurnThen, QueuedNews
    <3>2. ASSUME NEW j \in 1..Len(pending'[l]),
                 pending'[l][j].conn = pending'[l][i].conn,
                 pending'[l][j].msg \in News
          PROVE  i = j
      <4>1. CASE j \in 1..Len(pending[l]) /\ pending'[l][j] = pending[l][j]
        BY <1>6, <2>1, <2>4, <3>2, <4>1 DEF OneNews
      <4>2. CASE pending'[l][j].conn = c /\ pending'[l][j].msg = msg
        BY <2>2, <3>1, <3>2, <4>2 DEF News, Talk
      <4>3. QED
        BY <1>2, <4>1, <4>2
    <3>3. QED
      BY <2>2, <3>1, <3>2
  <2>5. Turn(d)' <=> Turn(pending[l][i].conn)'
    BY <2>2 DEF Turn, TellTurn, PushTurn
  <2>6. QED
    BY <2>3, <2>4, <2>5 DEF OneNews
<1>7. CASE /\ i = last /\ l = LoopOf[c]
           /\ pending'[l][i].conn = c /\ pending'[l][i].msg = msg
  <2>2. ASSUME msg \in News, NEW j \in 1..Len(pending'[l]),
               pending'[l][j].conn = c, pending'[l][j].msg \in News
        PROVE  i = j
    <3>1. Turn(c)
      BY <2>2 DEF News, Talk
    <3>2. CASE j \in 1..Len(pending[l]) /\ pending'[l][j] = pending[l][j]
      <4>1. ~Turn(pending[l][j].conn)
        BY <1>5, <2>2, <3>2
      <4>2. QED
        BY <2>2, <3>1, <3>2, <4>1
    <3>3. QED
      BY <1>2, <1>7, <3>2
  <2>3. msg \in News => ~Turn(c)' /\ client'[c] # "out"
    BY DEF News, Talk
  <2>4. Turn(c)' <=> Turn(pending[l][i].conn)'
    BY <1>7 DEF Turn, TellTurn, PushTurn
  <2>5. QED
    BY <1>7, <2>2, <2>3, <2>4 DEF OneNews
<1>8. QED
  BY <1>2, <1>6, <1>7

LEMMA NewsRun ==
    ASSUME Inv, Undisturbed, GameNext, NEW k \in Loop, pending[k] # <<>>,
           pending' = [pending EXCEPT ![k] = Tail(@)]
    PROVE  \A l \in Loop : \A i \in 1..Len(pending'[l]) : OneNews(l, i)'
<1>1. /\ Len(pending[k]) \in Nat
      /\ Len(pending'[k]) = Len(pending[k]) - 1
      /\ \A i \in 1..(Len(pending[k]) - 1) : pending'[k][i] = pending[k][i + 1]
      /\ \A l \in Loop \ {k} : pending'[l] = pending[l]
  BY MessageRun DEF Inv
<1> SUFFICES ASSUME NEW l \in Loop, NEW i \in 1..Len(pending'[l])
             PROVE  OneNews(l, i)'
  OBVIOUS
<1>2. PICK s \in {0, 1} : s = IF l = k THEN 1 ELSE 0
  OBVIOUS
<1>3. \A j \in 1..Len(pending'[l]) : /\ j + s \in 1..Len(pending[l])
                                     /\ pending'[l][j] = pending[l][j + s]
  <2>1. CASE l = k
    BY <1>1, <1>2, <2>1
  <2>2. CASE l # k
    <3>1. pending'[l] = pending[l] /\ s = 0
      BY <1>1, <1>2, <2>2
    <3>2. Len(pending[l]) \in Nat
      BY DEF Inv, TypeInv, MessageTypes
    <3>3. \A j \in 1..Len(pending[l]) : j + 0 = j
      BY <3>2
    <3>4. QED
      BY <3>1, <3>3
  <2>3. QED
    BY <2>1, <2>2
<1>4. \A j \in 1..Len(pending[l]) : OneNews(l, j)
  BY DEF Inv, GameInv, NewsKnows
<1>5. PICK n \in 1..Len(pending[l]) : n = i + s
  BY <1>3
<1>6. pending'[l][i] = pending[l][n] /\ OneNews(l, n)
  BY <1>3, <1>4, <1>5
<1>7. PICK d \in Conn : d = pending[l][n].conn
  BY Entry
<1>8. d = pending'[l][i].conn /\ LoopOf[d] = l
  BY <1>6, <1>7 DEF OneNews
<1>10. ASSUME pending'[l][i].msg \in News
       PROVE  /\ client'[d] # "out" /\ ~Turn(d)'
              /\ \A j \in 1..Len(pending'[l]) :
                    /\ pending'[l][j].conn = pending'[l][i].conn
                    /\ pending'[l][j].msg \in News
                    => i = j
  <2>1. PICK x \in News : x = pending[l][n].msg
    BY <1>6, <1>10
  <2>2. Queued(d, x)
    BY <1>7, <1>8, <2>1 DEF Queued
  <2>3. client'[d] # "out" /\ ~Turn(d)'
    BY <2>2, NoTurnThen
  <2>4. ASSUME NEW j \in 1..Len(pending'[l]),
               pending'[l][j].conn = pending'[l][i].conn,
               pending'[l][j].msg \in News
        PROVE  i = j
    <3>1. PICK m \in 1..Len(pending[l]) : m = j + s
      BY <1>3
    <3>2. pending'[l][j] = pending[l][m]
      BY <1>3, <3>1
    <3>3. n = m
      BY <1>6, <1>10, <2>4, <3>2 DEF OneNews
    <3>4. QED
      BY <1>5, <3>1, <3>3
  <2>5. QED
    BY <2>3, <2>4
<1>11. Turn(d)' <=> Turn(pending[l][i].conn)'
  BY <1>8 DEF Turn, TellTurn, PushTurn
<1>12. QED
  BY <1>8, <1>10, <1>11 DEF OneNews

LEMMA NewsStay ==
    ASSUME Inv, Undisturbed, GameNext, UNCHANGED pending
    PROVE  \A l \in Loop : \A i \in 1..Len(pending'[l]) : OneNews(l, i)'
<1> SUFFICES ASSUME NEW l \in Loop, NEW i \in 1..Len(pending[l])
             PROVE  OneNews(l, i)'
  OBVIOUS
<1>1. OneNews(l, i)
  BY DEF Inv, GameInv, NewsKnows
<1>2. PICK d \in Conn : d = pending[l][i].conn
  BY Entry
<1>3. ASSUME pending[l][i].msg \in News
      PROVE  client'[d] # "out" /\ ~Turn(d)'
  <2>1. PICK x \in News : x = pending[l][i].msg
    BY <1>3
  <2>2. Queued(d, x)
    BY <1>1, <1>2, <2>1 DEF Queued, OneNews
  <2>3. QED
    BY <2>2, NoTurnThen
<1>4. Turn(d)' <=> Turn(pending[l][i].conn)'
  BY <1>2 DEF Turn, TellTurn, PushTurn
<1>5. QED
  BY <1>1, <1>2, <1>3, <1>4 DEF OneNews

\* What is sent, and to whom: news by the match thread in its turn, or what
\* one player sends the other.
Sends(c, msg) ==
    /\ pending' = [pending EXCEPT ![LoopOf[c]] =
                      Append(@, [conn |-> c, msg |-> msg])]
    /\ \/ msg \in Talk
       \/ /\ link[c] = "up" /\ Turn(c) /\ ~Turn(c)'
          /\ \/ MatcherTell /\ TellTurn(c) /\ msg = "match failed"
             \/ MatcherPush /\ PushTurn(c) /\ msg = "matched"

LEMMA PendingStep ==
    ASSUME Inv, Undisturbed, GameNext
    PROVE  \/ UNCHANGED pending
           \/ \E l \in Loop : /\ doPendingFunctor(l) /\ pending[l] # <<>>
                              /\ pending' = [pending EXCEPT ![l] = Tail(@)]
           \/ \E c \in Conn, msg \in Message : Sends(c, msg)
<1>1. ASSUME NEW l \in Loop, doPendingFunctor(l)
      PROVE  pending[l] # <<>> /\ pending' = [pending EXCEPT ![l] = Tail(@)]
  BY <1>1 DEF doPendingFunctor
<1>2. ASSUME NEW l \in Loop, Talks(l), ~UNCHANGED pending
      PROVE  \E c \in Conn, m \in Message : Sends(c, m)
  BY <1>2, TalkDoes DEF Sends
<1>3. ASSUME MatcherTell, ~UNCHANGED pending
      PROVE  \E c \in Conn, m \in Message : Sends(c, m)
  <2>1. PICK c \in Conn \cup {NoConn} : c = IF mt.c1 = NoConn THEN mt.c2 ELSE mt.c1
    BY DEF Inv, TypeInv, MatcherTypes, MatcherState
  <2>2. Push(c, "match failed") /\ mt.pc = "tell" /\ mt' = [mt EXCEPT !.pc = "create"]
    BY <1>3, <2>1 DEF MatcherTell
  <2>3. PICK msg \in News : msg = "match failed"
    BY DEF News
  <2>4. Push(c, msg)
    BY <2>2, <2>3
  <2>5. /\ c \in Conn /\ link[c] = "up"
        /\ pending' = [pending EXCEPT ![LoopOf[c]] =
                          Append(@, [conn |-> c, msg |-> msg])]
    BY <1>3, <2>4, Pushed, Zenon
  <2>6. TellTurn(c) /\ Turn(c)
    BY <2>1, <2>2 DEF TellTurn, Turn
  <2>7. ~Turn(c)'
    <3>1. mt'.pc = "create"
      BY <2>2, MatcherMoves
    <3>2. QED
      BY <3>1 DEF Turn, TellTurn, PushTurn
  <2>8. msg \in Message
    BY <2>3 DEF Message
  <2>9. QED
    BY <1>3, <2>3, <2>5, <2>6, <2>7, <2>8 DEF Sends
<1>4. ASSUME MatcherPush, ~UNCHANGED pending
      PROVE  \E c \in Conn, m \in Message : Sends(c, m)
  <2>1. PICK c \in Conn \cup {NoConn} :
           /\ Push(c, "matched")
           /\ \/ /\ mt.pc = "push1" /\ c = mt.c1
                 /\ mt' = [mt EXCEPT !.pc = "push2"]
              \/ /\ mt.pc = "push2" /\ c = mt.c2
                 /\ mt' = [MatcherStart EXCEPT !.pc = "scan", !.tier = mt.tier + 1]
    BY <1>4 DEF MatcherPush, Inv, TypeInv, MatcherTypes, MatcherState
  <2>3. PICK msg \in News : msg = "matched"
    BY DEF News
  <2>4. Push(c, msg)
    BY <2>1, <2>3
  <2>5. /\ c \in Conn /\ link[c] = "up"
        /\ pending' = [pending EXCEPT ![LoopOf[c]] =
                          Append(@, [conn |-> c, msg |-> msg])]
    BY <1>4, <2>4, Pushed, Zenon
  <2>6. PushTurn(c) /\ Turn(c)
    BY <2>1 DEF PushTurn, Turn
  <2>7. ~Turn(c)'
    <3>1. CASE mt.pc = "push1"
      <4>1. mt'.pc = "push2" /\ mt'.c2 = mt.c2 /\ c = mt.c1
        BY <2>1, <3>1, MatcherMoves
      <4>2. mt.c1 # mt.c2
        BY <3>1, InHandPair DEF Paired
      <4>3. QED
        BY <4>1, <4>2 DEF Turn, TellTurn, PushTurn
    <3>2. CASE mt' = [MatcherStart EXCEPT !.pc = "scan", !.tier = mt.tier + 1]
      BY <3>2 DEF Turn, TellTurn, PushTurn, MatcherStart
    <3>3. QED
      BY <2>1, <3>1, <3>2
  <2>8. msg \in Message
    BY <2>3 DEF Message
  <2>9. QED
    BY <1>4, <2>3, <2>5, <2>6, <2>7, <2>8 DEF Sends
<1>5. QED
  BY <1>1, <1>2, <1>3, <1>4, WhoWrites DEF Talks

\* What is queued for a client was so before, or has just been sent.
LEMMA QueuedStep ==
    ASSUME Inv, Undisturbed, GameNext, NEW c \in Conn, NEW msg \in News,
           Queued(c, msg)'
    PROVE  Queued(c, msg) \/ Sends(c, msg)
<1>1. CASE UNCHANGED pending
  BY <1>1 DEF Queued
<1>2. ASSUME NEW l \in Loop, pending[l] # <<>>,
             pending' = [pending EXCEPT ![l] = Tail(@)]
      PROVE  Queued(c, msg)
  <2>1. PICK d \in Conn, m \in Message :
           Runs(l, d, m)
    BY <1>2, QueuedLess, Zenon
  <2>2. QED
    BY <2>1 DEF Runs
<1>3. ASSUME NEW d \in Conn, NEW m \in Message, Sends(d, m)
      PROVE  Queued(c, msg) \/ Sends(c, msg)
  <2>1. pending' = [pending EXCEPT ![LoopOf[d]] =
                       Append(@, [conn |-> d, msg |-> m])]
    BY <1>3 DEF Sends
  <2>2. \A e \in Conn : \A x : Queued(e, x)' <=> Queued(e, x) \/ (e = d /\ x = m)
    BY <2>1, QueuedMore
  <2>3. QED
    BY <1>3, <2>2
<1>4. QED
  BY <1>1, <1>2, <1>3, PendingStep

\* Who is to be told of his match is in the game and in the room until he knows.
LEMMA MatchedStays ==
    ASSUME Inv, Undisturbed, GameNext, NEW o \in Obj,
           Queued(ConnOf(o), "matched") \/ PushTurn(ConnOf(o))
    PROVE  State(o)' = "gaming" /\ Roomed(o)'
<1>0. /\ State(o) = "gaming" /\ Roomed(o) /\ Coming(ConnOf(o))
      /\ OneObject /\ UserOf(o) \in User
  BY Objects DEF Inv, GameInv, NewsKnows, NewsTrue, Coming, Turn, Accounts
<1>1. CASE MatcherDecide
  <2>1. UNCHANGED info \/ \E r \in Obj : /\ State(r) = "matching"
                                         /\ \A x \in Obj : x # r => State(x)' = State(x)
    BY ZenonT(30), <1>1, DecideDoes
  <2>2. UNCHANGED info => State(o)' = State(o)
    BY DEF State
  <2>3. State(o)' = "gaming"
    BY <1>0, <2>1, <2>2
  <2>4. Roomed(o)'
    BY <1>0, <1>1, Grows DEF Roomed, MatcherDecide, roomVars
  <2>5. QED
    BY <2>3, <2>4
<1>2. CASE MatcherSetGaming
  <2>1. \/ UNCHANGED info
        \/ \E p, q \in Obj : \A r \in Obj :
              State(r)' = IF r \in {p, q} THEN "gaming" ELSE State(r)
    BY ZenonT(30), <1>2, SetGamingDoes
  <2>2. UNCHANGED info => State(o)' = State(o)
    BY DEF State
  <2>3. State(o)' = "gaming"
    BY <1>0, <2>1, <2>2
  <2>4. Roomed(o)'
    BY <1>0, <1>2, Grows DEF Roomed, MatcherSetGaming, roomVars
  <2>5. QED
    BY <2>3, <2>4
<1>3. State(o)' = "gaming"
  <2>1. ASSUME NEW l \in Loop, addUser(l) PROVE State(o)' = "gaming"
    <3>1. PICK p \in Obj : /\ State(p) = "online"
                           /\ \A x \in Obj : x # p => State(x)' = State(x)
      BY ZenonT(90), <2>1, AddUser
    <3>2. QED
      BY <1>0, <3>1
  <2>2. ASSUME NEW l \in Loop, removeFromPool(l) PROVE State(o)' = "gaming"
    <3>1. PICK p \in Obj : /\ State(p) = "matching" \/ State(p)' = State(p)
                           /\ \A x \in Obj : x # p => State(x)' = State(x)
      BY ZenonT(60), <2>2, RemoveFromPool
    <3>2. QED
      BY <1>0, <3>1
  <2>3. ASSUME NEW l \in Loop, ExitDone(l) PROVE State(o)' = "gaming"
    <3>1. PICK p \in Obj : /\ ~Roomed(p)
                           /\ \A x \in Obj : x # p => State(x)' = State(x)
      BY ZenonT(30), <2>3, ExitDoneDoes
    <3>2. QED
      BY <1>0, <3>1
  <2>4. QED
    BY <1>0, <1>1, <1>2, <2>1, <2>2, <2>3, StateWrites
<1>4. Roomed(o)'
  <2>1. ASSUME NEW l \in Loop, ExitRoom(l) PROVE Roomed(o)'
    <3>1. PICK p \in Obj : /\ Playing(State(p), Roomed(p), Coming(ConnOf(p)))
                           /\ roomOf' = [roomOf EXCEPT ![UserOf(p)] = NoRoom]
      BY <2>1, ExitRoomDoes
    <3>2. UserOf(p) # UserOf(o)
      BY <1>0, <3>1 DEF Playing, OneObject
    <3>3. roomOf'[UserOf(o)] = roomOf[UserOf(o)]
      BY <3>1, <3>2
    <3>4. QED
      BY <1>0, <3>3, Grows DEF Roomed
  <2>2. ASSUME MatcherCreateRoom PROVE Roomed(o)'
    <3>1. roomOf' = [roomOf EXCEPT ![mt.u1] = Len(rooms) + 1,
                                   ![mt.u2] = Len(rooms) + 1]
      BY <2>2 DEF MatcherCreateRoom, createRoom, FileBoth
    <3>2. roomOf \in [User -> 0..Len(rooms)] /\ Len(rooms) \in Nat
      BY Ground DEF Inv, TypeInv, RoomsTypeOK
    <3>3. roomOf'[UserOf(o)] \in {roomOf[UserOf(o)], Len(rooms) + 1}
      BY <1>0, <3>1, <3>2
    <3>4. roomOf'[UserOf(o)] # NoRoom
      BY <1>0, <3>2, <3>3 DEF Roomed, NoRoom
    <3>5. QED
      BY <3>4, Grows DEF Roomed
  <2>3. UNCHANGED roomOf => Roomed(o)'
    BY <1>0, Grows DEF Roomed
  <2>4. QED
    BY <2>1, <2>2, <2>3, WhoWrites
<1>5. QED
  BY <1>3, <1>4

\* A pair one of whom is missing stays so until the process dies of it.
LEMMA StrandedStays ==
    ASSUME Inv, Undisturbed, GameNext, Stranded
    PROVE  /\ MatcherSetGaming => UNCHANGED info
           /\ Stranded'
           /\ \A l \in Loop : ~addUser(l) /\ ~removeFromPool(l)
<1>0. mt.pc \in {"create", "gaming"} /\ Gone
  BY DEF Stranded
<1>1. ~MatcherTest /\ ~MatcherTake /\ ~MatcherLookup /\ ~MatcherDecide
      /\ ~MatcherTell /\ ~MatcherPush
  BY <1>0 DEF MatcherTest, MatcherTake, MatcherLookup, Lookup, MatcherDecide,
         MatcherTell, MatcherPush
<1>2. \A l \in Loop : ~addUser(l) /\ ~removeFromPool(l)
  BY <1>0, AddUser, RemoveFromPool
<1>3. MatcherSetGaming => UNCHANGED <<info, mt>>
  BY <1>0, SetGamingDoes
<1>4. MatcherCreateRoom => Stranded'
  <2>1. MatcherCreateRoom => /\ mt'.pc = "gaming" /\ mt'.c1 = mt.c1
                             /\ mt'.c2 = mt.c2
    BY MatcherMoves DEF MatcherCreateRoom
  <2>2. QED
    BY <1>0, <2>1 DEF Stranded, Gone
<1>5. UNCHANGED mt => Stranded'
  BY <1>0 DEF Stranded, Gone
<1>6. Stranded'
  BY <1>1, <1>2, <1>3, <1>4, <1>5, WhoWrites
<1>7. QED
  BY <1>2, <1>3, <1>6

LEMMA FailedStays ==
    ASSUME Inv, Undisturbed, GameNext, NEW o \in Obj,
           State(o) = "online", Stranded
    PROVE  State(o)' = "online" /\ Stranded'
<1>1. MatcherSetGaming => State(o)' = State(o)
  BY StrandedStays DEF State
<1>2. ~MatcherDecide
  BY DEF Stranded, MatcherDecide
<1>3. ASSUME NEW l \in Loop, ExitDone(l) PROVE State(o)' = "online"
  BY <1>3, ExitDoneDoes
<1>4. QED
  BY <1>1, <1>2, <1>3, StrandedStays, StateWrites

LEMMA NewsTrueStep ==
    ASSUME Inv, Undisturbed, GameNext, NEW o \in Obj
    PROVE  NewsTrue(o)'
<1>0. ConnOf(o) \in Conn /\ NewsTrue(o)
  BY Objects DEF Inv, GameInv, NewsKnows
<1>c. PICK c \in Conn : c = ConnOf(o) /\ c = ConnOf(o)'
  BY <1>0, Grows
<1>1. ASSUME Queued(c, "matched")' PROVE State(o)' = "gaming" /\ Roomed(o)'
  <2>1. PICK msg \in News : msg = "matched"
    BY DEF News
  <2>2. Queued(c, msg) \/ Sends(c, msg)
    BY <1>1, <2>1, QueuedStep
  <2>3. Sends(c, msg) => PushTurn(c)
    BY <2>1 DEF Sends, News, Talk
  <2>4. QED
    BY <1>c, <2>1, <2>2, <2>3, MatchedStays
<1>2. ASSUME PushTurn(c)' PROVE State(o)' = "gaming" /\ Roomed(o)'
  <2>1. PushTurn(c) => State(o)' = "gaming" /\ Roomed(o)'
    BY <1>c, MatchedStays
  <2>2. UNCHANGED mt => PushTurn(c)
    BY <1>2 DEF PushTurn
  <2>3. ASSUME NEW p \in Obj, ConnOf(p) = c, State(p)' = "gaming", Roomed(p)'
        PROVE  State(o)' = "gaming" /\ Roomed(o)'
    BY <1>c, <2>3 DEF Inv, GameInv, Accounts, OneObject
  <2>4. QED
    BY <1>2, <2>1, <2>2, <2>3, TurnStep DEF Turn
<1>3. ASSUME Queued(c, "match failed")' PROVE State(o)' = "online" /\ Stranded'
  <2>1. PICK msg \in News : msg = "match failed"
    BY DEF News
  <2>2. Queued(c, msg) \/ Sends(c, msg)
    BY <1>3, <2>1, QueuedStep
  <2>3. CASE Queued(c, msg)
    BY <1>0, <1>c, <2>1, <2>3, FailedStays DEF NewsTrue
  <2>4. CASE Sends(c, msg)
    <3>1. MatcherTell /\ TellTurn(c) /\ Turn(c) /\ link[c] = "up"
      BY <2>1, <2>4 DEF Sends, News, Talk
    <3>2. PICK p \in Obj : ConnOf(p) = c /\ State(p) = "online" /\ Gone
      BY <3>1, TurnOf
    <3>3. p = o
      BY <1>c, <3>2 DEF Inv, GameInv, Accounts, OneObject
    <3>4. UNCHANGED info /\ mt' = [mt EXCEPT !.pc = "create"]
      BY <3>1 DEF MatcherTell
    <3>5. Stranded'
      BY <3>2, <3>4, MatcherMoves DEF Stranded, Gone
    <3>6. QED
      BY <3>2, <3>3, <3>4, <3>5 DEF State
  <2>5. QED
    BY <2>2, <2>3, <2>4
<1>4. /\ Queued(ConnOf(o), "matched")' <=> Queued(c, "matched")'
      /\ Queued(ConnOf(o), "match failed")' <=> Queued(c, "match failed")'
      /\ PushTurn(ConnOf(o))' <=> PushTurn(c)'
  BY <1>c DEF Queued, PushTurn
<1>5. QED
  BY <1>1, <1>2, <1>3, <1>4 DEF NewsTrue

LEMMA NewsKnowsStep ==
    ASSUME Inv, Undisturbed, GameNext
    PROVE  NewsKnows'
<1>1. \A l \in Loop : \A i \in 1..Len(pending'[l]) : OneNews(l, i)'
  <2>1. ASSUME NEW c \in Conn, NEW msg \in Message, Sends(c, msg)
        PROVE  \A l \in Loop : \A i \in 1..Len(pending'[l]) : OneNews(l, i)'
    <3>1. pending' = [pending EXCEPT ![LoopOf[c]] =
                         Append(@, [conn |-> c, msg |-> msg])]
      BY <2>1 DEF Sends
    <3>2. \/ msg \in Talk
          \/ msg \in News /\ Turn(c) /\ ~Turn(c)' /\ link[c] = "up"
      BY <2>1 DEF Sends, News
    <3>3. Turn(c) /\ link[c] = "up" => client'[c] # "out"
      BY TurnOf, ClientWrites
    <3>4. QED
      BY <3>1, <3>2, <3>3, NewsAppended
  <2>2. QED
    BY <2>1, NewsStay, NewsRun, PendingStep
<1>2. ASSUME NEW o \in Obj' PROVE NewsTrue(o)'
  <2>1. CASE o \in Obj
    BY <2>1, NewsTrueStep
  <2>2. ASSUME NEW l \in Loop, GameLoginAdd(l), ConnOf(o)' = io[l].conn
        PROVE  NewsTrue(o)'
    <3>1. PICK c \in Conn : c = io[l].conn
      BY <2>2, Logins1, NewObject
    <3>2. client[c] = "out" /\ \A p \in Obj : ConnOf(p) # c
      BY <2>2, <3>1, Logins1, NewObject
    <3>3. UNCHANGED <<pending, mt>> /\ c = ConnOf(o)'
      BY <2>2, <3>1 DEF GameLoginAdd, LoginAdd
    <3>4. ~Turn(c)
      BY <3>2, TurnOf
    <3>5. \A x \in News : ~Queued(c, x)
      BY <3>2, QueuedNews
    <3>6. ~PushTurn(ConnOf(o))'
      BY <3>3, <3>4 DEF Turn, PushTurn
    <3>7. ~Queued(ConnOf(o), "matched")' /\ ~Queued(ConnOf(o), "match failed")'
      BY <3>3, <3>5 DEF Queued, News
    <3>8. QED
      BY <3>6, <3>7 DEF NewsTrue
  <2>3. QED
    BY <2>1, <2>2, ObjectsThen
<1>3. QED
  BY <1>1, <1>2 DEF NewsKnows

-----------------------------------------------------------------------------
(* The clients.                                                            *)

\* What the loop l runs is the message msg to c.
LEMMA Functor ==
    ASSUME Inv, NEW l \in Loop, doPendingFunctor(l)
    PROVE  \E c \in Conn, msg \in Message :
              /\ Runs(l, c, msg)
              /\ client' = Write(client, c, msg)
<1>1. pending[l] # <<>> /\ pending' = [pending EXCEPT ![l] = Tail(@)]
  BY DEF doPendingFunctor
<1>2. PICK d \in Conn, msg \in Message :
         Runs(l, d, msg)
  BY <1>1, QueuedLess, Zenon
<1>3. Head(pending[l]) = [conn |-> d, msg |-> msg]
  BY <1>2 DEF Runs
<1> DEFINE h == Head(pending[l])
<1>4. h = [conn |-> d, msg |-> msg]
  BY <1>3
<1> HIDE DEF h
<1>5. h.conn = d /\ h.msg = msg
  BY <1>4
<1>6. client' = Write(client, d, msg)
  BY <1>5 DEF doPendingFunctor, h
<1>7. QED
  BY <1>2, <1>6

LEMMA ViewStep ==
    ASSUME Inv, Undisturbed, GameNext, NEW c \in Conn
    PROVE  \/ client'[c] = client[c]
           \/ /\ link[c] = "up" /\ UNCHANGED link
              /\ \/ \E l \in Loop : LoginAck(l) /\ io[l].conn = c
                 \/ \E l \in Loop : MatchAck(l) /\ hnd[l].conn = c
                 \/ \E l \in Loop, msg \in News :
                       doPendingFunctor(l) /\ Runs(l, c, msg)
                 \/ AskStart(c) \/ AskCancel(c) \/ AskInRoom(c)
<1>t. client \in [Conn -> {"out", "lobby", "asking", "queued", "leaving",
                           "room", "confused"}]
  BY DEF Inv, TypeInv, ClientTypes
<1>1. ASSUME NEW l \in Loop, LoginAck(l), client'[c] # client[c]
      PROVE  link[c] = "up" /\ UNCHANGED link /\ io[l].conn = c
  <2>1. io[l].pc = "reply" /\ UNCHANGED link
    BY <1>1 DEF LoginAck, LoginReply
  <2>2. io[l].conn \in Conn
    BY <2>1, Logins1
  <2>3. UNCHANGED client \/ (client' = [client EXCEPT ![io[l].conn] = Heard(@, "login ok")]
                             /\ link[io[l].conn] = "up")
    BY <1>1 DEF LoginAck, Reply, Write
  <2>4. QED
    BY <1>1, <1>t, <2>1, <2>2, <2>3
<1>2. ASSUME NEW l \in Loop, MatchAck(l), client'[c] # client[c]
      PROVE  link[c] = "up" /\ UNCHANGED link /\ hnd[l].conn = c
  <2>1. UNCHANGED link
    BY <1>2 DEF MatchAck, sessionVars
  <2>2. hnd[l] # NoHandler /\ hnd[l].conn = c
    BY <1>2, MatchAckDoes
  <2>3. QED
    BY <2>1, <2>2, Worker
<1>3. ASSUME NEW l \in Loop, doPendingFunctor(l), client'[c] # client[c]
      PROVE  link[c] = "up" /\ UNCHANGED link
             /\ \E msg \in News : Runs(l, c, msg)
  <2>1. PICK d \in Conn, msg \in Message :
           Runs(l, d, msg) /\ client' = Write(client, d, msg)
    BY <1>3, Functor
  <2>2. msg \notin News => Heard(client[d], msg) = client[d]
    BY DEF Heard, News, Message
  <2>3. d = c /\ link[c] = "up" /\ Heard(client[d], msg) # client[d]
    BY <1>3, <1>t, <2>1 DEF Write
  <2>4. UNCHANGED link
    BY <1>3 DEF doPendingFunctor, sessionVars
  <2>5. QED
    BY <2>1, <2>2, <2>3, <2>4
<1>4. ASSUME NEW l \in Loop, Talks(l) PROVE UNCHANGED client
  BY <1>4, TalkDoes
<1>5. ASSUME NEW d \in Conn, AskStart(d) \/ AskCancel(d) \/ AskInRoom(d),
             client'[c] # client[c]
      PROVE  d = c /\ link[c] = "up" /\ UNCHANGED link
  <2>1. /\ \E next : client' = [client EXCEPT ![d] = next]
        /\ link[d] = "up" /\ UNCHANGED link
    BY <1>5 DEF AskStart, AskCancel, AskInRoom, AskMove, AskChat, AskExit, Ask,
       sessionVars
  <2>2. QED
    BY <1>5, <1>t, <2>1
<1>6. QED
  BY <1>1, <1>2, <1>3, <1>4, <1>5, WhoWrites DEF Talks

\* Whether news are coming to a client that is connected.
LEMMA ComingStep ==
    ASSUME Inv, Undisturbed, GameNext, NEW c \in Conn, link[c] = "up"
    PROVE  \/ Coming(c)' = Coming(c)
           \/ \E l \in Loop, msg \in News : doPendingFunctor(l) /\ Runs(l, c, msg)
           \/ \E o \in Obj : /\ ConnOf(o) = c /\ State(o) = "matching"
                             /\ MatcherDecide \/ MatcherSetGaming
<1>a. ASSUME NEW o \in Obj, ConnOf(o) = c, State(o) = "matching",
             MatcherDecide \/ MatcherSetGaming
      PROVE  \E p \in Obj : /\ ConnOf(p) = c /\ State(p) = "matching"
                            /\ MatcherDecide \/ MatcherSetGaming
  BY <1>a
<1>1. ASSUME Turn(c)', ~MatcherDecide /\ ~MatcherSetGaming PROVE Turn(c)
  <2>1. UNCHANGED mt => Turn(c)
    BY <1>1 DEF Turn, TellTurn, PushTurn
  <2>2. QED
    BY <1>1, <2>1, TurnStep DEF Turn
<1>2. ASSUME NEW msg \in News, Queued(c, msg)' PROVE Queued(c, msg) \/ Turn(c)
  <2>1. Sends(c, msg) => Turn(c)
    BY DEF Sends, News, Talk
  <2>2. QED
    BY <1>2, <2>1, QueuedStep
<1>3. ASSUME NEW msg \in News, Queued(c, msg),
             \A l \in Loop : ~(doPendingFunctor(l) /\ Runs(l, c, msg))
      PROVE  Queued(c, msg)'
  <2>1. UNCHANGED pending => Queued(c, msg)'
    BY <1>3 DEF Queued
  <2>2. ASSUME NEW l \in Loop, doPendingFunctor(l) PROVE Queued(c, msg)'
    <3>1. PICK d \in Conn, m \in Message :
             Runs(l, d, m)
      BY <2>2, Functor
    <3>2. c # d \/ msg # m
      BY <1>3, <2>2, <3>1
    <3>3. QED
      BY <1>3, <3>1, <3>2 DEF Runs
  <2>3. ASSUME NEW d \in Conn, NEW m \in Message, Sends(d, m) PROVE Queued(c, msg)'
    <3>1. pending' = [pending EXCEPT ![LoopOf[d]] =
                         Append(@, [conn |-> d, msg |-> m])]
      BY <2>3 DEF Sends
    <3>2. \A e \in Conn : \A x : Queued(e, x)' <=> Queued(e, x) \/ (e = d /\ x = m)
      BY <3>1, QueuedMore
    <3>3. QED
      BY <1>3, <3>2
  <2>4. QED
    BY <2>1, <2>2, <2>3, PendingStep
<1>4. ASSUME Turn(c)
      PROVE  Turn(c)' \/ Queued(c, "matched")' \/ Queued(c, "match failed")'
  <2>0. mt.pc \in {"tell", "push1", "push2"}
    BY <1>4 DEF Turn, TellTurn, PushTurn
  <2>1. UNCHANGED mt => Turn(c)'
    BY <1>4 DEF Turn, TellTurn, PushTurn
  <2>2. ASSUME MatcherTell PROVE Queued(c, "match failed")'
    <3>1. PICK msg \in News : msg = "match failed"
      BY DEF News
    <3>2. Push(c, msg)
      BY <1>4, <2>2, <3>1 DEF MatcherTell, Turn, TellTurn, PushTurn
    <3>3. QED
      BY <3>1, <3>2, Pushed
  <2>3. ASSUME MatcherPush PROVE Turn(c)' \/ Queued(c, "matched")'
    <3>1. PICK msg \in News : msg = "matched"
      BY DEF News
    <3>2. CASE mt.pc = "push1" /\ c # mt.c1
      <4>1. mt' = [mt EXCEPT !.pc = "push2"]
        BY <2>3, <3>2 DEF MatcherPush
      <4>2. mt'.pc = "push2" /\ mt'.c2 = mt.c2
        BY <4>1, MatcherMoves
      <4>3. QED
        BY <1>4, <3>2, <4>2 DEF Turn, TellTurn, PushTurn
    <3>3. CASE ~(mt.pc = "push1" /\ c # mt.c1)
      <4>1. Push(c, msg)
        BY <1>4, <2>3, <3>1, <3>3 DEF MatcherPush, Turn, TellTurn, PushTurn
      <4>2. QED
        BY <3>1, <4>1, Pushed
    <3>4. QED
      BY <3>2, <3>3
  <2>4. ~MatcherTest /\ ~MatcherTake /\ ~MatcherLookup /\ ~MatcherDecide
        /\ ~MatcherCreateRoom /\ ~MatcherSetGaming
    BY <2>0 DEF MatcherTest, MatcherTake, MatcherLookup, Lookup, MatcherDecide,
           MatcherCreateRoom, MatcherSetGaming
  <2>5. \A l \in Loop : ~addUser(l)
    BY <2>0, AddUser
  <2>6. QED
    BY <2>1, <2>2, <2>3, <2>4, <2>5, WhoWrites
<1>5. ASSUME \A l \in Loop, msg \in News : ~(doPendingFunctor(l) /\ Runs(l, c, msg)),
             ~MatcherDecide /\ ~MatcherSetGaming
      PROVE  Coming(c)' <=> Coming(c)
  <2>1. Coming(c) => Coming(c)'
    BY <1>3, <1>4, <1>5 DEF Coming, News
  <2>2. Coming(c)' => Coming(c)
    BY <1>1, <1>2, <1>5 DEF Coming, News
  <2>3. QED
    BY <2>1, <2>2
<1>6. ASSUME \A l \in Loop, msg \in News : ~(doPendingFunctor(l) /\ Runs(l, c, msg)),
             \A o \in Obj : ~(ConnOf(o) = c /\ State(o) = "matching"),
             MatcherDecide \/ MatcherSetGaming
      PROVE  Coming(c)' <=> Coming(c)
  <2>1. UNCHANGED pending
    BY <1>6 DEF MatcherDecide, MatcherSetGaming
  <2>2. Turn(c)' => Turn(c)
    <3>1. UNCHANGED mt /\ Turn(c)' => Turn(c)
      BY DEF Turn, TellTurn, PushTurn
    <3>2. QED
      BY <1>6, <3>1, TurnStep DEF Turn
  <2>3. QED
    BY <1>4, <2>1, <2>2 DEF Coming, Queued
<1>7. QED
  <2>1. CASE \E l \in Loop, msg \in News : doPendingFunctor(l) /\ Runs(l, c, msg)
    BY <2>1
  <2>2. CASE \E o \in Obj : /\ ConnOf(o) = c /\ State(o) = "matching"
                            /\ MatcherDecide \/ MatcherSetGaming
    BY <2>2
  <2>3. CASE /\ ~\E l \in Loop, msg \in News : doPendingFunctor(l) /\ Runs(l, c, msg)
             /\ ~\E o \in Obj : /\ ConnOf(o) = c /\ State(o) = "matching"
                                /\ MatcherDecide \/ MatcherSetGaming
    <3>1. Coming(c)' <=> Coming(c)
      BY <1>5, <1>6, <2>3
    <3>2. Coming(c)' = Coming(c)
      BY <3>1 DEF Coming
    <3>3. QED
      BY <3>2
  <2>4. QED
    BY <2>1, <2>2, <2>3

\* The handler of the client of o moves.
Serves(l, o) == hnd[l] # NoHandler /\ hnd[l].conn = ConnOf(o) /\ hnd'[l] # hnd[l]

\* Whoever neither asks, is served nor told anything stays where he stands.
LEMMA PostStays ==
    ASSUME Inv, Undisturbed, GameNext, NEW o \in Obj,
           \A l \in Loop : ~Serves(l, o),
           \A r \in Request : ~Begin(ConnOf(o), r)
    PROVE  Post(ConnOf(o))' = Post(ConnOf(o))
<1>c. PICK c \in Conn : c = ConnOf(o) /\ c = ConnOf(o)' /\ LoopOf[c] \in Loop
  BY Objects, Grows
<1>1. UNCHANGED hnd => Post(c)' = Post(c)
  BY DEF Post
<1>2. ASSUME NEW d \in Conn, NEW r \in Request, Begin(d, r) PROVE Post(c)' = Post(c)
  <2>1. /\ hnd[LoopOf[d]] = NoHandler /\ hnd'[LoopOf[d]].conn = d
        /\ \A m \in Loop : m # LoopOf[d] => hnd'[m] = hnd[m]
    BY ZenonT(30), <1>2, BeginDoes
  <2>2. d # c
    BY <1>2, <1>c
  <2>3. CASE LoopOf[c] = LoopOf[d]
    <3>1. Post(c) = NoHandler
      BY <2>1, <2>3 DEF Post, NoHandler
    <3>2. Post(c)' = NoHandler
      BY <2>1, <2>2, <2>3 DEF Post
    <3>3. QED
      BY <3>1, <3>2
  <2>4. CASE LoopOf[c] # LoopOf[d]
    BY <1>c, <2>1, <2>4 DEF Post
  <2>5. QED
    BY <2>3, <2>4
<1>3. ASSUME NEW l \in Loop, Moves(l) PROVE Post(c)' = Post(c)
  <2>1. /\ hnd[l] # NoHandler /\ \A m \in Loop : m # l => hnd'[m] = hnd[m]
        /\ hnd'[l] = NoHandler \/ hnd'[l].conn = hnd[l].conn
    BY <1>3 DEF Moves, GoesOn
  <2>2. /\ c = hnd[l].conn => Post(c)' = hnd'[l]
        /\ c # hnd[l].conn => Post(c)' = Post(c)
    BY <2>1, PostMoves
  <2>3. CASE c = hnd[l].conn
    <3>1. hnd'[l] = hnd[l]
      BY <1>c, <2>1, <2>3 DEF Serves
    <3>2. Post(c) = hnd[l]
      BY <2>1, <2>3, Worker
    <3>3. QED
      BY <2>2, <2>3, <3>1, <3>2
  <2>4. QED
    BY <2>2, <2>3
<1>4. Post(c)' = Post(c)
  BY <1>1, <1>2, <1>3, HandlerDoes
<1>5. Post(ConnOf(o))' = Post(c)' /\ Post(ConnOf(o)) = Post(c)
  BY <1>c DEF Post
<1>6. QED
  BY <1>4, <1>5

LEMMA ServesMoves ==
    ASSUME Inv, NEW l \in Loop, NEW o \in Obj, hnd[l] # NoHandler,
           hnd[l].conn = ConnOf(o),
           \/ hnd' = [hnd EXCEPT ![l] = NoHandler]
           \/ \E pc : hnd'[l].pc = pc /\ hnd[l].pc # pc
    PROVE  Serves(l, o)
<1>1. hnd' = [hnd EXCEPT ![l] = NoHandler] => hnd'[l] = NoHandler
  BY DEF Inv, TypeInv, HandlerTypes
<1>2. QED
  BY <1>1 DEF Serves

LEMMA StateStands ==
    ASSUME Inv, Undisturbed, GameNext, NEW o \in Obj,
           \A l \in Loop : ~Serves(l, o),
           ~(State(o) = "matching" /\ (MatcherDecide \/ MatcherSetGaming))
    PROVE  State(o)' = State(o)
<1>1. ASSUME NEW l \in Loop, addUser(l) PROVE State(o)' = State(o)
  <2>1. PICK p \in Obj :
              /\ ConnOf(p) = hnd[l].conn /\ UserOf(p) = hnd[l].user
              /\ Stands(p) /\ Post(ConnOf(p)) = hnd[l]
              /\ hnd[l].req = "start" /\ hnd[l].pc = "pool"
              /\ State(p) = "online" /\ ~Coming(ConnOf(p)) /\ State(p)' = "matching"
              /\ \A x \in Obj : /\ x # p => State(x)' = State(x)
                                /\ info'[x].points = info[x].points
              /\ \E t \in Tier : /\ t = tierOf(info[p].points)
                                 /\ pool' = [pool EXCEPT ![t] = Append(@, UserOf(p))]
              /\ hnd' = [hnd EXCEPT ![l].pc = "answer", ![l].ok = TRUE]
              /\ mt.pc \in {"awake", "asleep"} /\ mt'.pc \in {"awake", "asleep"}
              /\ matchLock = l /\ matchLock' = NoThread
    BY <1>1, AddUser, ZenonT(30)
  <2>2. hnd[l] # NoHandler /\ hnd[l].pc # "answer"
    BY <2>1 DEF NoHandler
  <2>3. hnd'[l].pc = "answer"
    BY <2>1, Moving
  <2>4. p # o
    BY <2>1, <2>2, <2>3, ServesMoves
  <2>5. QED
    BY <2>1, <2>4
<1>2. ASSUME NEW l \in Loop, removeFromPool(l) PROVE State(o)' = State(o)
  <2>1. PICK p \in Obj :
              /\ ConnOf(p) = hnd[l].conn /\ UserOf(p) = hnd[l].user
              /\ Stands(p) /\ Post(ConnOf(p)) = hnd[l]
              /\ hnd[l].req = "cancel" /\ hnd[l].pc = "pool"
              /\ \A x \in Obj : /\ x # p => State(x)' = State(x)
                                /\ info'[x].points = info[x].points
              /\ \/ /\ State(p) = "matching" /\ State(p)' = "online"
                    /\ \E t \in Tier :
                          /\ t = tierOf(info[p].points)
                          /\ pool' = [pool EXCEPT ![t] = Without(@, UserOf(p))]
                    /\ hnd' = [hnd EXCEPT ![l].pc = "answer", ![l].ok = TRUE]
                 \/ /\ State(p) # "matching" /\ State(p)' = State(p)
                    /\ UNCHANGED pool
                    /\ hnd' = [hnd EXCEPT ![l].pc = "answer", ![l].ok = FALSE]
              /\ mt.pc \in {"awake", "asleep"} /\ UNCHANGED mt
              /\ matchLock = l /\ matchLock' = NoThread
    BY <1>2, RemoveFromPool, ZenonT(30)
  <2>2. hnd[l] # NoHandler /\ hnd[l].pc # "answer"
    BY <2>1 DEF NoHandler
  <2>3. hnd'[l].pc = "answer"
    <3>1. PICK v : hnd' = [hnd EXCEPT ![l].pc = "answer", ![l].ok = v]
      BY <2>1
    <3>2. QED
      BY <3>1, Moving
  <2>4. p # o
    BY <2>1, <2>2, <2>3, ServesMoves
  <2>5. QED
    BY <2>1, <2>4
<1>3. ASSUME NEW l \in Loop, ExitDone(l) PROVE State(o)' = State(o)
  <2>1. PICK p \in Obj :
              /\ ConnOf(p) = hnd[l].conn /\ UserOf(p) = hnd[l].user
              /\ Stands(p) /\ Post(ConnOf(p)) = hnd[l]
              /\ hnd[l].req = "exit" /\ hnd[l].pc = "left"
              /\ State(p) = "gaming" /\ ~Roomed(p) /\ ~Coming(ConnOf(p))
              /\ State(p)' = "online"
              /\ \A x \in Obj : /\ x # p => State(x)' = State(x)
                                /\ info'[x].points = info[x].points
              /\ leaver.user = UserOf(p) /\ leaver' = NoLeaver
              /\ roomLock = l /\ roomLock' = NoThread
              /\ hnd' = [hnd EXCEPT ![l] = NoHandler]
              /\ crashed' = FALSE
    BY <1>3, ExitDoneDoes, ZenonT(30)
  <2>2. hnd[l] # NoHandler
    BY <2>1 DEF NoHandler
  <2>3. p # o
    BY <2>1, <2>2, ServesMoves
  <2>4. QED
    BY <2>1, <2>3
<1>4. ASSUME MatcherDecide, State(o) # "matching" PROVE State(o)' = State(o)
  <2>1. UNCHANGED info \/ \E r \in Obj : /\ State(r) = "matching"
                                         /\ \A x \in Obj : x # r => State(x)' = State(x)
    BY ZenonT(30), <1>4, DecideDoes
  <2>2. UNCHANGED info => State(o)' = State(o)
    BY DEF State
  <2>3. QED
    BY <1>4, <2>1, <2>2
<1>5. ASSUME MatcherSetGaming, State(o) # "matching" PROVE State(o)' = State(o)
  <2>1. \/ UNCHANGED info
        \/ \E p, q \in Obj :
              /\ State(p) = "matching" /\ State(q) = "matching"
              /\ \A r \in Obj :
                    State(r)' = IF r \in {p, q} THEN "gaming" ELSE State(r)
    BY <1>5, SetGamingDoes
  <2>2. UNCHANGED info => State(o)' = State(o)
    BY DEF State
  <2>3. QED
    BY <1>5, <2>1, <2>2
<1>6. QED
  BY <1>1, <1>2, <1>3, <1>4, <1>5, StateWrites

LEMMA RoomedStands ==
    ASSUME Inv, Undisturbed, GameNext, NEW o \in Obj,
           \A l \in Loop : ~Serves(l, o)
    PROVE  Roomed(o)' = Roomed(o) \/ State(o) # "gaming"
<1>0. UserOf(o)' = UserOf(o) /\ UserOf(o) \in User
  BY Objects, Grows
<1>1. UNCHANGED roomOf => Roomed(o)' = Roomed(o)
  BY <1>0 DEF Roomed
<1>2. ASSUME NEW l \in Loop, ExitRoom(l) PROVE Roomed(o)' = Roomed(o)
  <2>1. PICK p \in Obj :
              /\ ConnOf(p) = hnd[l].conn /\ hnd[l].pc = "sender"
              /\ roomOf' = [roomOf EXCEPT ![UserOf(p)] = NoRoom]
              /\ hnd' = [hnd EXCEPT ![l].pc = "left"]
    BY <1>2, ExitRoomDoes
  <2>2. hnd[l] # NoHandler /\ hnd[l].pc # "left"
    BY <2>1 DEF NoHandler
  <2>r. hnd'[l].pc = "left"
    BY <2>1, Moving
  <2>3. p # o
    BY <2>1, <2>2, <2>r, ServesMoves
  <2>4. UserOf(p) # UserOf(o)
    BY <2>3 DEF Inv, GameInv, Accounts, OneObject
  <2>5. roomOf'[UserOf(o)] = roomOf[UserOf(o)]
    BY <2>1, <2>4
  <2>6. QED
    BY <1>0, <2>5 DEF Roomed
<1>3. ASSUME MatcherCreateRoom PROVE Roomed(o)' = Roomed(o) \/ State(o) # "gaming"
  <2>1. /\ mt.pc = "create"
        /\ roomOf' = [roomOf EXCEPT ![mt.u1] = Len(rooms) + 1,
                                    ![mt.u2] = Len(rooms) + 1]
    BY <1>3 DEF MatcherCreateRoom, createRoom, FileBoth
  <2>2. CASE UserOf(o) \in {mt.u1, mt.u2}
    <3>1. PICK p, q \in Obj : Looked(p, q) /\ Paired(p, q)
      BY <2>1, InHandPair
    <3>2. o \in {p, q}
      BY <2>2, <3>1 DEF Looked, Inv, GameInv, Accounts, OneObject
    <3>3. State(o) # "gaming"
      BY <2>1, <3>1, <3>2 DEF Paired
    <3>4. QED
      BY <3>3
  <2>3. CASE UserOf(o) \notin {mt.u1, mt.u2}
    <3>0. roomOf \in [User -> 0..Len(rooms)]
      BY DEF Inv, TypeInv, RoomsTypeOK
    <3>1. roomOf'[UserOf(o)] = roomOf[UserOf(o)]
      BY <1>0, <2>1, <2>3, <3>0
    <3>2. QED
      BY <1>0, <3>1 DEF Roomed
  <2>4. QED
    BY <2>2, <2>3
<1>4. QED
  BY <1>1, <1>2, <1>3, WhoWrites

\* Who asks nothing, is not served and has nothing to hear is asked nothing.
LEMMA AskStays ==
    ASSUME Inv, GameNext, NEW c \in Conn, link'[c] = "up",
           ~AskStart(c), ~AskCancel(c), ~AskInRoom(c),
           \A r \in Request : ~Begin(c, r)
    PROVE  inbox'[c] = inbox[c]
<1>t. inbox \in [Conn -> Request \cup {"none"}] /\ link \in [Conn -> {"new", "up", "down"}]
  BY Ground DEF Inv, TypeInv, ClientTypes, SessionsTypeOK
<1>1. ASSUME NEW d \in Conn, Disconnect(d) PROVE inbox'[c] = inbox[c]
  <2>1. link' = [link EXCEPT ![d] = "down"] /\ inbox' = [inbox EXCEPT ![d] = "none"]
    BY <1>1 DEF Disconnect, removeConn
  <2>2. QED
    BY <1>t, <2>1
<1>2. ASSUME NEW d \in Conn, AskStart(d) \/ AskCancel(d) \/ AskInRoom(d)
      PROVE  inbox'[c] = inbox[c]
  <2>1. \E r : inbox' = [inbox EXCEPT ![d] = r]
    BY <1>2 DEF AskStart, AskCancel, AskInRoom, AskMove, AskChat, AskExit, Ask
  <2>2. QED
    BY <1>2, <1>t, <2>1
<1>3. ASSUME NEW d \in Conn, NEW r \in Request, Begin(d, r)
      PROVE  inbox'[c] = inbox[c]
  <2>1. inbox' = [inbox EXCEPT ![d] = "none"]
    BY <1>3 DEF Begin
  <2>2. QED
    BY <1>3, <1>t, <2>1
<1>4. QED
  BY <1>1, <1>2, <1>3, WhoWrites

LEMMA Untouched ==
    ASSUME Inv, Undisturbed, GameNext, NEW o \in Obj, NEW c \in Conn,
           c = ConnOf(o), link'[c] = "up",
           \A l \in Loop : ~Serves(l, o),
           \A r \in Request : ~Begin(c, r),
           \A l \in Loop : ~(LoginAck(l) /\ io[l].conn = c),
           \A l \in Loop, msg \in News : ~(doPendingFunctor(l) /\ Runs(l, c, msg)),
           ~AskStart(c), ~AskCancel(c), ~AskInRoom(c),
           ~(State(o) = "matching" /\ (MatcherDecide \/ MatcherSetGaming))
    PROVE  Stands(o)'
<1>0. link[c] = "up" /\ Stands(o) /\ c = ConnOf(o)'
  BY Links, Grows DEF Inv, GameInv, Clients
<1>1. client'[c] = client[c]
  <2>1. ASSUME NEW l \in Loop, MatchAck(l), hnd[l].conn = c PROVE FALSE
    <3>1. hnd[l] # NoHandler /\ hnd' = [hnd EXCEPT ![l] = NoHandler]
      BY <2>1, MatchAckDoes
    <3>2. QED
      BY <2>1, <3>1, ServesMoves
  <2>2. QED
    BY <2>1, ViewStep
<1>2. inbox'[c] = inbox[c]
  BY AskStays
<1>3. Post(c)' = Post(c)
  <2>1. Post(ConnOf(o))' = Post(ConnOf(o))
    BY PostStays
  <2>2. QED
    BY <1>0, <2>1 DEF Post
<1>4. State(o)' = State(o)
  BY StateStands
<1>5. Roomed(o)' = Roomed(o) \/ State(o) # "gaming"
  BY RoomedStands
<1>6. Coming(c)' = Coming(c)
  <2>1. ASSUME NEW p \in Obj, ConnOf(p) = c, State(p) = "matching",
               MatcherDecide \/ MatcherSetGaming
        PROVE  FALSE
    BY <2>1 DEF Inv, GameInv, Accounts, OneObject
  <2>2. QED
    BY <1>0, <2>1, ComingStep
<1>7. Stranded => Stranded'
  BY StrandedStays
<1> DEFINE view == client[c]
           ask == inbox[c]
           post == Post(c)
           state == State(o)
           room == Roomed(o)
           coming == Coming(c)
           then == Roomed(o)'
           after == Stranded'
<1>8. Standing(view, ask, post, state, room, coming, Stranded)
  BY <1>0 DEF Stands
<1>9. then = room \/ state # "gaming"
  BY <1>5
<1>10. Standing(view, ask, post, state, then, coming, after)
  <2> HIDE DEF view, ask, post, state, room, coming, then
  <2>1. PICK str : str = Stranded
    OBVIOUS
  <2>2. PICK aft : aft = after
    OBVIOUS
  <2>3. Standing(view, ask, post, state, room, coming, str)
    BY <1>8, <2>1
  <2>4. str => aft
    BY <1>7, <2>1, <2>2
  <2>5. Standing(view, ask, post, state, then, coming, aft)
    BY <1>9, <2>3, <2>4, Unmoved
  <2>6. QED
    BY <2>2, <2>5
<1>11. Standing(client'[c], inbox'[c], Post(c)', State(o)', then, Coming(c)', after)
  BY <1>1, <1>2, <1>3, <1>4, <1>6, <1>10
<1>12. QED
  BY <1>0, <1>11, StandsThen

-----------------------------------------------------------------------------
(* A client that asks, is served or is told something stands somewhere else. *)

LEMMA StandsSame ==
    ASSUME Inv, GameNext, NEW o \in Obj, NEW c \in Conn, c = ConnOf(o),
           State(o)' = State(o), UNCHANGED <<roomOf, mt>>,
           \A x \in News : Queued(c, x)' <=> Queued(c, x),
           Standing(client'[c], inbox'[c], Post(c)', State(o), Roomed(o),
                    Coming(c), Stranded)
    PROVE  Stands(o)'
<1>1. c = ConnOf(o)' /\ UserOf(o)' = UserOf(o)
  BY Grows
<1>2. State(o)' = State(o)
  OBVIOUS
<1>3. Roomed(o)' = Roomed(o)
  BY <1>1 DEF Roomed
<1>4. Coming(c)' = Coming(c)
  BY DEF Coming, Turn, PushTurn, TellTurn, News
<1>5. Stranded' = Stranded
  BY DEF Stranded, Gone
<1>6. Standing(client'[c], inbox'[c], Post(c)', State(o)', Roomed(o)', Coming(c)',
               Stranded')
  BY <1>2, <1>3, <1>4, <1>5
<1>7. QED
  BY <1>1, <1>6, StandsThen

LEMMA LoginStands ==
    ASSUME Inv, GameNext, NEW o \in Obj, NEW c \in Conn, c = ConnOf(o),
           link[c] = "up", NEW l \in Loop, LoginAck(l), io[l].conn = c
    PROVE  Stands(o)'
<1>1. io[l].pc = "reply"
  BY DEF LoginAck, LoginReply
<1>2. client[c] = "out" /\ c \in conns
  BY <1>1, Logins1
<1>3. io[l].user = UserOf(o) /\ UserOf(o) \in User /\ NoUser \notin User
  BY <1>1, Objects, Ground DEF Inv, GameInv, Accounts, LoginKnows
<1>4. /\ UNCHANGED <<info, roomOf, mt, pending, hnd, inbox>>
      /\ Reply(c, "login ok")
  BY <1>3 DEF LoginAck, roomVars
<1>5. client'[c] = "lobby"
  <2>1. client \in [Conn -> {"out", "lobby", "asking", "queued", "leaving", "room",
                             "confused"}]
    BY DEF Inv, TypeInv, ClientTypes
  <2>2. QED
    BY <1>2, <1>4, <2>1 DEF Reply, Write, Heard, MatchAnswer
<1>6. Post(c)' = Post(c) /\ \A x : Queued(c, x)' <=> Queued(c, x)
  BY <1>4 DEF Post, Queued
<1>7. Stands(o)
  BY DEF Inv, GameInv, Clients
<1>8. inbox[c] = "none" /\ Rest(Post(c)) /\ Free(State(o), Coming(c))
  BY <1>2, <1>7 DEF Stands, Standing
<1>9. Standing("lobby", "none", Post(c), State(o), Roomed(o), Coming(c), Stranded)
  BY <1>8 DEF Standing, InLobby, Outside
<1>10. inbox'[c] = "none"
  BY <1>4, <1>8
<1>s. State(o)' = State(o)
  BY <1>4 DEF State
<1>11. QED
  BY <1>4, <1>5, <1>6, <1>9, <1>10, <1>s, StandsSame

LEMMA AskStands ==
    ASSUME Inv, GameNext, NEW o \in Obj, NEW c \in Conn, c = ConnOf(o),
           link[c] = "up", AskStart(c) \/ AskCancel(c) \/ AskInRoom(c)
    PROVE  Stands(o)'
<1>1. /\ UNCHANGED <<info, roomOf, mt, pending, hnd>>
      /\ inbox[c] = "none"
  BY DEF AskStart, AskCancel, AskInRoom, AskMove, AskChat, AskExit, Ask, roomVars
<1>2. Post(c)' = Post(c) /\ \A x : Queued(c, x)' <=> Queued(c, x)
  BY <1>1 DEF Post, Queued
<1>3. Standing(client[c], "none", Post(c), State(o), Roomed(o), Coming(c), Stranded)
  BY <1>1 DEF Inv, GameInv, Clients, Stands
<1>t. /\ client \in [Conn -> {"out", "lobby", "asking", "queued", "leaving", "room",
                             "confused"}]
      /\ inbox \in [Conn -> Request \cup {"none"}]
  BY DEF Inv, TypeInv, ClientTypes
<1>4. \/ client[c] = "lobby" /\ client'[c] = "asking" /\ inbox'[c] = "start"
      \/ client[c] = "queued" /\ client'[c] = "leaving" /\ inbox'[c] = "cancel"
      \/ client[c] = "room" /\ \/ client'[c] = "room" /\ inbox'[c] \in {"chess", "chat"}
                               \/ client'[c] = "lobby" /\ inbox'[c] = "exit"
  BY <1>t DEF AskStart, AskCancel, AskInRoom, AskMove, AskChat, AskExit, Ask
<1> DEFINE post == Post(c)
           state == State(o)
           room == Roomed(o)
           coming == Coming(c)
           stranded == Stranded
           view == client[c]
<1>5. Standing(client'[c], inbox'[c], post, state, room, coming, stranded)
  <2>1. Standing(view, "none", post, state, room, coming, stranded)
    BY <1>3
  <2> HIDE DEF post, state, room, coming, stranded
  <2>2. /\ view = "lobby" =>
                Standing("asking", "start", post, state, room, coming, stranded)
        /\ view = "queued" =>
                Standing("leaving", "cancel", post, state, room, coming, stranded)
        /\ view = "room" =>
                /\ Standing("room", "chess", post, state, room, coming, stranded)
                /\ Standing("room", "chat", post, state, room, coming, stranded)
                /\ Standing("lobby", "exit", post, state, room, coming, stranded)
    BY <2>1, Asks
  <2>3. QED
    BY <1>4, <2>2
<1>6. Standing(client'[c], inbox'[c], Post(c)', State(o), Roomed(o), Coming(c), Stranded)
  BY <1>2, <1>5
<1>s. State(o)' = State(o)
  BY <1>1 DEF State
<1>7. QED
  BY <1>1, <1>2, <1>6, <1>s, StandsSame

LEMMA BeginStands ==
    ASSUME Inv, GameNext, NEW o \in Obj, NEW c \in Conn, c = ConnOf(o),
           link[c] = "up", NEW r \in Request, Begin(c, r)
    PROVE  Stands(o)'
<1>1. UNCHANGED <<info, roomOf, mt, pending, client>>
  BY DEF Begin, roomVars
<1>2. /\ inbox[c] = r /\ inbox' = [inbox EXCEPT ![c] = "none"]
      /\ hnd[LoopOf[c]] = NoHandler
      /\ hnd'[LoopOf[c]].pc = "begin" /\ hnd'[LoopOf[c]].req = r
      /\ hnd'[LoopOf[c]].conn = c
  BY BeginDoes
<1>3. Rest(Post(c)) /\ Post(c)' = hnd'[LoopOf[c]]
  BY <1>2, PostRests DEF Post
<1>4. inbox'[c] = "none"
  BY <1>2 DEF Inv, TypeInv, ClientTypes
<1>5. Standing(client[c], r, Post(c), State(o), Roomed(o), Coming(c), Stranded)
  BY <1>2 DEF Inv, GameInv, Clients, Stands
<1>6. \A x : Queued(c, x)' <=> Queued(c, x)
  BY <1>1 DEF Queued
<1> DEFINE post == Post(c)
           then == Post(c)'
           state == State(o)
           room == Roomed(o)
           coming == Coming(c)
           stranded == Stranded
           view == client[c]
<1>7. Standing(view, "none", then, state, room, coming, stranded)
  <2>1. Standing(view, r, post, state, room, coming, stranded)
    BY <1>5
  <2>2. Rest(post) /\ then.req = r /\ then.pc = "begin"
    BY <1>2, <1>3
  <2> HIDE DEF post, then, state, room, coming, stranded, view
  <2>3. PICK t : t = then
    OBVIOUS
  <2>4. QED
    BY <2>1, <2>2, <2>3, Begins
<1>8. Standing(client'[c], inbox'[c], Post(c)', State(o), Roomed(o), Coming(c), Stranded)
  BY <1>1, <1>4, <1>7
<1>s. State(o)' = State(o)
  BY <1>1 DEF State
<1>9. QED
  BY <1>1, <1>6, <1>8, <1>s, StandsSame

LEMMA NewsStands ==
    ASSUME Inv, GameNext, NEW o \in Obj, NEW c \in Conn, c = ConnOf(o),
           link[c] = "up", NEW l \in Loop, NEW msg \in News,
           doPendingFunctor(l), Runs(l, c, msg)
    PROVE  Stands(o)'
<1>1. /\ UNCHANGED <<info, roomOf, mt, hnd, inbox>> /\ hnd[l] = NoHandler
      /\ client' = Write(client, Head(pending[l]).conn, Head(pending[l]).msg)
  BY DEF doPendingFunctor, roomVars
<1>2. /\ Head(pending[l]) = [conn |-> c, msg |-> msg] /\ LoopOf[c] = l
      /\ Queued(c, msg) /\ ~Turn(c) /\ \A x \in News : ~Queued(c, x)'
  BY DEF Runs
<1>3. client'[c] = Heard(client[c], msg)
  <2>1. client \in [Conn -> {"out", "lobby", "asking", "queued", "leaving", "room",
                             "confused"}]
    BY DEF Inv, TypeInv, ClientTypes
  <2>2. client' = Write(client, c, msg)
    BY <1>1, <1>2
  <2>3. QED
    BY <2>1, <2>2 DEF Write
<1>4. Coming(c) /\ Coming(c)' = FALSE
  <2>1. Turn(c)' = Turn(c)
    BY <1>1 DEF Turn, PushTurn, TellTurn
  <2>2. QED
    BY <1>2, <2>1 DEF Coming, News
<1>5. /\ c = ConnOf(o)' /\ State(o)' = State(o) /\ Roomed(o)' = Roomed(o)
      /\ Post(c)' = Post(c) /\ Stranded' = Stranded /\ inbox'[c] = inbox[c]
  BY <1>1, Grows DEF State, Roomed, Post, Stranded, Gone
<1>6. Rest(Post(c))
  BY <1>1, <1>2, PostRests
<1>7. /\ msg = "matched" => State(o) = "gaming" /\ Roomed(o)
      /\ msg = "match failed" => State(o) = "online" /\ Stranded
  BY <1>2 DEF Inv, GameInv, NewsKnows, NewsTrue
<1> DEFINE post == Post(c)
           state == State(o)
           room == Roomed(o)
           stranded == Stranded
           view == client[c]
           ask == inbox[c]
<1>8. Standing(Heard(view, msg), ask, post, state, room, FALSE, stranded)
  <2>1. Standing(view, ask, post, state, room, TRUE, stranded)
    <3>1. Coming(c) = TRUE
      BY <1>4 DEF Coming, Turn, PushTurn, TellTurn, Queued
    <3>2. Standing(view, ask, post, state, room, Coming(c), stranded)
      BY DEF Inv, GameInv, Clients, Stands
    <3>3. QED
      BY <3>1, <3>2
  <2>2. Rest(post) /\ msg \in {"matched", "match failed"}
    BY <1>6 DEF News
  <2>3. /\ msg = "matched" => state = "gaming" /\ room
        /\ msg = "match failed" => state = "online" /\ stranded
    BY <1>7
  <2> HIDE DEF post, state, room, stranded, view, ask
  <2>4. /\ state = "gaming" /\ room =>
                Standing(Heard(view, "matched"), ask, post, state, room, FALSE,
                         stranded)
        /\ state = "online" /\ stranded =>
                Standing(Heard(view, "match failed"), ask, post, state, room,
                         FALSE, stranded)
    BY <2>1, <2>2, Hears
  <2>5. QED
    BY <2>2, <2>3, <2>4
<1>9. Standing(client'[c], inbox'[c], Post(c)', State(o)', Roomed(o)', Coming(c)',
               Stranded')
  BY <1>3, <1>4, <1>5, <1>8
<1>10. QED
  BY <1>5, <1>9, StandsThen

\* The pool is free: nobody is stranded.
LEMMA LockStands ==
    ASSUME Inv, GameNext, NEW o \in Obj, NEW c \in Conn, c = ConnOf(o),
           link[c] = "up", NEW l \in Loop, LockPool(l), hnd[l].conn = c
    PROVE  Stands(o)'
<1>1. /\ UNCHANGED <<info, roomOf, mt, pending, client, inbox>>
      /\ hnd[l].pc = "begin" /\ hnd[l].req \in {"start", "cancel"}
      /\ matchLock = NoThread
      /\ \E v : hnd' = [hnd EXCEPT ![l].pc = "pool", ![l].obj = v]
  BY DEF LockPool, roomVars
<1>2. ~Stranded
  <2>1. Matcher # NoThread
    BY Ground DEF Inv
  <2>2. mt.pc \in {"awake", "asleep"}
    BY <1>1, <2>1 DEF Inv, GameInv, Handlers, PoolLock
  <2>3. QED
    BY <2>2 DEF Stranded
<1>3. hnd[l] # NoHandler
  BY <1>1 DEF NoHandler
<1>4. PICK v : hnd' = [hnd EXCEPT ![l].pc = "pool", ![l].obj = v]
  BY <1>1
<1>5. /\ hnd'[l].pc = "pool" /\ hnd'[l].req = hnd[l].req
      /\ hnd'[l].conn = hnd[l].conn /\ \A m \in Loop : m # l => hnd'[m] = hnd[m]
  BY <1>4, Moving
<1>6. Post(c) = hnd[l] /\ Post(c)' = hnd'[l]
  BY <1>3, <1>5, Worker, PostMoves
<1>7. \A x : Queued(c, x)' <=> Queued(c, x)
  BY <1>1 DEF Queued
<1> DEFINE post == Post(c)
           then == Post(c)'
           state == State(o)
           room == Roomed(o)
           coming == Coming(c)
           view == client[c]
           ask == inbox[c]
           stranded == Stranded
<1>8. Standing(view, ask, then, state, room, coming, stranded)
  <2>1. Standing(view, ask, post, state, room, coming, stranded)
    BY DEF Inv, GameInv, Clients, Stands
  <2>2. /\ post.req \in {"start", "cancel"} /\ post.pc = "begin"
        /\ then.req = post.req /\ then.pc = "pool"
    BY <1>1, <1>5, <1>6
  <2>0. ~stranded
    BY <1>2
  <2> HIDE DEF post, then, state, room, coming, view, ask, stranded
  <2>3. PICK t : t = then
    OBVIOUS
  <2>4. QED
    BY <2>0, <2>1, <2>2, <2>3, Locks
<1>9. Standing(client'[c], inbox'[c], Post(c)', State(o), Roomed(o), Coming(c), Stranded)
  BY <1>1, <1>8
<1>s. State(o)' = State(o)
  BY <1>1 DEF State
<1>10. QED
  BY <1>1, <1>7, <1>9, <1>s, StandsSame

LEMMA AckStands ==
    ASSUME Inv, GameNext, NEW o \in Obj, NEW c \in Conn, c = ConnOf(o),
           link[c] = "up", NEW l \in Loop, MatchAck(l), hnd[l].conn = c
    PROVE  Stands(o)'
<1>1. UNCHANGED <<info, roomOf, mt, pending, inbox>>
  BY DEF MatchAck, roomVars
<1>2. PICK p \in Obj :
              /\ ConnOf(p) = hnd[l].conn
              /\ hnd[l] # NoHandler
              /\ hnd' = [hnd EXCEPT ![l] = NoHandler]
              /\ Standing(client'[ConnOf(p)], inbox[ConnOf(p)], NoHandler,
                          State(p), Roomed(p), Coming(ConnOf(p)), Stranded)
  BY MatchAckDoes, Zenon
<1>3. p = o
  BY <1>2 DEF Inv, GameInv, Accounts, OneObject
<1>4. Post(c)' = NoHandler
  BY <1>2, Worker, Objects DEF Post, Inv, TypeInv, HandlerTypes
<1>5. \A x : Queued(c, x)' <=> Queued(c, x)
  BY <1>1 DEF Queued
<1>6. Standing(client'[c], inbox[c], NoHandler, State(o), Roomed(o), Coming(c), Stranded)
  BY <1>2, <1>3
<1>7. Standing(client'[c], inbox'[c], Post(c)', State(o), Roomed(o), Coming(c), Stranded)
  BY <1>1, <1>4, <1>6
<1>s. State(o)' = State(o)
  BY <1>1 DEF State
<1>8. QED
  BY <1>1, <1>5, <1>7, <1>s, StandsSame

LEMMA AddStands ==
    ASSUME Inv, GameNext, NEW o \in Obj, NEW c \in Conn, c = ConnOf(o),
           link[c] = "up", NEW l \in Loop, addUser(l), hnd[l].conn = c
    PROVE  Stands(o)'
<1>1. UNCHANGED <<roomOf, pending, client, inbox>>
  BY DEF addUser, Unlock, roomVars
<1>2. PICK p \in Obj :
              /\ ConnOf(p) = hnd[l].conn /\ UserOf(p) = hnd[l].user
              /\ Stands(p) /\ Post(ConnOf(p)) = hnd[l]
              /\ hnd[l].req = "start" /\ hnd[l].pc = "pool"
              /\ State(p) = "online" /\ ~Coming(ConnOf(p)) /\ State(p)' = "matching"
              /\ \A x \in Obj : /\ x # p => State(x)' = State(x)
                                /\ info'[x].points = info[x].points
              /\ \E t \in Tier : /\ t = tierOf(info[p].points)
                                 /\ pool' = [pool EXCEPT ![t] = Append(@, UserOf(p))]
              /\ hnd' = [hnd EXCEPT ![l].pc = "answer", ![l].ok = TRUE]
              /\ mt.pc \in {"awake", "asleep"} /\ mt'.pc \in {"awake", "asleep"}
              /\ matchLock = l /\ matchLock' = NoThread
  BY AddUser, ZenonT(30)
<1>3. p = o
  BY <1>2 DEF Inv, GameInv, Accounts, OneObject
<1>4. hnd[l] # NoHandler
  BY <1>2 DEF NoHandler
<1>5. PICK v : v = TRUE /\ hnd' = [hnd EXCEPT ![l].pc = "answer", ![l].ok = v]
  BY <1>2
<1>6. /\ hnd'[l].pc = "answer" /\ hnd'[l].req = hnd[l].req
      /\ hnd'[l].conn = hnd[l].conn /\ \A m \in Loop : m # l => hnd'[m] = hnd[m]
  <2>1. hnd' = [hnd EXCEPT ![l].pc = "answer", ![l].ok = v]
    BY <1>5
  <2>2. QED
    BY <2>1, Moving
<1>7. hnd'[l].ok = TRUE
  BY <1>5, MovingUser
<1>8. Post(c) = hnd[l] /\ Post(c)' = hnd'[l]
  BY <1>4, <1>6, Worker, PostMoves
<1>9. c = ConnOf(o)' /\ Roomed(o)' = Roomed(o)
  BY <1>1, Grows DEF Roomed
<1>10. Coming(c)' = Coming(c)
  <2>1. ~Turn(c) /\ ~Turn(c)'
    BY <1>2 DEF Turn, PushTurn, TellTurn
  <2>2. \A x : Queued(c, x)' <=> Queued(c, x)
    BY <1>1 DEF Queued
  <2>3. QED
    BY <2>1, <2>2 DEF Coming
<1>11. Stranded' = Stranded
  BY <1>2 DEF Stranded
<1> DEFINE post == Post(c)
           then == Post(c)'
           state == State(o)
           room == Roomed(o)
           coming == Coming(c)
           stranded == Stranded
           view == client[c]
           ask == inbox[c]
<1>12. Standing(view, ask, then, "matching", room, coming, stranded)
  <2>1. Standing(view, ask, post, state, room, coming, stranded)
    BY DEF Inv, GameInv, Clients, Stands
  <2>2. /\ post.req = "start" /\ post.pc = "pool"
        /\ then.req = "start" /\ then.pc = "answer" /\ then.ok = TRUE
    BY <1>2, <1>6, <1>7, <1>8
  <2> HIDE DEF post, then, state, room, coming, view, ask, stranded
  <2>3. PICK t : t = then
    OBVIOUS
  <2>4. QED
    BY <2>1, <2>2, <2>3, Starts
<1>13. Standing(client'[c], inbox'[c], Post(c)', State(o)', Roomed(o)', Coming(c)',
                Stranded')
  BY <1>1, <1>2, <1>3, <1>9, <1>10, <1>11, <1>12
<1>14. QED
  BY <1>9, <1>13, StandsThen

\* Nothing is coming to one that waits while the match thread does.
LEMMA WaitsStill ==
    ASSUME Inv, NEW o \in Obj, State(o) = "matching", mt.pc \in {"awake", "asleep"}
    PROVE  ~Coming(ConnOf(o))
BY DEF Inv, GameInv, NewsKnows, NewsTrue, Coming, Turn, PushTurn, TellTurn

LEMMA RemoveStands ==
    ASSUME Inv, GameNext, NEW o \in Obj, NEW c \in Conn, c = ConnOf(o),
           link[c] = "up", NEW l \in Loop, removeFromPool(l), hnd[l].conn = c
    PROVE  Stands(o)'
<1>1. UNCHANGED <<roomOf, pending, client, inbox>>
  BY DEF removeFromPool, Unlock, roomVars
<1>2. PICK p \in Obj :
              /\ ConnOf(p) = hnd[l].conn /\ UserOf(p) = hnd[l].user
              /\ Stands(p) /\ Post(ConnOf(p)) = hnd[l]
              /\ hnd[l].req = "cancel" /\ hnd[l].pc = "pool"
              /\ \A x \in Obj : /\ x # p => State(x)' = State(x)
                                /\ info'[x].points = info[x].points
              /\ \/ /\ State(p) = "matching" /\ State(p)' = "online"
                    /\ \E t \in Tier :
                          /\ t = tierOf(info[p].points)
                          /\ pool' = [pool EXCEPT ![t] = Without(@, UserOf(p))]
                    /\ hnd' = [hnd EXCEPT ![l].pc = "answer", ![l].ok = TRUE]
                 \/ /\ State(p) # "matching" /\ State(p)' = State(p)
                    /\ UNCHANGED pool
                    /\ hnd' = [hnd EXCEPT ![l].pc = "answer", ![l].ok = FALSE]
              /\ mt.pc \in {"awake", "asleep"} /\ UNCHANGED mt
              /\ matchLock = l /\ matchLock' = NoThread
  BY RemoveFromPool, ZenonT(30)
<1>3. p = o
  BY <1>2 DEF Inv, GameInv, Accounts, OneObject
<1>4. hnd[l] # NoHandler
  BY <1>2 DEF NoHandler
<1>5. PICK v : /\ hnd' = [hnd EXCEPT ![l].pc = "answer", ![l].ok = v]
               /\ \/ v = TRUE /\ State(o) = "matching" /\ State(o)' = "online"
                  \/ v = FALSE /\ State(o) # "matching" /\ State(o)' = State(o)
  BY <1>2, <1>3
<1>6. /\ hnd'[l].pc = "answer" /\ hnd'[l].req = hnd[l].req
      /\ hnd'[l].conn = hnd[l].conn /\ \A m \in Loop : m # l => hnd'[m] = hnd[m]
  <2>1. hnd' = [hnd EXCEPT ![l].pc = "answer", ![l].ok = v]
    BY <1>5
  <2>2. QED
    BY <2>1, Moving
<1>7. hnd'[l].ok = v
  BY <1>5, MovingUser
<1>8. Post(c) = hnd[l] /\ Post(c)' = hnd'[l]
  BY <1>4, <1>6, Worker, PostMoves
<1>9. c = ConnOf(o)' /\ Roomed(o)' = Roomed(o)
  BY <1>1, Grows DEF Roomed
<1>10. Coming(c)' = Coming(c) /\ Stranded' = Stranded
  <2>1. \A x : Queued(c, x)' <=> Queued(c, x)
    BY <1>1 DEF Queued
  <2>2. Coming(c)' <=> Coming(c)
    BY <1>2, <2>1 DEF Coming, Turn, PushTurn, TellTurn
  <2>3. Coming(c)' = Coming(c)
    BY <2>2 DEF Coming
  <2>4. QED
    BY <1>2, <2>3 DEF Stranded, Gone
<1>11. State(o) = "matching" => ~Coming(c)
  BY <1>2, WaitsStill
<1> DEFINE post == Post(c)
           then == Post(c)'
           state == State(o)
           next == State(o)'
           room == Roomed(o)
           coming == Coming(c)
           stranded == Stranded
           view == client[c]
           ask == inbox[c]
<1>12. Standing(view, ask, then, next, room, coming, stranded)
  <2>1. Standing(view, ask, post, state, room, coming, stranded)
    BY DEF Inv, GameInv, Clients, Stands
  <2>2. /\ post.req = "cancel" /\ post.pc = "pool"
        /\ then.req = "cancel" /\ then.pc = "answer" /\ then.ok = v
    BY <1>2, <1>6, <1>7, <1>8
  <2>3. \/ v = TRUE /\ state = "matching" /\ ~coming /\ next = "online"
        \/ v = FALSE /\ state # "matching" /\ next = state
    BY <1>5, <1>11
  <2> HIDE DEF post, then, state, room, coming, view, ask, stranded, next
  <2>4. PICK t : t = then
    OBVIOUS
  <2>5. /\ state = "matching" /\ ~coming /\ t.ok = TRUE =>
                Standing(view, ask, t, "online", room, coming, stranded)
        /\ state # "matching" /\ t.ok = FALSE =>
                Standing(view, ask, t, state, room, coming, stranded)
    BY <2>1, <2>2, <2>4, Cancels
  <2>6. QED
    BY <2>2, <2>3, <2>4, <2>5
<1>13. Standing(client'[c], inbox'[c], Post(c)', State(o)', Roomed(o)', Coming(c)',
                Stranded')
  BY <1>1, <1>9, <1>10, <1>12
<1>14. QED
  BY <1>9, <1>13, StandsThen

LEMMA ExitRoomStands ==
    ASSUME Inv, GameNext, NEW o \in Obj, NEW c \in Conn, c = ConnOf(o),
           link[c] = "up", NEW l \in Loop, ExitRoom(l), hnd[l].conn = c
    PROVE  Stands(o)'
<1>1. UNCHANGED <<info, mt, pending, client, inbox>>
  BY DEF ExitRoom, handlerVars
<1>2. PICK p \in Obj :
              /\ ConnOf(p) = hnd[l].conn
              /\ hnd[l].req = "exit" /\ hnd[l].pc = "sender"
              /\ roomOf' = [roomOf EXCEPT ![UserOf(p)] = NoRoom]
              /\ hnd' = [hnd EXCEPT ![l].pc = "left"]
  BY ExitRoomDoes
<1>3. p = o /\ UserOf(o) \in User
  BY <1>2, Objects DEF Inv, GameInv, Accounts, OneObject
<1>4. hnd[l] # NoHandler
  BY <1>2 DEF NoHandler
<1>5. /\ hnd'[l].pc = "left" /\ hnd'[l].req = hnd[l].req
      /\ hnd'[l].conn = hnd[l].conn /\ \A m \in Loop : m # l => hnd'[m] = hnd[m]
  <2>1. hnd' = [hnd EXCEPT ![l].pc = "left"]
    BY <1>2
  <2>2. QED
    BY <2>1, Moving
<1>6. Post(c) = hnd[l] /\ Post(c)' = hnd'[l]
  BY <1>4, <1>5, Worker, PostMoves
<1>7. c = ConnOf(o)' /\ State(o)' = State(o) /\ Stranded' = Stranded
  BY <1>1, Grows DEF State, Stranded, Gone
<1>8. Roomed(o)' = FALSE
  <2>1. roomOf \in [User -> 0..Len(rooms)] /\ UserOf(o)' = UserOf(o)
    BY Grows DEF Inv, TypeInv, RoomsTypeOK
  <2>2. roomOf'[UserOf(o)] = NoRoom
    BY <1>2, <1>3, <2>1
  <2>3. QED
    BY <2>1, <2>2 DEF Roomed
<1>9. Coming(c)' = Coming(c)
  BY <1>1 DEF Coming, Turn, PushTurn, TellTurn, Queued
<1> DEFINE post == Post(c)
           then == Post(c)'
           state == State(o)
           room == Roomed(o)
           coming == Coming(c)
           stranded == Stranded
           view == client[c]
           ask == inbox[c]
<1>10. Standing(view, ask, then, state, FALSE, coming, stranded)
  <2>1. Standing(view, ask, post, state, room, coming, stranded)
    BY DEF Inv, GameInv, Clients, Stands
  <2>2. /\ post.req = "exit" /\ post.pc = "sender"
        /\ then.req = "exit" /\ then.pc = "left"
    BY <1>2, <1>5, <1>6
  <2> HIDE DEF post, then, state, room, coming, view, ask, stranded
  <2>3. PICK t : t = then
    OBVIOUS
  <2>4. QED
    BY <2>1, <2>2, <2>3, Exits
<1>11. Standing(client'[c], inbox'[c], Post(c)', State(o)', Roomed(o)', Coming(c)',
                Stranded')
  BY <1>1, <1>7, <1>8, <1>9, <1>10
<1>12. QED
  BY <1>7, <1>11, StandsThen

LEMMA ExitDoneStands ==
    ASSUME Inv, Undisturbed, GameNext, NEW o \in Obj, NEW c \in Conn, c = ConnOf(o),
           link[c] = "up", NEW l \in Loop, ExitDone(l), hnd[l].conn = c
    PROVE  Stands(o)'
<1>1. UNCHANGED <<roomOf, mt, pending, client, inbox>>
  BY DEF ExitDone, handlerVars, removeUserDone
<1>2. PICK p \in Obj :
              /\ ConnOf(p) = hnd[l].conn
              /\ hnd[l].req = "exit" /\ hnd[l].pc = "left"
              /\ ~Coming(ConnOf(p)) /\ State(p)' = "online"
              /\ hnd' = [hnd EXCEPT ![l] = NoHandler]
  BY ExitDoneDoes
<1>3. p = o
  BY <1>2 DEF Inv, GameInv, Accounts, OneObject
<1>4. hnd[l] # NoHandler /\ hnd'[l] = NoHandler
      /\ \A m \in Loop : m # l => hnd'[m] = hnd[m]
  BY <1>2 DEF NoHandler, Inv, TypeInv, HandlerTypes
<1>5. Post(c) = hnd[l] /\ Post(c)' = NoHandler
  BY <1>4, Worker, PostMoves
<1>6. c = ConnOf(o)' /\ Roomed(o)' = Roomed(o) /\ Stranded' = Stranded
  BY <1>1, Grows DEF Roomed, Stranded, Gone
<1>7. Coming(c)' = Coming(c)
  BY <1>1 DEF Coming, Turn, PushTurn, TellTurn, Queued
<1> DEFINE post == Post(c)
           state == State(o)
           room == Roomed(o)
           coming == Coming(c)
           stranded == Stranded
           view == client[c]
           ask == inbox[c]
<1>8. Standing(view, ask, NoHandler, "online", room, coming, stranded)
  <2>1. Standing(view, ask, post, state, room, coming, stranded)
    BY DEF Inv, GameInv, Clients, Stands
  <2>2. post.req = "exit" /\ post.pc = "left" /\ ~coming
    BY <1>2, <1>3, <1>5
  <2>3. Rest(NoHandler)
    BY DEF Rest, NoHandler
  <2> HIDE DEF post, state, room, coming, view, ask, stranded
  <2>4. QED
    BY <2>1, <2>2, <2>3, Exits
<1>9. Standing(client'[c], inbox'[c], Post(c)', State(o)', Roomed(o)', Coming(c)',
               Stranded')
  BY <1>1, <1>2, <1>3, <1>5, <1>6, <1>7, <1>8
<1>10. QED
  BY <1>6, <1>9, StandsThen

\* The other handlers of a room say nothing that is news.
LEMMA PlayStands ==
    ASSUME Inv, Undisturbed, GameNext, NEW o \in Obj, NEW c \in Conn, c = ConnOf(o),
           link[c] = "up", NEW l \in Loop, Moves(l), hnd[l].conn = c,
           \/ FindSender(l) /\ GoesOn(l, "sender")
           \/ FindOther(l) /\ GoesOn(l, "other")
           \/ FindPeer(l) /\ GoesOn(l, "peer")
           \/ ChessOn(l) /\ GoesOn(l, hnd'[l].pc)
           \/ LastWord(l) /\ hnd'[l] = NoHandler
    PROVE  Stands(o)'
<1>1. /\ UNCHANGED <<roomOf, mt, inbox>>
      /\ hnd[l].req \in {"chess", "chat", "exit"}
      /\ hnd[l].req = "exit" => hnd[l].pc = "begin" /\ GoesOn(l, "sender")
  BY DEF ChessOn, LastWord, At, handlerVars, roomVars, FindSender, FindOther, FindPeer, handChess, onChat, TellMove, DbWin,
     DbLose, DbUpdate, winGame, loseGame, Score, TellWinner, TellLoser
<1>s. State(o)' = State(o)
  <2>1. CASE UNCHANGED info
    BY <2>1 DEF State
  <2>2. CASE winGame(l) \/ loseGame(l)
    BY <2>2, WinDoes
  <2>3. QED
    BY <2>1, <2>2 DEF ChessOn, LastWord, handlerVars, FindSender, FindOther,
       FindPeer, handChess, onChat, TellMove, DbWin, DbLose, DbUpdate, TellWinner,
       TellLoser
<1>2. UNCHANGED client /\ \A x \in News : Queued(c, x)' <=> Queued(c, x)
  <2>1. CASE UNCHANGED <<client, pending>>
    BY <2>1 DEF Queued
  <2>2. CASE Talks(l)
    BY <2>2, TalkDoes
  <2>3. QED
    BY <2>1, <2>2 DEF ChessOn, LastWord, Talks, FindSender, FindOther, FindPeer,
       handChess, DbWin, DbLose, DbUpdate, winGame, loseGame, Score
<1>3. /\ hnd[l] # NoHandler /\ \A m \in Loop : m # l => hnd'[m] = hnd[m]
      /\ hnd'[l] = NoHandler \/ hnd'[l].conn = hnd[l].conn
  BY DEF Moves, GoesOn
<1>4. Post(c) = hnd[l] /\ Post(c)' = hnd'[l]
  BY <1>3, Worker, PostMoves
<1> DEFINE post == Post(c)
           then == Post(c)'
           state == State(o)
           room == Roomed(o)
           coming == Coming(c)
           stranded == Stranded
           view == client[c]
           ask == inbox[c]
<1>5. \/ post.req = "chess" /\ (Rest(then) \/ (then.req = "chess" /\ then.pc \in Chess))
      \/ post.req = "chat" /\ (Rest(then) \/ (then.req = "chat" /\ then.pc \in Chat))
      \/ /\ post.req = "exit" /\ post.pc \in {"begin", "sender"}
         /\ then.req = "exit" /\ then.pc \in {"begin", "sender"}
  <2>1. hnd'[l] = NoHandler => Rest(hnd'[l])
    BY DEF Rest, NoHandler
  <2>2. \/ hnd'[l] = NoHandler
        \/ hnd'[l].req = hnd[l].req /\ Place(hnd[l].req, hnd'[l].pc)
    BY DEF Moves, GoesOn
  <2>3. hnd[l].req = "exit" => hnd'[l].req = "exit" /\ hnd'[l].pc = "sender"
    BY <1>1 DEF GoesOn
  <2>4. QED
    BY <1>1, <1>4, <2>1, <2>2, <2>3 DEF Place
<1>6. Standing(view, ask, then, state, room, coming, stranded)
  <2>1. Standing(view, ask, post, state, room, coming, stranded)
    BY DEF Inv, GameInv, Clients, Stands
  <2> HIDE DEF post, then, state, room, coming, view, ask, stranded
  <2>2. PICK t : t = then
    OBVIOUS
  <2>3. QED
    BY <1>5, <2>1, <2>2, Plays
<1>7. Standing(client'[c], inbox'[c], Post(c)', State(o), Roomed(o), Coming(c), Stranded)
  BY <1>1, <1>2, <1>6
<1>8. QED
  BY <1>1, <1>2, <1>7, <1>s, StandsSame

\* One of a pair that is told, or made a player, has news coming.
LEMMA MatchedStands ==
    ASSUME Inv, Undisturbed, GameNext, NEW o \in Obj, NEW c \in Conn, c = ConnOf(o),
           link[c] = "up", State(o) = "matching",
           MatcherDecide \/ MatcherSetGaming
    PROVE  Stands(o)'
<1>1. UNCHANGED <<roomOf, pending, client, inbox, hnd>>
  BY DEF MatcherDecide, MatcherSetGaming, restVars, roomVars
<1>2. ASSUME MatcherDecide
      PROVE  /\ State(o)' = "matching" \/ Coming(c)'
             /\ Stranded' <=> Stranded
  <2>1. PICK p, q \in Obj :
              /\ p # q /\ Looked(p, q) /\ ConnOf(p) # ConnOf(q)
              /\ State(p) = "matching" /\ State(q) = "matching"
              /\ mt.pc = "decide"
              /\ mt'.u1 = mt.u1 /\ mt'.u2 = mt.u2 /\ mt'.c1 = mt.c1
              /\ mt'.c2 = mt.c2 /\ mt'.o1 = mt.o1 /\ mt'.o2 = mt.o2
              /\ \/ /\ ~Gone /\ mt'.pc = "create" /\ crashed' = FALSE
                    /\ UNCHANGED info
                 \/ /\ Gone /\ mt'.pc = "tell" /\ crashed' = TRUE
                    /\ UNCHANGED info /\ (Lost(p) \/ Lost(q))
                    /\ (mt.c1 # NoConn => mt.o1 = NoObj)
                    /\ (mt.c1 = NoConn => mt.o2 = NoObj)
                 \/ /\ Gone /\ mt'.pc = "tell" /\ crashed' = FALSE
                    /\ \E r \in {p, q} :
                          /\ r = IF mt.c1 = NoConn THEN q ELSE p
                          /\ ConnOf(r) = IF mt.c1 = NoConn THEN mt.c2 ELSE mt.c1
                          /\ State(r)' = "online"
                          /\ \A s \in Obj :
                                /\ s # r => State(s)' = State(s)
                                /\ info'[s].points = info[s].points
    BY <1>2, DecideDoes, ZenonT(30)
  <2>2. Stranded' <=> Stranded
    BY <2>1 DEF Stranded, Gone
  <2>3. CASE UNCHANGED info
    BY <2>2, <2>3 DEF State
  <2>4. CASE ~UNCHANGED info
    <3>1. PICK r \in Obj :
             /\ mt'.pc = "tell"
             /\ ConnOf(r) = IF mt.c1 = NoConn THEN mt.c2 ELSE mt.c1
             /\ \A s \in Obj : s # r => State(s)' = State(s)
      BY <2>1, <2>4
    <3>2. o = r => TellTurn(c)'
      BY <2>1, <3>1 DEF TellTurn
    <3>3. QED
      BY <2>2, <3>1, <3>2 DEF Coming, Turn
  <2>5. QED
    BY <2>3, <2>4
<1>3. ASSUME MatcherSetGaming
      PROVE  /\ State(o)' = "matching" \/ Coming(c)'
             /\ Stranded' <=> Stranded
  <2>1. PICK p, q \in Obj :
           \/ UNCHANGED <<info, mt>>
           \/ /\ ~Gone /\ mt.c1 = ConnOf(p) /\ mt.c2 = ConnOf(q) /\ mt'.pc = "push1"
              /\ mt'.c1 = mt.c1 /\ mt'.c2 = mt.c2
              /\ \A r \in Obj :
                    State(r)' = IF r \in {p, q} THEN "gaming" ELSE State(r)
    BY ZenonT(30), <1>3, SetGamingDoes
  <2>2. CASE UNCHANGED <<info, mt>>
    BY <2>2 DEF State, Stranded, Gone
  <2>3. CASE ~UNCHANGED <<info, mt>>
    <3>1. Stranded' <=> Stranded
      BY <2>1, <2>3 DEF Stranded
    <3>2. o \in {p, q} => PushTurn(c)'
      BY <2>1, <2>3 DEF PushTurn
    <3>3. QED
      BY <2>1, <2>3, <3>1, <3>2 DEF Coming, Turn
  <2>4. QED
    BY <2>2, <2>3
<1>4. State(o)' = "matching" \/ Coming(c)'
  BY <1>2, <1>3
<1>5. /\ c = ConnOf(o)' /\ Roomed(o)' = Roomed(o) /\ Post(c)' = Post(c)
      /\ Stranded' = Stranded
  BY <1>1, <1>2, <1>3, Grows DEF Roomed, Post, Stranded
<1> DEFINE post == Post(c)
           next == State(o)'
           room == Roomed(o)
           coming == Coming(c)
           after == Coming(c)'
           stranded == Stranded
           view == client[c]
           ask == inbox[c]
<1>6. Standing(view, ask, post, next, room, after, stranded)
  <2>1. Standing(view, ask, post, "matching", room, coming, stranded)
    BY DEF Inv, GameInv, Clients, Stands
  <2>2. next = "matching" \/ after
    BY <1>4
  <2> HIDE DEF post, room, coming, view, ask, stranded, next, after
  <2>3. PICK n : n = next
    OBVIOUS
  <2>4. PICK a : a = after
    OBVIOUS
  <2>5. Standing(view, ask, post, n, room, a, stranded)
    BY <2>1, <2>2, <2>3, <2>4, Matched
  <2>6. QED
    BY <2>3, <2>4, <2>5
<1>7. Standing(client'[c], inbox'[c], Post(c)', State(o)', Roomed(o)', Coming(c)',
               Stranded')
  BY <1>1, <1>5, <1>6
<1>8. QED
  BY <1>5, <1>7, StandsThen

LEMMA ServedStands ==
    ASSUME Inv, Undisturbed, GameNext, NEW o \in Obj, NEW c \in Conn, c = ConnOf(o),
           link[c] = "up", NEW l \in Loop, Serves(l, o)
    PROVE  Stands(o)'
<1>1. hnd[l] # NoHandler /\ hnd[l].conn = c /\ hnd'[l] # hnd[l]
  BY DEF Serves
<1>2. ASSUME NEW d \in Conn, NEW r \in Request, Begin(d, r) PROVE FALSE
  <2>1. hnd[LoopOf[d]] = NoHandler /\ \A m \in Loop : m # LoopOf[d] => hnd'[m] = hnd[m]
    BY <1>2, BeginDoes, Zenon
  <2>2. QED
    BY <1>1, <2>1
<1>3. PICK m \in Loop :
                 /\ Moves(m)
                 /\ \/ LockPool(m) /\ GoesOn(m, "pool")
                    \/ addUser(m) /\ GoesOn(m, "answer")
                    \/ removeFromPool(m) /\ GoesOn(m, "answer")
                    \/ MatchAck(m) /\ hnd'[m] = NoHandler /\ Passes(m)
                    \/ ExitRoom(m) /\ GoesOn(m, "left")
                    \/ ExitDone(m) /\ hnd'[m] = NoHandler
                    \/ FindSender(m) /\ GoesOn(m, "sender") /\ Passes(m)
                    \/ FindOther(m) /\ GoesOn(m, "other") /\ Passes(m)
                    \/ FindPeer(m) /\ GoesOn(m, "peer") /\ Passes(m)
                    \/ ChessOn(m) /\ GoesOn(m, hnd'[m].pc) /\ Passes(m)
                    \/ LastWord(m) /\ hnd'[m] = NoHandler /\ Passes(m)
  BY <1>1, <1>2, HandlerDoes
<1>4. m = l
  BY <1>1, <1>3 DEF Moves
<1>5. CASE LockPool(l)
  BY <1>1, <1>5, LockStands
<1>6. CASE addUser(l)
  BY <1>1, <1>6, AddStands
<1>7. CASE removeFromPool(l)
  BY <1>1, <1>7, RemoveStands
<1>8. CASE MatchAck(l)
  BY <1>1, <1>8, AckStands
<1>9. CASE ExitRoom(l)
  BY <1>1, <1>9, ExitRoomStands
<1>10. CASE ExitDone(l)
  BY <1>1, <1>10, ExitDoneStands
<1>11. CASE \/ FindSender(l) /\ GoesOn(l, "sender")
            \/ FindOther(l) /\ GoesOn(l, "other")
            \/ FindPeer(l) /\ GoesOn(l, "peer")
            \/ ChessOn(l) /\ GoesOn(l, hnd'[l].pc)
            \/ LastWord(l) /\ hnd'[l] = NoHandler
  BY <1>1, <1>3, <1>4, <1>11, PlayStands
<1>12. QED
  BY <1>3, <1>4, <1>5, <1>6, <1>7, <1>8, <1>9, <1>10, <1>11

LEMMA StandsStep ==
    ASSUME Inv, Undisturbed, GameNext, NEW o \in Obj, link'[ConnOf(o)] = "up"
    PROVE  Stands(o)'
<1>c. PICK c \in Conn : c = ConnOf(o) /\ link'[c] = "up" /\ link[c] = "up"
  BY Objects, Links
<1>1. ASSUME NEW l \in Loop, Serves(l, o) PROVE Stands(o)'
  BY <1>c, <1>1, ServedStands
<1>2. ASSUME NEW r \in Request, Begin(c, r) PROVE Stands(o)'
  BY <1>c, <1>2, BeginStands
<1>3. ASSUME NEW l \in Loop, LoginAck(l), io[l].conn = c PROVE Stands(o)'
  BY <1>c, <1>3, LoginStands
<1>4. ASSUME NEW l \in Loop, NEW msg \in News, doPendingFunctor(l), Runs(l, c, msg)
      PROVE  Stands(o)'
  BY <1>c, <1>4, NewsStands
<1>5. ASSUME AskStart(c) \/ AskCancel(c) \/ AskInRoom(c) PROVE Stands(o)'
  BY <1>c, <1>5, AskStands
<1>6. ASSUME State(o) = "matching", MatcherDecide \/ MatcherSetGaming
      PROVE  Stands(o)'
  BY <1>c, <1>6, MatchedStands
<1>7. QED
  BY <1>c, <1>1, <1>2, <1>3, <1>4, <1>5, <1>6, Untouched

\* A client that has just been logged in, and not been told yet.
LEMMA NewcomerStands ==
    ASSUME Inv, GameNext, NEW o \in Obj', NEW l \in Loop, GameLoginAdd(l),
           NEW c, c = io[l].conn, ConnOf(o)' = c, State(o)' = "online",
           \A p \in Obj : ConnOf(p) # c
    PROVE  client'[c] = "out" /\ Stands(o)'
<1>1. io[l].pc = "add"
  BY DEF GameLoginAdd, LoginAdd, addOnlineUser
<1>2. /\ c \in Conn /\ LoopOf[c] = l /\ client[c] = "out" /\ hnd[l] = NoHandler
      /\ link[c] = "up"
  BY <1>1, Logins1
<1>3. UNCHANGED <<mt, pending, client, inbox, hnd>>
  BY DEF GameLoginAdd, LoginAdd
<1>4. inbox[c] = "none"
  BY <1>2 DEF Inv, GameInv, Accounts, OutKnows
<1>5. ~Coming(c)
  <2>1. \A x \in News : ~Queued(c, x)
    BY <1>2, QueuedNews
  <2>2. ~Turn(c)
    BY <1>2, TurnOf
  <2>3. QED
    BY <2>1, <2>2 DEF Coming, News
<1>6. Coming(c)' = FALSE
  BY <1>3, <1>5 DEF Coming, Turn, PushTurn, TellTurn, Queued
<1>7. Post(c)' = NoHandler
  BY <1>2, <1>3 DEF Post
<1> DEFINE room == Roomed(o)'
           after == Stranded'
           coming == Coming(c)'
<1>8. Standing("out", "none", NoHandler, "online", room, coming, after)
  <2>1. Rest(NoHandler) /\ ~coming
    BY <1>6 DEF Rest, NoHandler
  <2> HIDE DEF room, after, coming
  <2>2. QED
    BY <2>1 DEF Standing, Free
<1>9. client'[c] = "out" /\ inbox'[c] = "none"
  BY <1>2, <1>3, <1>4
<1>10. Standing(client'[c], inbox'[c], Post(c)', State(o)', Roomed(o)', Coming(c)',
                Stranded')
  BY <1>7, <1>8, <1>9
<1>11. Stands(o)'
  BY <1>10, StandsThen
<1>12. QED
  BY <1>9, <1>11

\* Who believes to be in a room is in one, also after hanging up.
LEMMA RoomBelieved ==
    ASSUME Inv, Undisturbed, GameNext, NEW o \in Obj, client'[ConnOf(o)] = "room"
    PROVE  State(o)' = "gaming" /\ Roomed(o)'
<1>c. PICK c \in Conn : c = ConnOf(o) /\ c = ConnOf(o)'
  BY Objects, Grows
<1>1. CASE link'[c] = "up"
  <2>1. Stands(o)'
    BY <1>c, <1>1, StandsStep
  <2> DEFINE view == client'[c]
             ask == inbox'[c]
             post == Post(c)'
             state == State(o)'
             room == Roomed(o)'
             coming == Coming(c)'
             stranded == Stranded'
  <2>2. Standing(view, ask, post, state, room, coming, stranded) /\ view = "room"
    BY <1>c, <2>1 DEF Stands
  <2> HIDE DEF view, ask, post, state, room, coming, stranded
  <2>3. state = "gaming" /\ room
    BY <2>2, Unmoved
  <2>4. QED
    BY <2>3 DEF state, room
<1>2. CASE link'[c] # "up"
  <2>1. client'[c] = client[c]
    BY <1>2, ViewStep
  <2>2. State(o) = "gaming" /\ Roomed(o)
    BY <1>c, <2>1 DEF Inv, GameInv, Clients
  <2>3. \A l \in Loop : ~Serves(l, o)
    BY <1>c, <1>2, WorkingFrame DEF Serves
  <2>4. State(o)' = State(o)
    BY <2>2, <2>3, StateStands
  <2>5. Roomed(o)' = Roomed(o)
    BY <2>2, <2>3, RoomedStands
  <2>6. QED
    BY <2>2, <2>4, <2>5
<1>3. QED
  BY <1>1, <1>2

LEMMA ClientsStep ==
    ASSUME Inv, Undisturbed, GameNext
    PROVE  Clients'
<1>1. ASSUME NEW o \in Obj', link'[ConnOf(o)'] = "up" PROVE Stands(o)'
  <2>1. CASE o \in Obj /\ ConnOf(o)' = ConnOf(o)
    BY <1>1, <2>1, StandsStep
  <2>2. ASSUME NEW l \in Loop, GameLoginAdd(l), ConnOf(o)' = io[l].conn,
               State(o)' = "online", \A p \in Obj : ConnOf(p) # io[l].conn
        PROVE  Stands(o)'
    BY <2>2, NewcomerStands
  <2>3. QED
    BY <2>1, <2>2, ObjectsThen
<1>2. ASSUME NEW o \in Obj', client'[ConnOf(o)'] = "room"
      PROVE  State(o)' = "gaming" /\ Roomed(o)'
  <2>1. CASE o \in Obj /\ ConnOf(o)' = ConnOf(o)
    BY <1>2, <2>1, RoomBelieved
  <2>2. ASSUME NEW l \in Loop, GameLoginAdd(l), ConnOf(o)' = io[l].conn,
               State(o)' = "online", \A p \in Obj : ConnOf(p) # io[l].conn
        PROVE  FALSE
    <3>1. client'[ConnOf(o)'] = "out"
      BY <2>2, NewcomerStands
    <3>2. QED
      BY <1>2, <3>1
  <2>3. QED
    BY <2>1, <2>2, ObjectsThen
<1>3. ASSUME NEW c \in Conn, client'[c] = "confused" PROVE FALSE
  <2>1. TypeInv'
    BY Grows
  <2>2. Owned(c)'
    BY <1>3, <2>1 DEF TypeInv, ClientTypes
  <2>3. PICK o \in Obj' : ConnOf(o)' = c
    BY <2>2 DEF Owned, ConnOf
  <2>4. link'[c] = "up" => FALSE
    <3>1. SUFFICES ASSUME link'[c] = "up" PROVE FALSE
      OBVIOUS
    <3>2. Stands(o)'
      BY <1>1, <2>3, <3>1
    <3> DEFINE view == client'[c]
               ask == inbox'[c]
               post == Post(c)'
               state == State(o)'
               room == Roomed(o)'
               coming == Coming(c)'
               stranded == Stranded'
    <3>3. Standing(view, ask, post, state, room, coming, stranded)
      BY <2>3, <3>2 DEF Stands
    <3> HIDE DEF view, ask, post, state, room, coming, stranded
    <3>4. view # "confused"
      BY <3>3, Unmoved
    <3>5. QED
      BY <1>3, <3>4 DEF view
  <2>5. client'[c] = client[c]
    BY <2>4, ViewStep
  <2>6. QED
    BY <1>3, <2>5 DEF Inv, GameInv, Clients
<1>4. QED
  BY <1>1, <1>2, <1>3 DEF Clients

-----------------------------------------------------------------------------
LEMMA GameInvInit ==
    ASSUME Undisturbed
    PROVE  GameInit => Inv
<1> SUFFICES ASSUME GameInit PROVE Inv
  OBVIOUS
<1>1. TypeInv
  BY TypeInit
<1>2. SessionsInit /\ RoomsInit /\ MatchInit
  BY DEF GameInit, Init
<1>3. /\ heap = <<>> /\ conns = {} /\ io = [l \in Loop |-> Idle]
      /\ link = [c \in Conn |-> "new"]
  BY <1>2 DEF SessionsInit
<1>4. Obj = {}
  BY <1>3 DEF Obj
<1>5. Accounts
  <2>1. ExclusiveInv
    BY <1>2, ExclusiveInit
  <2>2. /\ \A l \in Loop : LoginKnows(l)
        /\ \A c \in Conn : OutKnows(c)
        /\ \A c \in Conn : c \in conns <=> link[c] = "up"
    BY <1>2, <1>3, <1>4 DEF LoginKnows, OutKnows, Idle, MatchInit
  <2>3. QED
    BY <1>4, <2>1, <2>2 DEF Accounts, OneObject, Undisturbed
<1>6. Handlers
  <2>1. \A l \in Loop : hnd[l] = NoHandler /\ hnd[l].pc = "none"
    BY <1>2 DEF MatchInit, NoHandler
  <2>2. /\ matchLock = NoThread /\ mt.pc = "awake" /\ roomLock = NoThread
        /\ leaver = NoLeaver /\ \A c \in Conn : inbox[c] = "none"
    BY <1>2 DEF MatchInit, RoomsInit, MatcherStart
  <2>3. NoThread \notin Loop /\ Matcher # NoThread
    BY <1>1, Ground
  <2>4. QED
    BY <2>1, <2>2, <2>3 DEF Handlers, HandlerKnows, PoolLock, RoomLock
<1>7. Queue
  <2>1. mt.pc = "awake" /\ \A t \in Tier : Len(pool[t]) = 0
    BY <1>2 DEF MatchInit, MatcherStart
  <2>2. QED
    BY <1>4, <2>1 DEF Queue, PoolKnows, MatchingKnows, MatcherKnows
<1>8. RoomKnows
  BY <1>2, <1>4 DEF RoomKnows, RoomsInit
<1>9. NewsKnows
  <2>1. \A l \in Loop : Len(pending[l]) = 0
    BY <1>2 DEF MatchInit
  <2>2. QED
    BY <1>4, <2>1 DEF NewsKnows
<1>10. Clients
  BY <1>2, <1>4 DEF Clients, MatchInit
<1>11. PointsInv
  BY PointsInit DEF Undisturbed
<1>12. QED
  BY <1>1, <1>5, <1>6, <1>7, <1>8, <1>9, <1>10, <1>11 DEF Inv, GameInv

LEMMA GameInvStep ==
    ASSUME Undisturbed
    PROVE  Inv /\ [GameNext]_allVars => Inv'
<1>1. ASSUME Inv, GameNext PROVE Inv'
  <2>1. TypeInv' /\ PointsInv'
    BY <1>1, Grows, PointsStep DEF Inv, Undisturbed
  <2>2. QED
    BY <1>1, <2>1, AccountsStep, HandlersStep, QueueStep, RoomKnowsStep,
       NewsKnowsStep, ClientsStep DEF Inv, GameInv
<1>2. ASSUME Inv, UNCHANGED allVars PROVE Inv'
  <2> USE <1>2 DEF allVars, sessionVars, roomVars, matchVars, gameVars
  <2>1. TypeInv' /\ PointsInv'
    BY TypeStep, PointsStep DEF Inv, Undisturbed
  <2>2. Accounts'
    <3>1. ExclusiveInv'
      <4>1. OneToOne'
        BY DEF Inv, GameInv, Accounts, ExclusiveInv, OneToOne
      <4>2. CloseRemovesPlayer'
        <5>1. CloseRemovesPlayer
          BY DEF Inv, GameInv, Accounts, ExclusiveInv
        <5>2. QED
          BY <5>1 DEF CloseRemovesPlayer, Closing
      <4>3. \A l \in Loop : ExclusiveCallback(l)'
        BY DEF Inv, GameInv, Accounts, ExclusiveInv, ExclusiveCallback
      <4>4. QED
        BY <4>1, <4>2, <4>3 DEF ExclusiveInv
    <3>2. QED
      BY <3>1 DEF Inv, GameInv, Accounts, OneObject, LoginKnows, OutKnows,
         ObjectKnows, Obj, UserOf, ConnOf
  <2>3. Handlers'
    BY DEF Inv, GameInv, Handlers, HandlerKnows, Working, PoolLock, RoomLock, Obj,
       UserOf, ConnOf
  <2>o. Obj' = Obj /\ Gone' = Gone /\ Stranded' = Stranded
    BY DEF Obj, Gone, Stranded
  <2>p. \A o \in Obj : /\ UserOf(o)' = UserOf(o) /\ ConnOf(o)' = ConnOf(o)
                        /\ State(o)' = State(o) /\ Roomed(o)' = Roomed(o)
                        /\ (Lost(o)' <=> Lost(o))
    BY DEF UserOf, ConnOf, State, Roomed, Lost
  <2>q. \A u : (Waits(u)' <=> Waits(u)) /\ (Held(u)' <=> Held(u))
    BY DEF Waits, Held
  <2>4. Queue'
    <3>1. PoolKnows' /\ MatchingKnows'
      BY <2>o, <2>p, <2>q DEF Inv, GameInv, Queue, PoolKnows, MatchingKnows
    <3>2. ASSUME NEW p \in Obj, NEW q \in Obj, Looked(p, q), Paired(p, q)
          PROVE  Looked(p, q)' /\ Paired(p, q)'
      <4>1. Looked(p, q)'
        BY <2>p, <3>2 DEF Looked, FoundConn, FoundObj
      <4>2. Paired(p, q)'
        BY <2>o, <2>p, <3>2 DEF Paired, Players
      <4>3. QED
        BY <4>1, <4>2
    <3>3. MatcherKnows'
      BY <2>o, <3>2 DEF Inv, GameInv, Queue, MatcherKnows
    <3>4. QED
      BY <3>1, <3>3 DEF Queue
  <2>5. RoomKnows'
    BY <2>o, <2>p, <2>q DEF Inv, GameInv, RoomKnows, Players
  <2>r. \A c : /\ (Turn(c)' <=> Turn(c)) /\ (PushTurn(c)' <=> PushTurn(c))
               /\ \A x : Queued(c, x)' <=> Queued(c, x)
    BY DEF Turn, PushTurn, TellTurn, Queued
  <2>6. NewsKnows'
    <3>1. \A l \in Loop : \A i \in 1..Len(pending'[l]) : OneNews(l, i)'
      <4>1. \A l \in Loop : \A i \in 1..Len(pending[l]) : OneNews(l, i)
        BY DEF Inv, GameInv, NewsKnows
      <4>2. ASSUME NEW l \in Loop, NEW i \in 1..Len(pending[l]) PROVE OneNews(l, i)'
        <5>1. OneNews(l, i)
          BY <4>1
        <5>2. QED
          BY <2>r, <5>1 DEF OneNews
      <4>3. QED
        BY <4>2
    <3>2. ASSUME NEW o \in Obj PROVE NewsTrue(o)'
      <4>1. NewsTrue(o)
        BY DEF Inv, GameInv, NewsKnows
      <4>2. QED
        BY <2>o, <2>p, <2>r, <4>1 DEF NewsTrue
    <3>3. QED
      BY <2>o, <3>1, <3>2 DEF NewsKnows
  <2>7. Clients'
    <3>1. ASSUME NEW o \in Obj, link[ConnOf(o)] = "up" PROVE Stands(o)'
      <4>1. PICK c : c = ConnOf(o) /\ c = ConnOf(o)'
        BY <2>p
      <4>2. Coming(c)' = Coming(c) /\ Post(c)' = Post(c)
        BY <2>r DEF Coming, Post
      <4>3. Standing(client[c], inbox[c], Post(c), State(o), Roomed(o), Coming(c),
                     Stranded)
        BY <3>1, <4>1 DEF Inv, GameInv, Clients, Stands
      <4>4. Standing(client'[c], inbox'[c], Post(c)', State(o)', Roomed(o)', Coming(c)',
                     Stranded')
        BY <2>o, <2>p, <4>2, <4>3
      <4>5. QED
        BY <4>1, <4>4, StandsThen
    <3>2. QED
      BY <2>o, <2>p, <3>1 DEF Inv, GameInv, Clients
  <2>8. QED
    BY <2>1, <2>2, <2>3, <2>4, <2>5, <2>6, <2>7 DEF Inv, GameInv
<1>3. QED
  BY <1>1, <1>2

-----------------------------------------------------------------------------
(* What the invariant says of the properties.                              *)

\* The object of a user that is online.
LEMMA OnlineUser ==
    ASSUME Inv, NEW u \in User, Online(u)
    PROVE  \E o \in Obj : /\ o = userObj[u] /\ UserOf(o) = u /\ ~Lost(o)
                          /\ userConn[u] = ConnOf(o)
<1>1. /\ SessionsTypeOK /\ OnlineTogether
      /\ \A v \in User : userObj[v] \in 0..Len(heap)
      /\ Len(heap) \in Nat
  BY Ground DEF Inv
<1>2. userObj[u] # NoObj /\ userObj[u] \in Obj /\ UserOf(userObj[u]) = u
  <2>1. userObj[u] # NoObj /\ heap[userObj[u]] = [user |-> u, conn |-> userConn[u]]
    BY <1>1 DEF OnlineTogether
  <2>2. userObj[u] \in Obj
    BY <1>1, <2>1 DEF Obj, NoObj
  <2>3. QED
    BY <2>1, <2>2 DEF UserOf
<1>3. ~Lost(userObj[u])
  BY <1>2 DEF Lost
<1>4. QED
  BY <1>2, <1>3, Session

LEMMA InPoolWaits ==
    ASSUME Inv, NEW u
    PROVE  /\ InPool(u) <=> Waits(u)
           /\ \A e \in Entries(u) : \E t \in Tier : \E i \in 1..Len(pool[t]) :
                 pool[t][i] = u /\ e = <<t, i>>
<1>1. \A t \in Tier : DOMAIN pool[t] = 1..Len(pool[t])
  BY DEF Inv, TypeInv, MatcherTypes, Tier
<1>2. \A t \in Tier : \A i \in 1..Len(pool[t]) :
          pool[t][i] = u => <<t, i>> \in Entries(u)
  BY <1>1 DEF Entries
<1>3. \A e \in Entries(u) : \E t \in Tier : \E i \in 1..Len(pool[t]) :
                 pool[t][i] = u /\ e = <<t, i>>
  BY <1>1 DEF Entries
<1>4. QED
  BY <1>2, <1>3 DEF InPool, Waits

LEMMA MatchingIsQueuedHolds == Inv => MatchingIsQueued
<1> SUFFICES ASSUME Inv, NEW u \in User, Online(u)
             PROVE  info[userObj[u]].state = "matching" <=> InPool(u) \/ InHand(u)
  BY DEF MatchingIsQueued
<1>1. PICK o \in Obj : o = userObj[u] /\ UserOf(o) = u /\ ~Lost(o)
  BY OnlineUser
<1>2. \A p \in Obj : UserOf(p) = u => p = o
  BY <1>1 DEF Inv, GameInv, Accounts, OneObject
<1>3. ASSUME InPool(u) PROVE State(o) = "matching"
  <2>1. PICK p \in Obj : UserOf(p) = u /\ State(p) = "matching"
    BY <1>3, InPoolWaits DEF Waits, Inv, GameInv, Queue, PoolKnows
  <2>2. QED
    BY <1>2, <2>1
<1>4. ASSUME InHand(u) PROVE State(o) = "matching"
  <2>1. /\ u \in {mt.u1, mt.u2}
        /\ mt.pc \in Taken \/ (mt.pc \in {"create", "gaming"} /\ ~Gone)
    BY <1>4 DEF InHand, Taken, Gone
  <2>2. PICK p, q \in Obj : Looked(p, q) /\ Paired(p, q)
    BY <2>1, InHandPair DEF Taken
  <2>3. QED
    BY <1>2, <2>1, <2>2 DEF Looked, Paired
<1>5. ASSUME State(o) = "matching", ~InPool(u) PROVE InHand(u)
  <2>1. Held(u)
    BY <1>1, <1>5, InPoolWaits DEF Inv, GameInv, Queue, MatchingKnows
  <2>2. CASE mt.pc \in Taken
    BY <2>1, <2>2 DEF InHand, Held, Taken
  <2>3. CASE mt.pc \in {"tell", "create", "gaming"}
    <3>1. PICK p, q \in Obj : Looked(p, q) /\ Paired(p, q)
      BY <2>3, InHandPair
    <3>2. o = p \/ o = q
      BY <1>2, <2>1, <3>1 DEF Held, Looked
    <3>3. /\ mt.c1 = ConnOf(p) \/ (mt.c1 = NoConn /\ Lost(p))
          /\ mt.c2 = ConnOf(q) \/ (mt.c2 = NoConn /\ Lost(q))
          /\ (mt.o1 = p /\ mt.c1 = ConnOf(p)) \/ (mt.o1 = NoObj /\ Lost(p))
          /\ (mt.o2 = q /\ mt.c2 = ConnOf(q)) \/ (mt.o2 = NoObj /\ Lost(q))
          /\ ConnOf(p) # NoConn /\ ConnOf(q) # NoConn /\ p # NoObj /\ q # NoObj
      BY <2>3, <3>1, Found
    <3>4. ~Gone
      <4>1. SUFFICES ASSUME Gone PROVE FALSE
        OBVIOUS
      <4>2. CASE o = p
        BY <1>1, <1>5, <2>3, <3>1, <3>3, <4>1, <4>2 DEF Paired
      <4>3. CASE o = q
        BY <1>1, <1>5, <2>3, <3>1, <3>3, <4>1, <4>3 DEF Paired, Gone
      <4>4. QED
        BY <3>2, <4>2, <4>3
    <3>5. mt.pc # "tell"
      BY <3>1, <3>4 DEF Paired
    <3>6. QED
      BY <2>1, <2>3, <3>4, <3>5 DEF InHand, Held, Gone
  <2>4. QED
    BY <2>1, <2>2, <2>3 DEF Held
<1>6. QED
  BY <1>1, <1>3, <1>4, <1>5 DEF State

LEMMA GamingHasRoomHolds == Inv => GamingHasRoom
<1> SUFFICES ASSUME Inv, NEW u \in User, Online(u), leaver.user # u
             PROVE  LET gaming == info[userObj[u]].state = "gaming"
                    IN  /\ gaming => roomOf[u] # NoRoom
                        /\ roomOf[u] # NoRoom => gaming \/ mt.pc = "gaming"
  BY DEF GamingHasRoom
<1>1. PICK o \in Obj : o = userObj[u] /\ UserOf(o) = u
  BY OnlineUser
<1>2. /\ State(o) = "gaming" => Roomed(o)
      /\ Roomed(o) => State(o) = "gaming" \/ mt.pc = "gaming"
  BY <1>1 DEF Inv, GameInv, RoomKnows
<1>3. QED
  BY <1>1, <1>2 DEF State, Roomed

LEMMA StartAcceptedHolds == Inv => StartAccepted
<1> SUFFICES ASSUME Inv, NEW l \in Loop, At(l, {"start"}, "answer") PROVE hnd[l].ok
  BY DEF StartAccepted
<1>1. hnd[l].req = "start" /\ hnd[l].pc = "answer" /\ hnd[l] # NoHandler
  BY DEF At, NoHandler
<1>2. PICK o \in Obj : ConnOf(o) = hnd[l].conn /\ Stands(o)
  BY <1>1, Worker
<1>3. Post(ConnOf(o)) = hnd[l]
  BY <1>1, <1>2, Worker
<1>4. QED
  BY <1>1, <1>2, <1>3 DEF Stands, Standing, InLobby, InAsking, InLeaving,
     Outside, InGame, TooLate, Rest, Chess, Chat

LEMMA ToldMeansRoomHolds == Inv => ToldMeansRoom
<1> SUFFICES ASSUME Inv, NEW c \in Conn, NEW u \in User,
                    client[c] = "room", userConn[u] = c
             PROVE  /\ roomOf[u] # NoRoom
                    /\ \A p \in Players(roomOf[u]) :
                          Online(p) /\ roomOf[p] = roomOf[u] =>
                             p = leaver.user \/ info[userObj[p]].state = "gaming"
  BY DEF ToldMeansRoom
<1>1. Online(u)
  BY Ground DEF Inv, Online, OnlineTogether
<1>2. PICK o \in Obj : UserOf(o) = u /\ ConnOf(o) = c
  BY <1>1, OnlineUser
<1>3. State(o) = "gaming" /\ Roomed(o)
  BY <1>2 DEF Inv, GameInv, Clients
<1>4. roomOf[u] # NoRoom /\ u \in Players(roomOf[u])
  BY <1>2, <1>3 DEF Roomed, Inv, GameInv, RoomKnows
<1>5. ASSUME NEW v \in Players(roomOf[u]), Online(v), roomOf[v] = roomOf[u]
      PROVE  info[userObj[v]].state = "gaming"
  <2>1. v \in User
    <3>1. rooms \in Seq(RoomEntry) /\ roomOf[u] \in 1..Len(rooms)
      BY <1>4, Ground DEF Inv, TypeInv, RoomsTypeOK, RoomEntry, NoRoom
    <3>2. rooms[roomOf[u]] \in RoomEntry
      BY <3>1, ElementOfSeq
    <3>3. QED
      BY <1>5, <3>2 DEF Players, RoomEntry
  <2>2. PICK r \in Obj : r = userObj[v] /\ UserOf(r) = v
    BY <1>5, <2>1, OnlineUser
  <2>3. Roomed(r)
    BY <1>4, <1>5, <2>2 DEF Roomed
  <2>4. ~(mt.pc = "gaming" /\ Held(v))
    <3>1. SUFFICES ASSUME mt.pc = "gaming", v \in {mt.u1, mt.u2} PROVE FALSE
      BY DEF Held
    <3>2. PICK p, q \in Obj : Looked(p, q) /\ Paired(p, q)
      BY <3>1, InHandPair
    <3>3. /\ roomOf[mt.u1] = Len(rooms) /\ roomOf[mt.u2] = Len(rooms)
          /\ Players(Len(rooms)) = {mt.u1, mt.u2}
      BY <3>1, <3>2 DEF Paired
    <3>4. u \in {mt.u1, mt.u2}
      BY <1>4, <1>5, <3>1, <3>3
    <3>5. o = p \/ o = q
      BY <1>2, <3>2, <3>4 DEF Looked, Inv, GameInv, Accounts, OneObject
    <3>6. State(p) # "gaming" /\ State(q) # "gaming"
      BY <3>1, <3>2 DEF Paired
    <3>7. QED
      BY <1>3, <3>5, <3>6
  <2>5. State(r) = "gaming"
    BY <2>2, <2>3, <2>4 DEF Inv, GameInv, RoomKnows
  <2>6. QED
    BY <2>2, <2>5 DEF State
<1>6. QED
  BY <1>4, <1>5

-----------------------------------------------------------------------------
\* The invariant is kept by every step of the server, the match thread and the
\* clients.
THEOREM GameIsSound ==
    ASSUME Undisturbed
    PROVE  GameSpec => []GameInv
<1>1. Inv /\ [GameNext]_allVars => Inv'
  BY GameInvStep
<1>2. Inv => GameInv
  BY DEF Inv
<1>3. QED
  BY <1>1, <1>2, GameInvInit, PTL DEF GameSpec

\* Undisturbed, an online user is MATCHING exactly while it waits in the pool or
\* the match thread has it in hand.
THEOREM MatchingMeansQueued ==
    ASSUME Undisturbed
    PROVE  GameSpec => []MatchingIsQueued
BY GameInvInit, GameInvStep, MatchingIsQueuedHolds, PTL DEF GameSpec

\* Undisturbed, who is GAMING has a room and who has a room is GAMING, but for
\* the moment it leaves and the moment the room is made.
THEOREM GamingMeansRoom ==
    ASSUME Undisturbed
    PROVE  GameSpec => []GamingHasRoom
BY GameInvInit, GameInvStep, GamingHasRoomHolds, PTL DEF GameSpec

\* Undisturbed, a client that asks for a match from the lobby gets into the
\* pool: its exit, cancel or lost match left the server ready for the next one.
THEOREM StartsAreAccepted ==
    ASSUME Undisturbed
    PROVE  GameSpec => []StartAccepted
BY GameInvInit, GameInvStep, StartAcceptedHolds, PTL DEF GameSpec

\* Undisturbed, no client hears what it did not wait for: answers written by the
\* loop and pushes queued by the match thread never cross.
THEOREM NobodyConfused ==
    ASSUME Undisturbed
    PROVE  GameSpec => []ClientsNotConfused
<1>1. Inv => ClientsNotConfused
  BY DEF Inv, GameInv, Clients, ClientsNotConfused
<1>2. QED
  BY <1>1, GameInvInit, GameInvStep, PTL DEF GameSpec

\* Undisturbed, a client that was told of its match has a room, whose players
\* are GAMING.
THEOREM ToldHasRoom ==
    ASSUME Undisturbed
    PROVE  GameSpec => []ToldMeansRoom
BY GameInvInit, GameInvStep, ToldMeansRoomHolds, PTL DEF GameSpec
=============================================================================
