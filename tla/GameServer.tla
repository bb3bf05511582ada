----------------------------- MODULE GameServer -----------------------------
(***************************************************************************)
(* The whole game: Matchmaking plus GameRoomHandler (moves, chat, leaving  *)
(* a room) and the points, which the database and the UserInfo objects     *)
(* both keep.                                                              *)
(*                                                                         *)
(* The board is GameRoomInfo's business: here a move of a user that is in  *)
(* a room wins or does not.  MaxWins bounds the winning moves.             *)
(*                                                                         *)
(* setUserState, winGame and loseGame of UserManager search m_UserId2User  *)
(* without its mutex.  While a writer is inside the maps such a search has *)
(* undefined behaviour: it finds the user, misses it or crashes.  RaceMay  *)
(* says which of the two bad outcomes a run lets happen.                   *)
(***************************************************************************)
EXTENDS Matchmaking

CONSTANTS
    PointWidth,  \* points are unsigned: 2^32 values in the code
    DbMay,       \* what a call of UserDB may do besides its work: an UPDATE
                 \* may "fail" (its error is only logged), a "null" may come
                 \* from the pool of connections
    RaceMay,     \* what an unlocked search may do besides finding the user
    GameAsks,    \* what clients in a room ask for in a run
    MaxBacklog,  \* bound: they ask while fewer messages are queued for a loop
    MaxWins      \* bound on winning moves

ASSUME GameAssumption ==
    /\ PointWidth \in Nat \ {0} /\ \A u \in User : InitPoints[u] < PointWidth
    /\ DbMay \subseteq {"fail", "null"} /\ RaceMay \subseteq {"miss", "crash"}
    /\ GameAsks \subseteq {"chess", "chat", "exit"}
    /\ MaxBacklog \in Nat /\ MaxWins \in Nat

VARIABLES
    db,          \* userPoint of each account in the database
    row,         \* the points each loop's loginUser query returned
    wins         \* winning moves so far

gameVars == <<db, row, wins>>
allVars == <<sessionVars, roomVars, matchVars, gameVars>>

WinPoints == 10
LosePoints == 5

GameInit ==
    /\ Init
    /\ db = InitPoints
    /\ row = [l \in Loop |-> 0]
    /\ wins = 0

GameTypeOK ==
    /\ MatchTypeOK /\ SessionsTypeOK /\ RoomsTypeOK
    /\ \A o \in 1..Len(info) : info[o].points < PointWidth
    /\ db \in [User -> Nat] /\ row \in [Loop -> Nat] /\ wins \in 0..MaxWins

-----------------------------------------------------------------------------
(* Logging in: the row is read before addOnlineUser, and may be stale then. *)

GameLogin(c, u) ==
    /\ Login(c, u)
    /\ row' = [row EXCEPT ![LoopOf[c]] = db[u]]
    /\ UNCHANGED <<db, wins>>

\* The constructor of UserInfo takes the points as an unsigned number.
GameLoginAdd(l) ==
    /\ LoginAdd(l, row[l] % PointWidth)
    /\ row' = [row EXCEPT ![l] = 0]
    /\ UNCHANGED <<db, wins>>

-----------------------------------------------------------------------------
(* A client in a room moves, chats or leaves (nothing answers EXIT_ROOM).  *)

AskMove(c) == Ask(c, "room", "chess", "room")
AskChat(c) == Ask(c, "room", "chat", "room")
AskExit(c) == Ask(c, "room", "exit", "lobby")

AskInRoom(c) ==
    /\ \A l \in Loop : Len(pending[l]) < MaxBacklog
    /\ \/ "chess" \in GameAsks /\ AskMove(c)
       \/ "chat" \in GameAsks /\ AskChat(c)
       \/ "exit" \in GameAsks /\ AskExit(c)

-----------------------------------------------------------------------------
(* The handlers.                                                           *)

\* sendMsg from loop l: written at once or queued for the other loop.
Send(l, c, msg) ==
    /\ ConnSetFree
    /\ IF c \notin conns THEN UNCHANGED <<client, pending>>
       ELSE IF LoopOf[c] = l
            THEN client' = Write(client, c, msg) /\ UNCHANGED pending
            ELSE /\ pending' = [pending EXCEPT ![LoopOf[c]] =
                                   Append(@, [conn |-> c, msg |-> msg])]
                 /\ UNCHANGED client

\* A search of m_UserId2User without the lock.
RacyFind(u) ==
    IF u = NoUser THEN {NoObj}
    ELSE {userObj[u]} \cup
         IF ~UserMapsFree /\ "miss" \in RaceMay THEN {NoObj} ELSE {}
RaceMayCrash == crashed' \in {FALSE, ~UserMapsFree /\ "crash" \in RaceMay}

At(l, reqs, pc) == hnd[l].req \in reqs /\ hnd[l].pc = pc
Goto(l, pc) == hnd' = [hnd EXCEPT ![l].pc = pc]
Return(l) == hnd' = [hnd EXCEPT ![l] = NoHandler]
\* Left alone by every step of the handlers below but where they say so.
handlerVars == <<sessionVars, pool, matchLock, mt, batch, inbox, row>>

\* onChess, onChat and onExitRoom: the sender is whoever the connection is.
FindSender(l) ==
    /\ At(l, {"chess", "chat", "exit"}, "begin") /\ UserMapsFree
    /\ hnd' = [hnd EXCEPT ![l].pc = "sender",
                          ![l].user = getUserIdByConn(hnd[l].conn)]
    /\ UNCHANGED <<handlerVars, roomVars, info, pending, client, crashed, db,
                   wins>>

FindOther(l) ==
    /\ At(l, {"chess", "chat"}, "sender") /\ RoomMapsFree
    /\ hnd' = [hnd EXCEPT ![l].pc = "other",
                          ![l].other = getUserIdFromOtherId(hnd[l].user)]
    /\ UNCHANGED <<handlerVars, roomVars, info, pending, client, crashed, db,
                   wins>>

FindPeer(l) ==
    /\ At(l, {"chess", "chat"}, "other") /\ UserMapsFree
    /\ hnd' = [hnd EXCEPT ![l].pc = "peer",
                          ![l].peer = getConnByUserId(hnd[l].other)]
    /\ UNCHANGED <<handlerVars, roomVars, info, pending, client, crashed, db,
                   wins>>

onChat(l) ==
    /\ At(l, {"chat"}, "peer")
    /\ Send(l, hnd[l].peer, "chat")
    /\ Return(l)
    /\ UNCHANGED <<handlerVars, roomVars, info, crashed, db, wins>>

\* A user that is in no room moves nowhere and wins nothing.
handChess(l) ==
    /\ At(l, {"chess"}, "peer") /\ RoomMapsFree
    /\ \/ Goto(l, "moved") /\ UNCHANGED wins
       \/ /\ hnd[l].user # NoUser /\ roomOf[hnd[l].user] # NoRoom
          /\ wins < MaxWins /\ wins' = wins + 1
          /\ Goto(l, "dbWin")
    /\ UNCHANGED <<handlerVars, roomVars, info, pending, client, crashed, db>>

TellMove(l) ==
    /\ At(l, {"chess"}, "moved")
    /\ Send(l, hnd[l].peer, "move")
    /\ Return(l)
    /\ UNCHANGED <<handlerVars, roomVars, info, crashed, db, wins>>

\* UserDB::winGame and loseGame; loseGame stops at 0.
Lower(n) == IF n > LosePoints THEN n - LosePoints ELSE 0

DbUpdate(l, pc, next, u, n) ==
    /\ At(l, {"chess"}, pc) /\ Goto(l, next)
    /\ \/ db' = IF u = NoUser THEN db ELSE [db EXCEPT ![u] = n]
       \/ "fail" \in DbMay /\ db' = db
    /\ UNCHANGED <<handlerVars, roomVars, info, pending, client, crashed, wins>>

\* getMysqlConnection gave up waiting: loginUser, winGame and loseGame of
\* UserDB dereference the null pointer it returned.
NullConnection(l) ==
    /\ "null" \in DbMay
    /\ io[l].pc = "query" \/ At(l, {"chess"}, "dbWin") \/ At(l, {"chess"}, "dbLose")
    /\ crashed' = TRUE
    /\ UNCHANGED <<handlerVars, roomVars, hnd, info, pending, client, db, wins>>

DbWin(l) == DbUpdate(l, "dbWin", "dbLose", hnd[l].user,
                     db[hnd[l].user] + WinPoints)
\* Mutant: the winner's id is used for both updates.
DbLose_Sender(l) ==
    DbUpdate(l, "dbLose", "win", hnd[l].user, Lower(db[hnd[l].user]))
DbLose(l) == DbUpdate(l, "dbLose", "win", hnd[l].other, Lower(db[hnd[l].other]))

\* UserManager::winGame and loseGame; UserInfo::loseGame subtracts from an
\* unsigned number.
Score(l, pc, next, u, delta) ==
    /\ At(l, {"chess"}, pc) /\ Goto(l, next)
    /\ \E o \in RacyFind(u) :
          info' = IF o = NoObj THEN info
                  ELSE [info EXCEPT ![o].points = (@ + delta) % PointWidth]
    /\ RaceMayCrash
    /\ UNCHANGED <<handlerVars, roomVars, pending, client, db, wins>>

winGame(l) == Score(l, "win", "lose", hnd[l].user, WinPoints)
loseGame(l) == Score(l, "lose", "tellWin", hnd[l].other, PointWidth - LosePoints)

TellWinner(l) ==
    /\ At(l, {"chess"}, "tellWin") /\ UserMapsFree
    /\ Send(l, hnd[l].conn, "you won")
    /\ Goto(l, "tellLose")
    /\ UNCHANGED <<handlerVars, roomVars, info, crashed, db, wins>>

TellLoser(l) ==
    /\ At(l, {"chess"}, "tellLose") /\ UserMapsFree
    /\ Send(l, hnd[l].peer, "you lost")
    /\ Return(l)
    /\ UNCHANGED <<handlerVars, roomVars, info, crashed, db, wins>>

\* UserManager::setUserState.  Mutant: it looks up the wrong key.
setUserState_Missed(u, state) == UNCHANGED info
setUserState(u, state) ==
    \E o \in RacyFind(u) :
        info' = IF o = NoObj THEN info ELSE [info EXCEPT ![o].state = state]

\* onExitRoom: GameRoomManager::removeUser ...
ExitRoom(l) ==
    /\ At(l, {"exit"}, "sender")
    /\ \/ removeUserAbsent(hnd[l].user) /\ Return(l)
       \/ removeUser(l, hnd[l].user) /\ Goto(l, "left")
    /\ UNCHANGED <<handlerVars, info, pending, client, crashed, db, wins>>

\* ... which sets the user ONLINE before it gives its mutex back.
ExitDone(l) ==
    /\ At(l, {"exit"}, "left")
    /\ removeUserDone(l)
    /\ setUserState(leaver.user, "online")
    /\ RaceMayCrash
    /\ Return(l)
    /\ UNCHANGED <<handlerVars, pending, client, db, wins>>

-----------------------------------------------------------------------------
\* Steps of Matchmaking that the game leaves as they are.
MatchOnly ==
    /\ \/ \E c \in Conn : Accept(c) \/ Disconnect(c) \/ AskStart(c)
                          \/ AskCancel(c) \/ AskInRoom(c)
                          \/ \E r \in Request :
                                \/ Begin(c, r)
                                \/ \E u \in User : ForeignRequest(c, r, u)
       \/ \E l \in Loop : HandlerStep(l) \/ doPendingFunctor(l)
       \/ matchThread
    /\ UNCHANGED gameVars

GameStep(l) ==
    \/ GameLoginAdd(l) \/ NullConnection(l)
    \/ FindSender(l) \/ FindOther(l) \/ FindPeer(l) \/ onChat(l)
    \/ handChess(l) \/ TellMove(l) \/ DbWin(l) \/ DbLose(l) \/ winGame(l)
    \/ loseGame(l) \/ TellWinner(l) \/ TellLoser(l) \/ ExitRoom(l)
    \/ ExitDone(l)

GameNext ==
    /\ ~crashed
    /\ \/ MatchOnly
       \/ \E c \in Conn, u \in User : GameLogin(c, u)
       \/ \E l \in Loop : GameStep(l)

GameSpec == GameInit /\ [][GameNext]_allVars

-----------------------------------------------------------------------------
(* Properties.                                                             *)

\* A loop is inside the scoring of a game between u and another.
Scoring(u) ==
    \E l \in Loop : /\ u \in {hnd[l].user, hnd[l].other}
                    /\ hnd[l].pc \in {"dbWin", "dbLose", "win", "lose"}

\* The points of a player that is online are those of the database, except
\* while a win is being entered in both: no order of moves, exits and new
\* games makes them drift apart.
PointsAgree ==
    \A u \in User : Online(u) /\ ~Scoring(u) =>
                        info[userObj[u]].points = db[u]

\* "Game lost: take the points off" (UserDB.h:19): no loss leaves a player that
\* is online with more points than before it.
LosingCostsPoints ==
    [][\A l \in Loop : loseGame(l) => \A o \in 1..Len(info) :
                         info'[o].points <= info[o].points]_allVars

\* A player the server holds for GAMING is in a room, and one in a room whom
\* the match thread is done with is GAMING, unless just leaving: nobody is
\* locked out of matching by a game that is over.
GamingHasRoom ==
    \A u \in User : Online(u) /\ leaver.user # u =>
        LET gaming == info[userObj[u]].state = "gaming" IN
        /\ gaming => roomOf[u] # NoRoom
        /\ roomOf[u] # NoRoom => gaming \/ mt.pc = "gaming"

\* A client in the lobby that asks for a match gets into the pool: its exit,
\* its cancel or its lost match left the server ready for the next one.
StartAccepted ==
    \A l \in Loop : At(l, {"start"}, "answer") => hnd[l].ok

\* "The other user in the room of this user" (GameRoomManager.h:24): a move is
\* delivered only to a user that is in the sender's room.
MoveStaysInRoom ==
    \A l \in Loop : At(l, {"chess"}, "other") /\ hnd[l].other # NoUser =>
        roomOf[hnd[l].other] \in {NoRoom, roomOf[hnd[l].user]}

\* "User %d left the match queue" (MatchHandler.cc:76): a user whose cancel
\* was granted is not in the pool any more.
CancelLeavesPool ==
    \A l \in Loop : At(l, {"cancel"}, "answer") /\ hnd[l].ok =>
                        ~InPool(hnd[l].user)

\* "Singleton, thread safe" (UserManager.h:12): nobody searches the maps while
\* a writer is inside them.
NoUnlockedSearch ==
    \A l \in Loop : \/ At(l, {"chess"}, "win") \/ At(l, {"chess"}, "lose")
                    \/ At(l, {"exit"}, "left")
        => UserMapsFree \/ userLock = l
=============================================================================
