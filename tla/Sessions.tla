------------------------------ MODULE Sessions ------------------------------
(***************************************************************************)
(* Who is online: ConnManager (the set of live connections), UserManager   *)
(* (user <-> connection <-> UserInfo object), the login handler that fills *)
(* them and the connection callback that empties them.                     *)
(*                                                                         *)
(* Every connection belongs to one IO loop, and a loop runs one callback   *)
(* at a time; the callbacks of different loops interleave.  A step is one  *)
(* critical section of a manager.  The two locks that are held across a    *)
(* further step are explicit:                                              *)
(*   connLock  ConnManager::m_mutex, held by removeConn over two calls     *)
(*             into UserManager;                                           *)
(*   userLock  UserManager::m_mutex, which the writers take and use in two *)
(*             steps, because setUserState and its like read the maps      *)
(*             without it.                                                 *)
(* A map from keys that may be absent is a total function: absent is the   *)
(* value the getters return (nullptr, or 0 for a user id).                 *)
(***************************************************************************)
EXTENDS Threads, Naturals, Sequences

CONSTANTS
    Conn,        \* TCP connections, each accepted once
    LoopOf,      \* the loop TcpServer::newConnection gave each connection
    NoConn,      \* a null TcpConnectionPtr
    Logins,      \* what clients do: "any", "exclusive" or "once"
    MaxLogins    \* bound on the UserInfo objects a behaviour creates

ASSUME LoopOfAssumption == LoopOf \in [Conn -> Loop]
ASSUME NoConnAssumption == NoConn \notin Conn
ASSUME LoginsAssumption ==
    /\ Logins \in {"any", "exclusive", "once"}
    /\ MaxLogins \in Nat

VARIABLES
    link,        \* TcpConnection state: "new", "up", "down"
    conns,       \* ConnManager::m_conns
    connLock,    \* the loop that holds ConnManager::m_mutex
    userConn,    \* UserManager::m_UserId2Conn
    connUser,    \* UserManager::m_Conn2UserId
    userObj,     \* UserManager::m_UserId2User, an index into heap
    userLock,    \* the loop that holds UserManager::m_mutex over two steps
    heap,        \* UserInfo objects in the order they were created
    io           \* the callback each loop is in

sessionVars == <<link, conns, connLock, userConn, connUser, userObj, userLock,
                 heap, io>>

NoObj == 0
Idle == [pc |-> "idle", conn |-> NoConn, user |-> NoUser]

SessionsTypeOK ==
    /\ link \in [Conn -> {"new", "up", "down"}]
    /\ conns \subseteq Conn
    /\ connLock \in Loop \cup {NoThread}
    /\ userConn \in [User -> Conn \cup {NoConn}]
    /\ connUser \in [Conn -> User \cup {NoUser}]
    /\ userObj \in [User -> Nat]
    /\ userLock \in Loop \cup {NoThread}
    /\ heap \in Seq([user : User, conn : Conn])
    /\ io \in [Loop -> [pc : {"idle", "query", "add", "reply", "lookup",
                              "remove", "erase"},
                        conn : Conn \cup {NoConn},
                        user : User \cup {NoUser}]]
    /\ \A l \in Loop : io[l].pc \in {"query", "add", "remove", "erase"}
                         => io[l].user \in User

SessionsInit ==
    /\ link = [c \in Conn |-> "new"]
    /\ conns = {}
    /\ connLock = NoThread
    /\ userConn = [u \in User |-> NoConn]
    /\ connUser = [c \in Conn |-> NoUser]
    /\ userObj = [u \in User |-> NoObj]
    /\ userLock = NoThread
    /\ heap = <<>>
    /\ io = [l \in Loop |-> Idle]

\* Loop l goes on with its callback at pc, about connection c and user u.
Callback(l, pc, c, u) ==
    io' = [io EXCEPT ![l] = [pc |-> pc, conn |-> c, user |-> u]]

-----------------------------------------------------------------------------
(* UserManager, read under its own lock: one step each.                    *)

UserMapsFree == userLock = NoThread
ConnSetFree == connLock = NoThread

\* Mutant: only valid connections are looked up, after m_conns.erase.
getUserIdByConn_Valid(c) == IF c \in conns THEN connUser[c] ELSE NoUser
getUserIdByConn(c) == connUser[c]
getConnByUserId(u) == IF u = NoUser THEN NoConn ELSE userConn[u]
getUserByUserId(u) == userObj[u]
getUserByconn(c) ==
    IF c = NoConn THEN NoObj
    ELSE IF connUser[c] = NoUser THEN NoObj ELSE userObj[connUser[c]]

-----------------------------------------------------------------------------
(* Connections come up and log in.                                         *)

\* connectEstablished runs in the connection's loop: onConnection, addConn.
addConn(c) ==
    /\ link[c] = "new" /\ io[LoopOf[c]] = Idle
    /\ ConnSetFree
    /\ link' = [link EXCEPT ![c] = "up"]
    /\ conns' = conns \cup {c}
    /\ UNCHANGED <<connLock, userConn, connUser, userObj, userLock, heap, io>>

\* What the clients may ask for.  "any": any user on any connection.
\* "exclusive": a client logs in once per connection, and its user again only
\* when the server has finished closing the former connection (the client
\* waited for the server's FIN).  "once": and no user returns.
MayLogin(c, u) ==
    \/ Logins = "any"
    \/ /\ getUserIdByConn(c) = NoUser
       /\ getConnByUserId(u) = NoConn
       /\ \A l \in Loop : io[l].user # u
       /\ Logins = "once" => \A o \in 1..Len(heap) : heap[o].user # u

\* onLogin: parse the request, ask the database.
onLogin(c, u) ==
    /\ link[c] = "up" /\ io[LoopOf[c]] = Idle
    /\ Len(heap) < MaxLogins /\ MayLogin(c, u)
    /\ Callback(LoopOf[c], "query", c, u)
    /\ UNCHANGED <<link, conns, connLock, userConn, connUser, userObj,
                   userLock, heap>>

\* The database refuses: the answer is all that is left to do.
LoginRefused(l) ==
    /\ io[l].pc = "query"
    /\ Callback(l, "reply", io[l].conn, NoUser)
    /\ UNCHANGED <<link, conns, connLock, userConn, connUser, userObj,
                   userLock, heap>>

\* Mutant: the lock_guard is missing.
LockForAdd_NoGuard(l) ==
    /\ io[l].pc = "query" /\ Len(heap) < MaxLogins
    /\ userLock' = l
    /\ Callback(l, "add", io[l].conn, io[l].user)
    /\ UNCHANGED <<link, conns, connLock, userConn, connUser, userObj, heap>>

\* addOnlineUser takes the lock.
LockForAdd(l) ==
    /\ io[l].pc = "query"
    /\ UserMapsFree
    /\ Len(heap) < MaxLogins
    /\ userLock' = l
    /\ Callback(l, "add", io[l].conn, io[l].user)
    /\ UNCHANGED <<link, conns, connLock, userConn, connUser, userObj, heap>>

\* Mutant: the connection is not entered.
InsertEntries_NoConn(u, c) ==
    /\ heap' = Append(heap, [user |-> u, conn |-> c])
    /\ userConn' = [userConn EXCEPT ![u] = c]
    /\ userObj' = [userObj EXCEPT ![u] = Len(heap) + 1]
    /\ UNCHANGED connUser

\* The new UserInfo is entered in the three maps, over any old entry ...
InsertEntries(u, c) ==
    /\ heap' = Append(heap, [user |-> u, conn |-> c])
    /\ userConn' = [userConn EXCEPT ![u] = c]
    /\ connUser' = [connUser EXCEPT ![c] = u]
    /\ userObj' = [userObj EXCEPT ![u] = Len(heap) + 1]

\* ... and addOnlineUser gives the lock back.
addOnlineUser(l) ==
    /\ io[l].pc = "add"
    /\ InsertEntries(io[l].user, io[l].conn)
    /\ userLock' = NoThread
    /\ Callback(l, "reply", io[l].conn, io[l].user)
    /\ UNCHANGED <<link, conns, connLock>>

\* sendMsg(LOGIN_ACK): isConnValid needs ConnManager's lock; the handler ends.
LoginReply(l) ==
    /\ io[l].pc = "reply"
    /\ ConnSetFree
    /\ io' = [io EXCEPT ![l] = Idle]
    /\ UNCHANGED <<link, conns, connLock, userConn, connUser, userObj,
                   userLock, heap>>

-----------------------------------------------------------------------------
(* A connection closes: onConnection, removeConn.                          *)

removeConn(c) ==
    /\ link[c] = "up" /\ io[LoopOf[c]] = Idle
    /\ ConnSetFree
    /\ link' = [link EXCEPT ![c] = "down"]
    /\ connLock' = LoopOf[c]
    /\ conns' = conns \ {c}
    /\ Callback(LoopOf[c], "lookup", c, NoUser)
    /\ UNCHANGED <<userConn, connUser, userObj, userLock, heap>>

\* Mutant: the test for user id 0 is missing.
CloseLookup_NoTest(l) ==
    /\ io[l].pc = "lookup" /\ UserMapsFree
    /\ Callback(l, "remove", io[l].conn, getUserIdByConn(io[l].conn))
    /\ UNCHANGED <<link, conns, connLock, userConn, connUser, userObj, userLock,
                   heap>>

\* Mutant: the early way out forgets to unlock.
CloseLookup_NoUnlock(l) ==
    /\ io[l].pc = "lookup" /\ UserMapsFree
    /\ IF getUserIdByConn(io[l].conn) = NoUser THEN io' = [io EXCEPT ![l] = Idle]
       ELSE Callback(l, "remove", io[l].conn, getUserIdByConn(io[l].conn))
    /\ UNCHANGED <<link, conns, connLock, userConn, connUser, userObj, userLock,
                   heap>>

\* g_UserMgr.getUserIdByConn(conn); a connection nobody logged in on is done.
CloseLookup(l) ==
    /\ io[l].pc = "lookup"
    /\ UserMapsFree
    /\ \/ /\ getUserIdByConn(io[l].conn) = NoUser
          /\ connLock' = NoThread
          /\ io' = [io EXCEPT ![l] = Idle]
       \/ /\ getUserIdByConn(io[l].conn) # NoUser
          /\ Callback(l, "remove", io[l].conn, getUserIdByConn(io[l].conn))
          /\ UNCHANGED connLock
    /\ UNCHANGED <<link, conns, userConn, connUser, userObj, userLock, heap>>

LockForRemove(l) ==
    /\ io[l].pc = "remove"
    /\ UserMapsFree
    /\ userLock' = l
    /\ Callback(l, "erase", io[l].conn, io[l].user)
    /\ UNCHANGED <<link, conns, connLock, userConn, connUser, userObj, heap>>

\* Mutant: one of the three erasures is forgotten.
EraseEntries_KeepConn(u, c) ==
    /\ userConn' = [userConn EXCEPT ![u] = NoConn]
    /\ userObj' = [userObj EXCEPT ![u] = NoObj]
    /\ UNCHANGED connUser

\* What removeOnlineUser erases goes by the user id: the user's own entries and
\* that of the connection the user is on now, whichever connection is closing.
EraseEntries(u, c) ==
    /\ userConn' = [userConn EXCEPT ![u] = NoConn]
    /\ connUser' = [connUser EXCEPT ![c] = NoUser]
    /\ userObj' = [userObj EXCEPT ![u] = NoObj]

\* Both locks are given back as removeConn returns.
removeOnlineUser(l) ==
    LET u == io[l].user
        c == userConn[u]
    IN  /\ io[l].pc = "erase"
        /\ IF c = NoConn THEN UNCHANGED <<userConn, connUser, userObj>>
           ELSE EraseEntries(u, c)
        /\ userLock' = NoThread
        /\ connLock' = NoThread
        /\ io' = [io EXCEPT ![l] = Idle]
        /\ UNCHANGED <<link, conns, heap>>

-----------------------------------------------------------------------------
SessionStep(l) ==
    \/ LoginRefused(l) \/ LockForAdd(l) \/ addOnlineUser(l) \/ LoginReply(l)
    \/ CloseLookup(l) \/ LockForRemove(l) \/ removeOnlineUser(l)

SessionsNext ==
    \/ \E c \in Conn : addConn(c) \/ removeConn(c)
    \/ \E c \in Conn, u \in User : onLogin(c, u)
    \/ \E l \in Loop : SessionStep(l)

SessionsSpec == SessionsInit /\ [][SessionsNext]_sessionVars

\* A loop that is in a callback is a running thread.
SessionsFairness == \A l \in Loop : WF_sessionVars(SessionStep(l))
SessionsFairSpec == SessionsSpec /\ SessionsFairness

-----------------------------------------------------------------------------
(* Properties.                                                             *)

Closing(c) == \E l \in Loop : io[l].conn = c
                              /\ io[l].pc \in {"lookup", "remove", "erase"}
Online(u) == userConn[u] # NoConn

\* The two maps of UserManager that are keyed by the user agree, and agree with
\* the UserInfo itself (m_conn), whatever clients ask for: a user has a
\* connection exactly when it has a UserInfo, its own, created for that very
\* connection.  m_Conn2UserId is not part of this: see SessionWhole.
OnlineTogether ==
    \A u \in User :
        /\ Online(u) <=> userObj[u] # NoObj
        /\ Online(u) => /\ userObj[u] <= Len(heap)
                        /\ heap[userObj[u]] = [user |-> u, conn |-> userConn[u]]

\* UserManager's writers hold its mutex and removeConn holds ConnManager's:
\* no two loops are inside the same critical section.
LocksHeld ==
    \A l \in Loop :
        /\ io[l].pc \in {"add", "erase"} <=> userLock = l
        /\ io[l].pc \in {"lookup", "remove", "erase"} <=> connLock = l

\* The maps user -> connection and connection -> user are inverse to each other.
OneToOne ==
    \A u \in User, c \in Conn : userConn[u] = c <=> connUser[c] = u

\* A session is filed whole or not at all: as soon as one of m_UserId2Conn,
\* m_Conn2UserId and m_UserId2User links user u with connection c, all three
\* do, and the UserInfo is u's own, created for c, however the logins and
\* closes of several loops interleave.  It is a property of exclusive logins:
\* addOnlineUser writes over the entries of a second login and leaves the old
\* connection's entry in m_Conn2UserId behind (UserManager.cc:12-17).
SessionWhole ==
    \A u \in User, c \in Conn :
        \/ userConn[u] = c
        \/ connUser[c] = u
        \/ userObj[u] # NoObj /\ heap[userObj[u]].conn = c
        => /\ userConn[u] = c
           /\ connUser[c] = u
           /\ userObj[u] \in 1..Len(heap)
           /\ heap[userObj[u]] = [user |-> u, conn |-> c]

\* "Disconnect cleanup: remove the online player" (ConnManager.cc:26): once
\* the close of a connection has been handled nobody is online through it.
CloseRemovesPlayer ==
    \A u \in User, c \in Conn :
        userConn[u] = c => link[c] = "up" \/ Closing(c)

\* No user that is still connected is taken offline ("remove the online player
\* (offline / disconnected)", UserManager.h:19).  The code breaks it: the late
\* close of a connection ends the session its user has begun on a newer one
\* (SessionsStaleClose.cfg).
OnlyOwnCloseEndsSession ==
    [][\A u \in User : Online(u) /\ userConn'[u] = NoConn
                          => link[userConn[u]] = "down"]_sessionVars

\* Every callback ends: no loop waits for a manager's lock for ever, whatever
\* the other loops do.
CallbacksEnd == \A l \in Loop : io[l] # Idle ~> io[l] = Idle
=============================================================================
