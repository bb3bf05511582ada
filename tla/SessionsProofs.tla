--------------------------- MODULE SessionsProofs ---------------------------
(***************************************************************************)
(* Sessions, for any number of loops, connections and users and any bound  *)
(* on logins: type correctness, lock discipline and the agreement of the   *)
(* maps that are keyed by the user, whatever clients do; and, when logins  *)
(* are exclusive, that every session is in all the maps or in none, and    *)
(* that the close of a connection takes its player offline.                *)
(***************************************************************************)
EXTENDS Sessions, TLAPS

\* What the callback of loop l knows about its connection and user.
CallbackKnows(l) ==
    /\ io[l].pc = "idle" => io[l] = Idle
    /\ io[l].pc # "idle" => io[l].conn \in Conn /\ LoopOf[io[l].conn] = l
    /\ io[l].pc \in {"query", "add", "reply"} => link[io[l].conn] = "up"
    /\ io[l].pc \in {"lookup", "remove", "erase"} => link[io[l].conn] = "down"
    /\ io[l].pc \in {"query", "add", "remove", "erase"} => io[l].user \in User

Base == SessionsTypeOK /\ \A l \in Loop : CallbackKnows(l)

LEMMA BaseInit == SessionsInit => Base
BY DEF SessionsInit, SessionsTypeOK, Idle, NoObj, Base, CallbackKnows

\* Every step keeps the types and what the callbacks know.
LEMMA BaseStep == Base /\ [SessionsNext]_sessionVars => Base'
<1> SUFFICES ASSUME Base, [SessionsNext]_sessionVars PROVE Base'
  OBVIOUS
<1>a. SessionsTypeOK /\ \A m \in Loop : CallbackKnows(m)
  BY DEF Base
<1>1. ASSUME NEW c \in Conn, addConn(c) PROVE Base'
  <2>1. SessionsTypeOK'
    BY <1>1, <1>a, LoopOfAssumption
       DEF SessionsTypeOK, CallbackKnows, Callback, Idle, addConn, NoObj
  <2>2. ASSUME NEW m \in Loop PROVE CallbackKnows(m)'
    BY <1>1, <1>a, LoopOfAssumption DEF SessionsTypeOK, CallbackKnows, Callback, Idle, addConn
  <2>3. QED
    BY <2>1, <2>2 DEF Base
<1>2. ASSUME NEW c \in Conn, removeConn(c) PROVE Base'
  <2>1. SessionsTypeOK'
    BY <1>2, <1>a, LoopOfAssumption
       DEF SessionsTypeOK, CallbackKnows, Callback, Idle, removeConn, NoObj
  <2>2. ASSUME NEW m \in Loop PROVE CallbackKnows(m)'
    BY <1>2, <1>a, LoopOfAssumption DEF SessionsTypeOK, CallbackKnows, Callback, Idle, removeConn
  <2>3. QED
    BY <2>1, <2>2 DEF Base
<1>3. ASSUME NEW c \in Conn, NEW u \in User, onLogin(c, u) PROVE Base'
  <2>1. SessionsTypeOK'
    BY <1>3, <1>a, LoopOfAssumption
       DEF SessionsTypeOK, CallbackKnows, Callback, Idle, onLogin, NoObj
  <2>2. ASSUME NEW m \in Loop PROVE CallbackKnows(m)'
    BY <1>3, <1>a, LoopOfAssumption DEF SessionsTypeOK, CallbackKnows, Callback, Idle, onLogin
  <2>3. QED
    BY <2>1, <2>2 DEF Base
<1>4. ASSUME NEW l \in Loop, LoginRefused(l) PROVE Base'
  <2>1. SessionsTypeOK'
    BY <1>4, <1>a, LoopOfAssumption
       DEF SessionsTypeOK, CallbackKnows, Callback, Idle, LoginRefused, NoObj
  <2>2. ASSUME NEW m \in Loop PROVE CallbackKnows(m)'
    BY <1>4, <1>a, LoopOfAssumption DEF SessionsTypeOK, CallbackKnows, Callback, Idle, LoginRefused
  <2>3. QED
    BY <2>1, <2>2 DEF Base
<1>5. ASSUME NEW l \in Loop, LockForAdd(l) PROVE Base'
  <2>1. SessionsTypeOK'
    BY <1>5, <1>a, LoopOfAssumption
       DEF SessionsTypeOK, CallbackKnows, Callback, Idle, LockForAdd, NoObj
  <2>2. ASSUME NEW m \in Loop PROVE CallbackKnows(m)'
    BY <1>5, <1>a, LoopOfAssumption DEF SessionsTypeOK, CallbackKnows, Callback, Idle, LockForAdd
  <2>3. QED
    BY <2>1, <2>2 DEF Base
<1>6. ASSUME NEW l \in Loop, addOnlineUser(l) PROVE Base'
  <2>1. SessionsTypeOK'
    BY <1>6, <1>a, LoopOfAssumption
       DEF SessionsTypeOK, CallbackKnows, Callback, Idle, addOnlineUser, InsertEntries, NoObj
  <2>2. ASSUME NEW m \in Loop PROVE CallbackKnows(m)'
    BY <1>6, <1>a, LoopOfAssumption DEF SessionsTypeOK, CallbackKnows, Callback, Idle, addOnlineUser, InsertEntries
  <2>3. QED
    BY <2>1, <2>2 DEF Base
<1>7. ASSUME NEW l \in Loop, LoginReply(l) PROVE Base'
  <2>1. SessionsTypeOK'
    BY <1>7, <1>a, LoopOfAssumption
       DEF SessionsTypeOK, CallbackKnows, Callback, Idle, LoginReply, NoObj
  <2>2. ASSUME NEW m \in Loop PROVE CallbackKnows(m)'
    BY <1>7, <1>a, LoopOfAssumption DEF SessionsTypeOK, CallbackKnows, Callback, Idle, LoginReply
  <2>3. QED
    BY <2>1, <2>2 DEF Base
<1>8. ASSUME NEW l \in Loop, CloseLookup(l) PROVE Base'
  <2> DEFINE u == getUserIdByConn(io[l].conn)
  <2>1. /\ io[l].pc = "lookup" /\ io[l].conn \in Conn
        /\ u \in User \cup {NoUser}
    BY <1>8, <1>a DEF CloseLookup, CallbackKnows, SessionsTypeOK, getUserIdByConn
  <2>2. CASE u = NoUser
    <3>1. io' = [io EXCEPT ![l] = Idle] /\ connLock' = NoThread
          /\ UNCHANGED <<link, conns, userConn, connUser, userObj, userLock,
                         heap>>
      BY <2>2, <1>8 DEF CloseLookup
    <3>2. SessionsTypeOK'
      BY <3>1, <1>a DEF SessionsTypeOK, Idle
    <3>3. ASSUME NEW m \in Loop PROVE CallbackKnows(m)'
      BY <3>1, <1>a DEF SessionsTypeOK, CallbackKnows, Idle
    <3>4. QED
      BY <3>2, <3>3 DEF Base
  <2>3. CASE u # NoUser
    <3>1. /\ io' = [io EXCEPT ![l] = [pc |-> "remove", conn |-> io[l].conn,
                                      user |-> u]]
          /\ u \in User
          /\ UNCHANGED <<link, conns, connLock, userConn, connUser, userObj,
                         userLock, heap>>
      BY <2>3, <1>8, <2>1 DEF Callback, CloseLookup
    <3> HIDE DEF u
    <3>2. SessionsTypeOK'
      BY <3>1, <1>a, <2>1 DEF SessionsTypeOK
    <3>3. ASSUME NEW m \in Loop PROVE CallbackKnows(m)'
      <4>1. CASE m = l
        BY <3>1, <4>1, <1>a, <2>1 DEF SessionsTypeOK, CallbackKnows
      <4>2. CASE m # l
        BY <3>1, <4>2, <1>a DEF SessionsTypeOK, CallbackKnows, Idle
      <4>3. QED
        BY <4>1, <4>2
    <3>4. QED
      BY <3>2, <3>3 DEF Base
  <2>4. QED
    BY <2>2, <2>3
<1>9. ASSUME NEW l \in Loop, LockForRemove(l) PROVE Base'
  <2>1. SessionsTypeOK'
    BY <1>9, <1>a, LoopOfAssumption
       DEF SessionsTypeOK, CallbackKnows, Callback, Idle, LockForRemove, NoObj
  <2>2. ASSUME NEW m \in Loop PROVE CallbackKnows(m)'
    BY <1>9, <1>a, LoopOfAssumption DEF SessionsTypeOK, CallbackKnows, Callback, Idle, LockForRemove
  <2>3. QED
    BY <2>1, <2>2 DEF Base
<1>10. ASSUME NEW l \in Loop, removeOnlineUser(l) PROVE Base'
  <2>1. io[l].user \in User
    BY <1>10, <1>a DEF removeOnlineUser, EraseEntries, CallbackKnows
  <2>2. SessionsTypeOK'
    <3>1. userConn[io[l].user] \in Conn \cup {NoConn}
      BY <2>1, <1>a DEF SessionsTypeOK
    <3>2. /\ userConn' \in [User -> Conn \cup {NoConn}]
          /\ connUser' \in [Conn -> User \cup {NoUser}]
          /\ userObj' \in [User -> Nat]
      <4>1. CASE userConn[io[l].user] = NoConn
        BY <4>1, <1>10, <1>a DEF SessionsTypeOK, removeOnlineUser, EraseEntries
      <4>2. CASE userConn[io[l].user] # NoConn
        <5>1. /\ userConn' = [userConn EXCEPT ![io[l].user] = NoConn]
              /\ connUser' = [connUser EXCEPT ![userConn[io[l].user]] = NoUser]
              /\ userObj' = [userObj EXCEPT ![io[l].user] = NoObj]
          BY <4>2, <1>10 DEF removeOnlineUser, EraseEntries, EraseEntries
        <5>2. QED
          BY <5>1, <1>a DEF SessionsTypeOK, NoObj
      <4>3. QED
        BY <4>1, <4>2
    <3>3. QED
      BY <1>10, <1>a, <3>2 DEF SessionsTypeOK, removeOnlineUser, EraseEntries, Idle
  <2>3. ASSUME NEW m \in Loop PROVE CallbackKnows(m)'
    BY <1>10, <1>a DEF SessionsTypeOK, CallbackKnows, Idle, removeOnlineUser, EraseEntries
  <2>4. QED
    BY <2>2, <2>3 DEF Base
<1>11. CASE UNCHANGED sessionVars
  BY <1>11, <1>a DEF sessionVars, Base, SessionsTypeOK, CallbackKnows
<1>12. QED
  BY <1>1, <1>2, <1>3, <1>4, <1>5, <1>6, <1>7, <1>8, <1>9, <1>10, <1>11
     DEF SessionsNext, SessionStep

\* Sessions keep their types: the state every run starts from and every
\* critical section leaves behind is one the source's types allow.
THEOREM TypeCorrect == SessionsSpec => []SessionsTypeOK
<1>1. Base => SessionsTypeOK
  BY DEF Base
<1>2. QED
  BY BaseInit, BaseStep, <1>1, PTL DEF SessionsSpec

-----------------------------------------------------------------------------
(* Locks.                                                                  *)

LEMMA LockInit == SessionsInit => LocksHeld
<1> SUFFICES ASSUME SessionsInit, NEW l \in Loop
             PROVE  io[l].pc = "idle" /\ userLock # l /\ connLock # l
  BY DEF LocksHeld
<1>1. QED
  BY ThreadsAssumption DEF SessionsInit, Idle

\* Each step that takes or gives back a lock moves one loop into or out of the
\* critical section; the others leave both alone.
LEMMA LockStep == Base /\ LocksHeld /\ [SessionsNext]_sessionVars => LocksHeld'
<1> SUFFICES ASSUME Base, LocksHeld, [SessionsNext]_sessionVars PROVE LocksHeld'
  OBVIOUS
<1>a. SessionsTypeOK /\ \A m \in Loop : CallbackKnows(m)
  BY DEF Base
<1> USE ThreadsAssumption, LoopOfAssumption
    DEF LocksHeld, Callback, Idle, ConnSetFree, UserMapsFree
<1>1. ASSUME NEW c \in Conn, addConn(c) PROVE LocksHeld'
  BY <1>1, <1>a DEF SessionsTypeOK, CallbackKnows, addConn
<1>2. ASSUME NEW c \in Conn, removeConn(c) PROVE LocksHeld'
  BY <1>2, <1>a DEF SessionsTypeOK, CallbackKnows, removeConn
<1>3. ASSUME NEW c \in Conn, NEW u \in User, onLogin(c, u) PROVE LocksHeld'
  BY <1>3, <1>a DEF SessionsTypeOK, CallbackKnows, onLogin
<1>4. ASSUME NEW l \in Loop, LoginRefused(l) PROVE LocksHeld'
  BY <1>4, <1>a DEF SessionsTypeOK, CallbackKnows, LoginRefused
<1>5. ASSUME NEW l \in Loop, LockForAdd(l) PROVE LocksHeld'
  BY <1>5, <1>a DEF SessionsTypeOK, CallbackKnows, LockForAdd
<1>6. ASSUME NEW l \in Loop, addOnlineUser(l) PROVE LocksHeld'
  BY <1>6, <1>a DEF SessionsTypeOK, CallbackKnows, addOnlineUser, InsertEntries
<1>7. ASSUME NEW l \in Loop, LoginReply(l) PROVE LocksHeld'
  BY <1>7, <1>a DEF SessionsTypeOK, CallbackKnows, LoginReply
<1>8. ASSUME NEW l \in Loop, CloseLookup(l) PROVE LocksHeld'
  BY <1>8, <1>a DEF SessionsTypeOK, CallbackKnows, CloseLookup
<1>9. ASSUME NEW l \in Loop, LockForRemove(l) PROVE LocksHeld'
  BY <1>9, <1>a DEF SessionsTypeOK, CallbackKnows, LockForRemove
<1>10. ASSUME NEW l \in Loop, removeOnlineUser(l) PROVE LocksHeld'
  BY <1>10, <1>a DEF SessionsTypeOK, CallbackKnows, removeOnlineUser, EraseEntries
<1>11. CASE UNCHANGED sessionVars
  BY <1>11 DEF sessionVars
<1>12. QED
  BY <1>1, <1>2, <1>3, <1>4, <1>5, <1>6, <1>7, <1>8, <1>9, <1>10, <1>11
     DEF SessionsNext, SessionStep

\* No two loops are ever inside the same manager's critical section.
THEOREM LocksAreHeld == SessionsSpec => []LocksHeld
BY BaseInit, BaseStep, LockInit, LockStep, PTL DEF SessionsSpec

-----------------------------------------------------------------------------
(* The maps keyed by the user agree, whatever clients do.                  *)

LEMMA OnlineInit == SessionsInit => OnlineTogether
BY DEF SessionsInit, OnlineTogether, Online, NoObj

\* Only addOnlineUser and removeOnlineUser write the maps, each all of them.
LEMMA OnlineStep ==
    Base /\ OnlineTogether /\ [SessionsNext]_sessionVars => OnlineTogether'
<1> SUFFICES ASSUME Base, OnlineTogether, [SessionsNext]_sessionVars
             PROVE  OnlineTogether'
  OBVIOUS
<1>a. SessionsTypeOK /\ \A m \in Loop : CallbackKnows(m)
  BY DEF Base
<1>6. ASSUME NEW l \in Loop, addOnlineUser(l) PROVE OnlineTogether'
  <2> DEFINE u == io[l].user
             c == io[l].conn
             o == Len(heap) + 1
  <2>1. u \in User /\ c \in Conn /\ c # NoConn
    BY <1>6, <1>a, NoConnAssumption DEF addOnlineUser, InsertEntries, CallbackKnows
  <2>2. /\ heap' = Append(heap, [user |-> u, conn |-> c])
        /\ userConn' = [userConn EXCEPT ![u] = c]
        /\ userObj' = [userObj EXCEPT ![u] = o]
    BY <1>6 DEF addOnlineUser, InsertEntries, InsertEntries
  <2>3. /\ Len(heap) \in Nat /\ Len(heap') = o
        /\ heap'[o] = [user |-> u, conn |-> c]
        /\ \A i \in 1..Len(heap) : heap'[i] = heap[i]
    BY <2>1, <2>2, <1>a DEF SessionsTypeOK
  <2> HIDE DEF u, c, o
  <2>4. ASSUME NEW v \in User
        PROVE  /\ Online(v)' <=> userObj'[v] # NoObj
               /\ Online(v)' =>
                     /\ userObj'[v] <= Len(heap')
                     /\ heap'[userObj'[v]] = [user |-> v, conn |-> userConn'[v]]
    <3>1. CASE v = u
      BY <3>1, <2>1, <2>2, <2>3, <1>a DEF Online, NoObj, SessionsTypeOK, o
    <3>2. CASE v # u
      <4>1. userConn'[v] = userConn[v] /\ userObj'[v] = userObj[v]
        BY <3>2, <2>2, <1>a DEF SessionsTypeOK
      <4>2. userObj[v] \in Nat
        BY <1>a DEF SessionsTypeOK
      <4>3. QED
        BY <4>1, <4>2, <2>3 DEF Online, OnlineTogether, NoObj, o
    <3>3. QED
      BY <3>1, <3>2
  <2>5. QED
    BY <2>4 DEF OnlineTogether
<1>10. ASSUME NEW l \in Loop, removeOnlineUser(l) PROVE OnlineTogether'
  <2>1. io[l].user \in User /\ heap' = heap
    BY <1>10, <1>a DEF removeOnlineUser, EraseEntries, CallbackKnows
  <2>2. CASE userConn[io[l].user] = NoConn
    BY <2>2, <1>10 DEF removeOnlineUser, EraseEntries, OnlineTogether, Online
  <2>3. CASE userConn[io[l].user] # NoConn
    <3>1. /\ userConn' = [userConn EXCEPT ![io[l].user] = NoConn]
          /\ userObj' = [userObj EXCEPT ![io[l].user] = NoObj]
      BY <2>3, <1>10 DEF removeOnlineUser, EraseEntries, EraseEntries
    <3>2. QED
      BY <3>1, <2>1, <1>a DEF OnlineTogether, Online, SessionsTypeOK
  <2>4. QED
    BY <2>2, <2>3
<1>11. CASE UNCHANGED <<userConn, userObj, heap>>
  BY <1>11 DEF OnlineTogether, Online
<1>12. QED
  BY <1>6, <1>10, <1>11
     DEF SessionsNext, SessionStep, addConn, removeConn, onLogin, LoginRefused,
         LockForAdd, LoginReply, CloseLookup, LockForRemove, sessionVars

-----------------------------------------------------------------------------
(* Exclusive logins.                                                       *)

\* A login in progress is of a user that is offline, on a connection nobody
\* uses, and no other loop is busy with that user; a close in progress is
\* about the user the connection belongs to.
ExclusiveCallback(l) ==
    /\ io[l].pc \in {"query", "add"} =>
          /\ userConn[io[l].user] = NoConn
          /\ connUser[io[l].conn] = NoUser
          /\ \A m \in Loop \ {l} : io[m].user # io[l].user
    /\ io[l].pc \in {"remove", "erase"} => connUser[io[l].conn] = io[l].user

ExclusiveInv ==
    /\ OneToOne
    /\ CloseRemovesPlayer
    /\ \A l \in Loop : ExclusiveCallback(l)

LEMMA ExclusiveInit == SessionsInit => ExclusiveInv
BY ThreadsAssumption, NoConnAssumption
   DEF SessionsInit, ExclusiveInv, OneToOne, CloseRemovesPlayer,
       ExclusiveCallback, Idle

\* The maps stay inverse to each other because a login adds a pair neither of
\* whose halves is taken, and a close removes the one pair of its connection.
LEMMA ExclusiveStep ==
    ASSUME Logins # "any"
    PROVE  Base /\ ExclusiveInv /\ [SessionsNext]_sessionVars => ExclusiveInv'
<1> SUFFICES ASSUME Base, ExclusiveInv, [SessionsNext]_sessionVars
             PROVE  ExclusiveInv'
  OBVIOUS
<1>a. /\ SessionsTypeOK /\ OneToOne /\ CloseRemovesPlayer
      /\ \A m \in Loop : CallbackKnows(m) /\ ExclusiveCallback(m)
  BY DEF Base, ExclusiveInv
<1> USE ThreadsAssumption, LoopOfAssumption, NoConnAssumption
<1>1. ASSUME NEW c \in Conn, addConn(c) PROVE ExclusiveInv'
  <2>1. OneToOne'
    BY <1>1, <1>a DEF SessionsTypeOK, CallbackKnows, OneToOne,
       ExclusiveCallback, addConn
  <2>2. CloseRemovesPlayer'
    BY <1>1, <1>a DEF SessionsTypeOK, CallbackKnows, OneToOne,
       ExclusiveCallback, CloseRemovesPlayer, Closing, Callback, Idle, addConn
  <2>3. ASSUME NEW m \in Loop PROVE ExclusiveCallback(m)'
    BY <1>1, <1>a DEF SessionsTypeOK, CallbackKnows, OneToOne,
       ExclusiveCallback, Callback, Idle, addConn
  <2>4. QED
    BY <2>1, <2>2, <2>3 DEF ExclusiveInv
<1>2. ASSUME NEW c \in Conn, removeConn(c) PROVE ExclusiveInv'
  <2>1. OneToOne'
    BY <1>2, <1>a DEF SessionsTypeOK, CallbackKnows, OneToOne,
       ExclusiveCallback, removeConn
  <2>2. CloseRemovesPlayer'
    BY <1>2, <1>a DEF SessionsTypeOK, CallbackKnows, OneToOne,
       ExclusiveCallback, CloseRemovesPlayer, Closing, Callback, Idle, removeConn
  <2>3. ASSUME NEW m \in Loop PROVE ExclusiveCallback(m)'
    BY <1>2, <1>a DEF SessionsTypeOK, CallbackKnows, OneToOne,
       ExclusiveCallback, Callback, Idle, removeConn
  <2>4. QED
    BY <2>1, <2>2, <2>3 DEF ExclusiveInv
<1>3. ASSUME NEW c \in Conn, NEW u \in User, onLogin(c, u) PROVE ExclusiveInv'
  <2>1. OneToOne'
    BY <1>3, <1>a DEF SessionsTypeOK, CallbackKnows, OneToOne,
       ExclusiveCallback, onLogin, MayLogin, getUserIdByConn, getConnByUserId
  <2>2. CloseRemovesPlayer'
    BY <1>3, <1>a DEF SessionsTypeOK, CallbackKnows, OneToOne,
       ExclusiveCallback, CloseRemovesPlayer, Closing, Callback, Idle, onLogin, MayLogin, getUserIdByConn, getConnByUserId
  <2>3. ASSUME NEW m \in Loop PROVE ExclusiveCallback(m)'
    BY <1>3, <1>a DEF SessionsTypeOK, CallbackKnows, OneToOne,
       ExclusiveCallback, Callback, Idle, onLogin, MayLogin, getUserIdByConn, getConnByUserId
  <2>4. QED
    BY <2>1, <2>2, <2>3 DEF ExclusiveInv
<1>4. ASSUME NEW l \in Loop, LoginRefused(l) PROVE ExclusiveInv'
  <2>1. OneToOne'
    BY <1>4, <1>a DEF SessionsTypeOK, CallbackKnows, OneToOne,
       ExclusiveCallback, LoginRefused
  <2>2. CloseRemovesPlayer'
    BY <1>4, <1>a DEF SessionsTypeOK, CallbackKnows, OneToOne,
       ExclusiveCallback, CloseRemovesPlayer, Closing, Callback, Idle, LoginRefused
  <2>3. ASSUME NEW m \in Loop PROVE ExclusiveCallback(m)'
    BY <1>4, <1>a DEF SessionsTypeOK, CallbackKnows, OneToOne,
       ExclusiveCallback, Callback, Idle, LoginRefused
  <2>4. QED
    BY <2>1, <2>2, <2>3 DEF ExclusiveInv
<1>5. ASSUME NEW l \in Loop, LockForAdd(l) PROVE ExclusiveInv'
  <2>1. OneToOne'
    BY <1>5, <1>a DEF SessionsTypeOK, CallbackKnows, OneToOne,
       ExclusiveCallback, LockForAdd
  <2>2. CloseRemovesPlayer'
    BY <1>5, <1>a DEF SessionsTypeOK, CallbackKnows, OneToOne,
       ExclusiveCallback, CloseRemovesPlayer, Closing, Callback, Idle, LockForAdd
  <2>3. ASSUME NEW m \in Loop PROVE ExclusiveCallback(m)'
    BY <1>5, <1>a DEF SessionsTypeOK, CallbackKnows, OneToOne,
       ExclusiveCallback, Callback, Idle, LockForAdd
  <2>4. QED
    BY <2>1, <2>2, <2>3 DEF ExclusiveInv
<1>6. ASSUME NEW l \in Loop, addOnlineUser(l) PROVE ExclusiveInv'
  <2>1. OneToOne'
    BY <1>6, <1>a DEF SessionsTypeOK, CallbackKnows, OneToOne,
       ExclusiveCallback, addOnlineUser, InsertEntries
  <2>2. CloseRemovesPlayer'
    BY <1>6, <1>a DEF SessionsTypeOK, CallbackKnows, OneToOne,
       ExclusiveCallback, CloseRemovesPlayer, Closing, Callback, Idle, addOnlineUser, InsertEntries
  <2>3. ASSUME NEW m \in Loop PROVE ExclusiveCallback(m)'
    BY <1>6, <1>a DEF SessionsTypeOK, CallbackKnows, OneToOne,
       ExclusiveCallback, Callback, Idle, addOnlineUser, InsertEntries
  <2>4. QED
    BY <2>1, <2>2, <2>3 DEF ExclusiveInv
<1>7. ASSUME NEW l \in Loop, LoginReply(l) PROVE ExclusiveInv'
  <2>1. OneToOne'
    BY <1>7, <1>a DEF SessionsTypeOK, CallbackKnows, OneToOne,
       ExclusiveCallback, LoginReply
  <2>2. CloseRemovesPlayer'
    BY <1>7, <1>a DEF SessionsTypeOK, CallbackKnows, OneToOne,
       ExclusiveCallback, CloseRemovesPlayer, Closing, Callback, Idle, LoginReply
  <2>3. ASSUME NEW m \in Loop PROVE ExclusiveCallback(m)'
    BY <1>7, <1>a DEF SessionsTypeOK, CallbackKnows, OneToOne,
       ExclusiveCallback, Callback, Idle, LoginReply
  <2>4. QED
    BY <2>1, <2>2, <2>3 DEF ExclusiveInv
<1>8. ASSUME NEW l \in Loop, CloseLookup(l) PROVE ExclusiveInv'
  <2> DEFINE c == io[l].conn
             u == connUser[c]
  <2>1. /\ c \in Conn /\ u \in User \cup {NoUser} /\ io[l].pc = "lookup"
        /\ UNCHANGED <<link, userConn, connUser>>
    BY <1>8, <1>a DEF CloseLookup, CallbackKnows, SessionsTypeOK
  <2>2. \/ u = NoUser /\ io' = [io EXCEPT ![l] = Idle]
        \/ /\ u # NoUser
           /\ io' = [io EXCEPT ![l] = [pc |-> "remove", conn |-> c, user |-> u]]
    BY <1>8 DEF CloseLookup, getUserIdByConn, Callback
  <2> HIDE DEF u, c
  <2>3. OneToOne'
    BY <2>1, <1>a DEF OneToOne
  <2>4. ASSUME NEW v \in User, NEW d \in Conn, userConn[v] = d, link[d] # "up"
        PROVE  Closing(d)'
    <3>1. PICK m \in Loop : /\ io[m].conn = d
                            /\ io[m].pc \in {"lookup", "remove", "erase"}
      BY <2>4, <1>a DEF CloseRemovesPlayer, Closing
    <3>2. CASE m = l
      <4>1. u = v /\ u # NoUser
        BY <3>1, <3>2, <2>4, <1>a DEF OneToOne, u, c
      <4>2. io'[l].conn = d /\ io'[l].pc = "remove"
        BY <4>1, <2>2, <3>1, <3>2, <1>a DEF SessionsTypeOK, c
      <4>3. QED
        BY <4>2 DEF Closing
    <3>3. CASE m # l
      <4>1. io'[m] = io[m]
        BY <3>3, <2>2, <1>a DEF SessionsTypeOK
      <4>2. QED
        BY <4>1, <3>1 DEF Closing
    <3>4. QED
      BY <3>2, <3>3
  <2>5. ASSUME NEW m \in Loop PROVE ExclusiveCallback(m)'
    <3>1. CASE m = l
      BY <3>1, <2>1, <2>2, <1>a DEF ExclusiveCallback, Idle, SessionsTypeOK, u
    <3>2. CASE m # l
      <4>1. io'[m] = io[m] /\ ExclusiveCallback(m)
        BY <3>2, <2>2, <1>a DEF SessionsTypeOK
      <4>2. io'[l].user \in {u, NoUser}
        BY <2>2, <1>a DEF SessionsTypeOK, Idle
      <4>3. ASSUME io[m].pc \in {"query", "add"} PROVE io'[l].user # io[m].user
        <5>1. io[m].user \in User /\ userConn[io[m].user] = NoConn
          BY <4>1, <4>3, <1>a DEF CallbackKnows, ExclusiveCallback
        <5>2. u = NoUser \/ userConn[u] = c
          BY <2>1, <1>a DEF OneToOne, u
        <5>3. QED
          BY <5>1, <5>2, <4>2, <2>1
      <4>4. ASSUME NEW k \in Loop, k # l PROVE io'[k] = io[k]
        BY <4>4, <2>2, <1>a DEF SessionsTypeOK
      <4>5. QED
        BY <4>1, <4>3, <4>4, <2>1 DEF ExclusiveCallback
    <3>3. QED
      BY <3>1, <3>2
  <2>6. CloseRemovesPlayer'
    BY <2>1, <2>4 DEF CloseRemovesPlayer
  <2>7. QED
    BY <2>3, <2>5, <2>6 DEF ExclusiveInv
<1>9. ASSUME NEW l \in Loop, LockForRemove(l) PROVE ExclusiveInv'
  <2>1. OneToOne'
    BY <1>9, <1>a DEF SessionsTypeOK, CallbackKnows, OneToOne,
       ExclusiveCallback, LockForRemove
  <2>2. CloseRemovesPlayer'
    BY <1>9, <1>a DEF SessionsTypeOK, CallbackKnows, OneToOne,
       ExclusiveCallback, CloseRemovesPlayer, Closing, Callback, Idle, LockForRemove
  <2>3. ASSUME NEW m \in Loop PROVE ExclusiveCallback(m)'
    BY <1>9, <1>a DEF SessionsTypeOK, CallbackKnows, OneToOne,
       ExclusiveCallback, Callback, Idle, LockForRemove
  <2>4. QED
    BY <2>1, <2>2, <2>3 DEF ExclusiveInv
<1>10. ASSUME NEW l \in Loop, removeOnlineUser(l) PROVE ExclusiveInv'
  <2> DEFINE u == io[l].user
             c == io[l].conn
  <2>1. /\ u \in User /\ c \in Conn /\ connUser[c] = u /\ userConn[u] = c
        /\ c # NoConn /\ u # NoUser
    BY <1>10, <1>a DEF removeOnlineUser, EraseEntries, CallbackKnows, ExclusiveCallback,
                       OneToOne
  <2>2. /\ userConn' = [userConn EXCEPT ![u] = NoConn]
        /\ connUser' = [connUser EXCEPT ![c] = NoUser]
        /\ io' = [io EXCEPT ![l] = Idle]
        /\ link' = link
    BY <2>1, <1>10 DEF removeOnlineUser, EraseEntries, EraseEntries
  <2> HIDE DEF u, c
  <2>3. OneToOne'
    BY <2>1, <2>2, <1>a DEF SessionsTypeOK, OneToOne
  <2>4. ASSUME NEW v \in User, NEW d \in Conn, userConn'[v] = d
        PROVE  link'[d] = "up" \/ Closing(d)'
    <3>1. v # u /\ userConn[v] = d
      BY <2>1, <2>2, <2>4, <1>a DEF SessionsTypeOK
    <3>2. connUser[d] = v /\ d # c
      BY <3>1, <2>1, <1>a DEF OneToOne
    <3>3. CASE link[d] = "up"
      BY <3>3, <2>2
    <3>4. CASE Closing(d)
      <4>1. PICK m \in Loop : /\ io[m].conn = d
                              /\ io[m].pc \in {"lookup", "remove", "erase"}
        BY <3>4 DEF Closing
      <4>2. m # l /\ io'[m] = io[m]
        BY <4>1, <3>2, <2>2, <1>a DEF c, SessionsTypeOK
      <4>3. QED
        BY <4>1, <4>2 DEF Closing
    <3>5. QED
      BY <3>1, <3>3, <3>4, <1>a DEF CloseRemovesPlayer
  <2>5. ASSUME NEW m \in Loop PROVE ExclusiveCallback(m)'
    <3>1. CASE m = l
      BY <3>1, <2>2, <1>a DEF ExclusiveCallback, Idle, SessionsTypeOK
    <3>2. CASE m # l
      <4>1. io'[m] = io[m] /\ (io[m].pc # "idle" => io[m].conn # c)
        BY <3>2, <2>1, <2>2, <1>10, <1>a
           DEF SessionsTypeOK, CallbackKnows, removeOnlineUser, c
      <4>2. ASSUME io[m].pc \in {"query", "add"}
            PROVE  /\ userConn'[io[m].user] = NoConn
                   /\ connUser'[io[m].conn] = NoUser
                   /\ \A k \in Loop \ {m} : io'[k].user # io[m].user
        <5>1. io[m].user \in User /\ io[m].conn \in Conn
          BY <4>2, <1>a DEF CallbackKnows
        <5>2. QED
          BY <5>1, <4>1, <4>2, <2>1, <2>2, <1>a
             DEF ExclusiveCallback, SessionsTypeOK, Idle
      <4>3. ASSUME io[m].pc \in {"remove", "erase"}
            PROVE  connUser'[io[m].conn] = io[m].user
        BY <4>1, <4>3, <2>1, <2>2, <1>a
           DEF ExclusiveCallback, CallbackKnows, SessionsTypeOK
      <4>4. QED
        BY <4>1, <4>2, <4>3 DEF ExclusiveCallback
    <3>3. QED
      BY <3>1, <3>2
  <2>6. QED
    BY <2>3, <2>4, <2>5 DEF ExclusiveInv, CloseRemovesPlayer
<1>11. CASE UNCHANGED sessionVars
  BY <1>11, <1>a DEF sessionVars, ExclusiveInv, OneToOne, CloseRemovesPlayer,
     Closing, ExclusiveCallback
<1>12. QED
  BY <1>1, <1>2, <1>3, <1>4, <1>5, <1>6, <1>7, <1>8, <1>9, <1>10, <1>11
     DEF SessionsNext, SessionStep

\* A session one of whose entries exists has all of them: a user's UserInfo
\* names the connection its entry does, and that connection's entry the user.
LEMMA WholeFromParts ==
    Base /\ OnlineTogether /\ OneToOne => SessionWhole
<1> SUFFICES ASSUME Base, OnlineTogether, OneToOne,
                    NEW u \in User, NEW c \in Conn,
                    \/ userConn[u] = c
                    \/ connUser[c] = u
                    \/ userObj[u] # NoObj /\ heap[userObj[u]].conn = c
             PROVE  /\ userConn[u] = c
                    /\ connUser[c] = u
                    /\ userObj[u] \in 1..Len(heap)
                    /\ heap[userObj[u]] = [user |-> u, conn |-> c]
  BY DEF SessionWhole
<1>1. userConn[u] = c /\ c # NoConn
  <2>1. CASE userObj[u] # NoObj /\ heap[userObj[u]].conn = c
    <3>1. heap[userObj[u]] = [user |-> u, conn |-> userConn[u]]
      BY <2>1 DEF OnlineTogether
    <3>2. heap[userObj[u]].conn = userConn[u]
      BY <3>1
    <3>3. QED
      BY <3>2, <2>1, NoConnAssumption
  <2>2. CASE userConn[u] = c \/ connUser[c] = u
    BY <2>2, NoConnAssumption DEF OneToOne
  <2>3. QED
    BY <2>1, <2>2
<1>2. connUser[c] = u
  BY <1>1 DEF OneToOne
<1>3. Online(u)
  BY <1>1 DEF Online
<1>4. userObj[u] # NoObj /\ userObj[u] <= Len(heap)
      /\ heap[userObj[u]] = [user |-> u, conn |-> c]
  BY <1>1, <1>3 DEF OnlineTogether
<1>5. userObj[u] \in Nat /\ Len(heap) \in Nat
  BY DEF Base, SessionsTypeOK
<1>6. userObj[u] \in 1..Len(heap)
  BY <1>4, <1>5 DEF NoObj
<1>7. QED
  BY <1>1, <1>2, <1>4, <1>6

\* When clients log in exclusively, the three maps of UserManager agree about
\* every session (UserManager.cc:8, :20).
THEOREM MapsAgree ==
    ASSUME Logins # "any"
    PROVE  SessionsSpec => []SessionWhole
<1>1. Base /\ OnlineTogether /\ ExclusiveInv => SessionWhole
  BY WholeFromParts DEF ExclusiveInv
<1>2. Base /\ ExclusiveInv /\ [SessionsNext]_sessionVars => ExclusiveInv'
  BY ExclusiveStep
<1>3. QED
  BY BaseInit, BaseStep, OnlineInit, OnlineStep, ExclusiveInit, <1>1, <1>2, PTL
     DEF SessionsSpec

\* Once the callback of a connection that is down has ended, nobody is online
\* through that connection (removeConn, ConnManager.cc:21).
THEOREM CloseEndsSession ==
    ASSUME Logins # "any"
    PROVE  SessionsSpec => []CloseRemovesPlayer
<1>1. ExclusiveInv => CloseRemovesPlayer
  BY DEF ExclusiveInv
<1>2. Base /\ ExclusiveInv /\ [SessionsNext]_sessionVars => ExclusiveInv'
  BY ExclusiveStep
<1>3. QED
  BY BaseInit, BaseStep, ExclusiveInit, <1>1, <1>2, PTL DEF SessionsSpec
=============================================================================
