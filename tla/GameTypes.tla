----------------------------- MODULE GameTypes -----------------------------
(***************************************************************************)
(* The whole game, for any number of loops, connections, users and rooms.  *)
(* Type correctness, whatever clients do: an index into the UserInfo       *)
(* objects is one that exists, and whoever is told anything has logged in. *)
(* Points: the memory agrees with the database, as long as every account   *)
(* logs in once, no UPDATE fails and nobody's points fall below 0 or reach *)
(* PointWidth.  The pair: while nobody hangs up, the match thread finds    *)
(* both players online, whatever else clients do.  The module also has the *)
(* lemmas on sequences that GameProofs needs.                              *)
(***************************************************************************)
EXTENDS GameServer, SessionsProofs, FiniteSetTheorems, SequenceTheorems

-----------------------------------------------------------------------------
(* To the sessions every step of the game is a step of theirs or none.     *)

LEMMA Lifted == GameNext => [SessionsNext]_sessionVars
<1> SUFFICES ASSUME GameNext PROVE SessionsNext \/ UNCHANGED sessionVars
  OBVIOUS
<1> USE DEF restVars, handlerVars, matchVars
<1>1. ASSUME NEW c \in Conn, Accept(c) \/ Disconnect(c)
      PROVE  SessionsNext
  BY <1>1 DEF Accept, Disconnect, SessionsNext
<1>2. ASSUME NEW c \in Conn, AskStart(c) \/ AskCancel(c) \/ AskInRoom(c)
      PROVE  UNCHANGED sessionVars
  BY <1>2 DEF AskStart, AskCancel, AskInRoom, AskMove, AskChat, AskExit, Ask
<1>3. ASSUME NEW c \in Conn, NEW r \in Request, Begin(c, r)
      PROVE  UNCHANGED sessionVars
  BY <1>3 DEF Begin
<1>3a. ASSUME NEW c \in Conn, NEW r \in Request, NEW u \in User,
              ForeignRequest(c, r, u)
       PROVE  UNCHANGED sessionVars
  BY <1>3a DEF ForeignRequest
<1>4. ASSUME NEW l \in Loop, SessionOnly(l) \/ LoginAck(l) PROVE SessionsNext
  BY <1>4 DEF SessionOnly, LoginAck, SessionsNext, SessionStep
<1>5. ASSUME NEW l \in Loop, LockPool(l) \/ NullUser(l) \/ MatchAck(l)
                             \/ doPendingFunctor(l)
      PROVE  UNCHANGED sessionVars
  BY <1>5 DEF LockPool, NullUser, MatchAck, doPendingFunctor
<1>6. ASSUME NEW l \in Loop, addUser(l) \/ removeFromPool(l)
      PROVE  UNCHANGED sessionVars
  BY <1>6 DEF addUser, removeFromPool, Unlock
<1>7. ASSUME matchThread PROVE UNCHANGED sessionVars
  BY <1>7 DEF matchThread, MatcherTest, MatcherTake, MatcherLookup,
     MatcherDecide, MatcherTell, MatcherCreateRoom, MatcherSetGaming,
     MatcherPush
<1>8. ASSUME NEW c \in Conn, NEW u \in User, GameLogin(c, u)
      PROVE  SessionsNext
  BY <1>8 DEF GameLogin, Login, SessionsNext
<1>9. ASSUME NEW l \in Loop, GameLoginAdd(l) PROVE SessionsNext
  BY <1>9 DEF GameLoginAdd, LoginAdd, SessionsNext, SessionStep
<1>10. ASSUME NEW l \in Loop,
              \/ FindSender(l) \/ FindOther(l) \/ FindPeer(l) \/ onChat(l)
              \/ handChess(l) \/ TellMove(l) \/ ExitRoom(l) \/ ExitDone(l)
       PROVE  UNCHANGED sessionVars
  BY <1>10 DEF FindSender, FindOther, FindPeer, onChat, handChess, TellMove,
     ExitRoom, ExitDone
<1>11. ASSUME NEW l \in Loop,
              \/ DbWin(l) \/ DbLose(l) \/ winGame(l) \/ loseGame(l)
              \/ TellWinner(l) \/ TellLoser(l) \/ NullConnection(l)
       PROVE  UNCHANGED sessionVars
  BY <1>11 DEF DbWin, DbLose, DbUpdate, winGame, loseGame, Score, TellWinner,
     TellLoser, NullConnection
<1>12. QED
  BY <1>1, <1>2, <1>3, <1>3a, <1>4, <1>5, <1>6, <1>7, <1>8, <1>9, <1>10, <1>11
     DEF GameNext, MatchOnly, HandlerStep, GameStep

-----------------------------------------------------------------------------
(* Sequences: writing one element, and what Without leaves.                *)

\* Every set of naturals that is not empty has a least element.
LEMMA Least ==
    ASSUME NEW T \in SUBSET Nat, T # {}
    PROVE  \E x \in T : \A y \in T : x <= y
<1>1. PICK x \in T : \A y \in T : ~ (<<y, x>> \in OpToRel(<, Nat))
  BY NatLessThanWellFounded, WFMin
<1>2. \A y \in T : ~ (y < x)
  BY <1>1 DEF OpToRel
<1>3. QED
  BY <1>2

LEMMA VectorOf ==
    ASSUME NEW S, NEW n \in Nat, NEW f \in [1..n -> S]
    PROVE  f \in Seq(S) /\ Len(f) = n
OBVIOUS

\* A count that grows by at most one a step takes every value up to its last.
LEMMA EveryCount ==
    ASSUME NEW k \in Nat, NEW count \in [0..k -> Nat], NEW kept,
           count[0] = 0,
           \A i \in 1..k : count[i] = count[i - 1] + IF i \in kept THEN 1 ELSE 0,
           NEW n \in 1..count[k]
    PROVE  \E i \in 1..k : i \in kept /\ count[i] = n
<1> DEFINE T == {i \in 0..k : n <= count[i]}
<1>1. k \in T /\ T \in SUBSET Nat
  OBVIOUS
<1>2. PICK i \in T : \A m \in T : i <= m
  BY <1>1, Least
<1>3. i \in 1..k /\ i - 1 \in 0..k /\ i - 1 \notin T
  BY <1>2
<1>4. count[i - 1] \in Nat /\ count[i - 1] < n /\ n <= count[i]
  BY <1>2, <1>3
<1>5. count[i] = count[i - 1] + IF i \in kept THEN 1 ELSE 0
  BY <1>3
<1>6. count[i] \in Nat /\ n \in Nat
  BY <1>2
<1>7. i \in kept /\ count[i] = n
  BY <1>4, <1>5, <1>6
<1>8. QED
  BY <1>3, <1>7

\* The kept positions are numbered without gaps.
LEMMA NthKept ==
    ASSUME NEW k \in Nat, NEW kept \in SUBSET (1..k),
           NEW n \in 1..Cardinality(kept)
    PROVE  \E i \in kept : Cardinality({j \in kept : j <= i}) = n
<1> DEFINE Upto(i) == {j \in kept : j <= i}
<1>1. ASSUME NEW i \in 0..k
      PROVE  IsFiniteSet(Upto(i)) /\ Cardinality(Upto(i)) \in Nat
  <2>1. IsFiniteSet(1..k)
    BY FS_Interval
  <2>2. Upto(i) \in SUBSET (1..k)
    OBVIOUS
  <2>3. QED
    BY <2>1, <2>2, FS_Subset, FS_CardinalityType
<1>0. \A j \in kept : j \in Int /\ 1 <= j /\ j <= k
  OBVIOUS
<1>2. Upto(k) = kept /\ Upto(0) = {}
  <2>1. \A j \in kept : j <= k /\ ~ (j <= 0)
    BY <1>0
  <2>2. QED
    BY <2>1, Zenon
<1>3. ASSUME NEW i \in 1..k
      PROVE  Cardinality(Upto(i))
               = Cardinality(Upto(i - 1)) + IF i \in kept THEN 1 ELSE 0
  <2>1. i - 1 \in 0..k
    OBVIOUS
  <2>2. CASE i \in kept
    <3>0. /\ \A j \in kept : j <= i <=> j <= i - 1 \/ j = i
          /\ ~ (i <= i - 1)
      BY <1>0
    <3>1. Upto(i) = Upto(i - 1) \cup {i} /\ i \notin Upto(i - 1)
      BY <2>2, <3>0, Zenon
    <3>2. IsFiniteSet(Upto(i - 1))
      BY <2>1, <1>1
    <3> HIDE DEF Upto
    <3>3. Cardinality(Upto(i - 1) \cup {i}) = Cardinality(Upto(i - 1)) + 1
      BY <3>1, <3>2, FS_AddElement
    <3>4. QED
      BY <2>2, <3>1, <3>3
  <2>3. CASE i \notin kept
    <3>1. \A j \in kept : j <= i <=> j <= i - 1
      BY <2>3, <1>0
    <3>2a. Upto(i) = Upto(i - 1)
      BY <3>1
    <3>2. Cardinality(Upto(i - 1)) \in Nat
      BY <2>1, <1>1
    <3> HIDE DEF Upto
    <3>3. QED
      BY <2>3, <3>2a, <3>2
  <2>4. QED
    BY <2>2, <2>3
<1> DEFINE count == [i \in 0..k |-> Cardinality(Upto(i))]
<1> HIDE DEF Upto
<1>4. count \in [0..k -> Nat]
  BY <1>1
<1>5. count[0] = 0
  BY <1>2, FS_EmptySet
<1>6. \A i \in 1..k : count[i] = count[i - 1] + IF i \in kept THEN 1 ELSE 0
  BY <1>3
<1>7. n \in 1..count[k]
  BY <1>2
<1> HIDE DEF count
<1>8. PICK i \in 1..k : i \in kept /\ count[i] = n
  <2>1. \A m \in 1..count[k] : \E i \in 1..k : i \in kept /\ count[i] = m
    BY ZenonT(30), <1>4, <1>5, <1>6, EveryCount
  <2>2. QED
    BY <2>1, <1>7
<1>9. QED
  BY <1>8 DEF count, Upto

LEMMA WithoutType ==
    ASSUME NEW S, NEW users \in Seq(S), NEW user
    PROVE  Without(users, user) \in Seq(S)
<1> DEFINE kept == {i \in DOMAIN users : users[i] # user}
           pick(n) == CHOOSE i \in kept : Cardinality({j \in kept : j <= i}) = n
<1>1. kept \in SUBSET (1..Len(users)) /\ Len(users) \in Nat
  BY LenProperties
<1>2. Cardinality(kept) \in Nat
  <2>1. IsFiniteSet(1..Len(users))
    BY <1>1, FS_Interval
  <2>2. QED
    BY <1>1, <2>1, FS_Subset, FS_CardinalityType
<1>3. ASSUME NEW n \in 1..Cardinality(kept) PROVE users[pick(n)] \in S
  <2>1. \E i \in kept : Cardinality({j \in kept : j <= i}) = n
    BY <1>1, NthKept
  <2>2. pick(n) \in kept
    BY <2>1
  <2> HIDE DEF pick
  <2>3. pick(n) \in 1..Len(users)
    BY <2>2, <1>1
  <2>4. QED
    BY <2>3, ElementOfSeq
<1>4. [n \in 1..Cardinality(kept) |-> users[pick(n)]]
        \in [1..Cardinality(kept) -> S]
  BY <1>3
<1>5. QED
  BY <1>2, <1>4, VectorOf DEF Without

\* One entry goes, the others keep their order.
LEMMA WithoutOne ==
    ASSUME NEW S, NEW users \in Seq(S), NEW user, NEW k \in 1..Len(users),
           \A i \in 1..Len(users) : users[i] = user <=> i = k
    PROVE  /\ Len(Without(users, user)) = Len(users) - 1
           /\ \A n \in 1..(Len(users) - 1) :
                 Without(users, user)[n] = users[IF n < k THEN n ELSE n + 1]
<1> DEFINE kept == {i \in DOMAIN users : users[i] # user}
           pick(n) == CHOOSE i \in kept : Cardinality({j \in kept : j <= i}) = n
           last == Len(users)
<1>1. last \in Nat /\ DOMAIN users = 1..last
  BY LenProperties
<1>2. kept = (1..last) \ {k}
  BY <1>1
<1>3. ASSUME NEW i \in kept
      PROVE  Cardinality({j \in kept : j <= i}) = IF i < k THEN i ELSE i - 1
  <2>1. IsFiniteSet(1..i) /\ Cardinality(1..i) = i
    BY <1>2, FS_Interval
  <2>2. {j \in kept : j <= i} = (1..i) \ {k}
    BY <1>2
  <2>3. k \in 1..i <=> ~ (i < k)
    BY <1>2
  <2>4. i \in Nat /\ k \in Nat
    BY <1>2, <1>1
  <2>5. CASE i < k
    <3>1. (1..i) \ {k} = 1..i
      BY <2>4, <2>5
    <3>2. QED
      BY <2>1, <2>2, <3>1, <2>5
  <2>6. CASE ~ (i < k)
    <3>1. Cardinality((1..i) \ {k}) = Cardinality(1..i) - 1
      BY <2>1, <2>3, <2>6, FS_RemoveElement
    <3>2. QED
      BY <2>1, <2>2, <3>1, <2>6
  <2>7. QED
    BY <2>5, <2>6
<1>4. Cardinality(kept) = last - 1
  <2>1. IsFiniteSet(1..last) /\ Cardinality(1..last) = last
    BY SMTT(30), <1>1, FS_Interval
  <2>2. QED
    BY <2>1, <1>2, FS_RemoveElement
<1>5. ASSUME NEW n \in 1..(last - 1)
      PROVE  pick(n) = IF n < k THEN n ELSE n + 1
  <2> DEFINE m == IF n < k THEN n ELSE n + 1
  <2>1. m \in kept /\ (IF m < k THEN m ELSE m - 1) = n
    BY <1>1, <1>2
  <2>2. \A i \in kept : (IF i < k THEN i ELSE i - 1) = n => i = m
    BY <1>1, <1>2
  <2>3. Cardinality({j \in kept : j <= m}) = n
    BY <2>1, <1>3
  <2>4. \A i \in kept : Cardinality({j \in kept : j <= i}) = n => i = m
    BY <2>2, <1>3
  <2> HIDE DEF m, kept
  <2>5. pick(n) = m
    BY <2>1, <2>3, <2>4
  <2>6. QED
    BY <2>5 DEF m
<1>6. Without(users, user) = [n \in 1..(last - 1) |-> users[pick(n)]]
  BY <1>4 DEF Without
<1> HIDE DEF pick, kept
<1>7. \A n \in 1..(last - 1) : Without(users, user)[n] = users[pick(n)]
  BY <1>6
<1>8. Len(Without(users, user)) = last - 1
  BY <1>1, <1>6, WithoutType, LenProperties
<1>9. QED
  BY <1>5, <1>7, <1>8


\* Writing one field of the UserInfo object o.
InfoEntry == [state : {"online", "matching", "gaming"}, points : Nat]

LEMMA SetState ==
    ASSUME info \in Seq(InfoEntry), NEW o \in 1..Len(info),
           NEW st \in {"online", "matching", "gaming"},
           info' = [info EXCEPT ![o].state = st]
    PROVE  /\ info' \in Seq(InfoEntry) /\ Len(info') = Len(info)
           /\ \A p \in 1..Len(info) :
                 /\ info'[p].state = IF p = o THEN st ELSE info[p].state
                 /\ info'[p].points = info[p].points
<1>1. Len(info) \in Nat /\ info \in [1..Len(info) -> InfoEntry]
  BY LenProperties
<1>2. info' = [info EXCEPT ![o] = [info[o] EXCEPT !.state = st]]
  OBVIOUS
<1>3. info' \in [1..Len(info) -> InfoEntry]
  BY <1>1, <1>2 DEF InfoEntry
<1>4. info' \in Seq(InfoEntry) /\ Len(info') = Len(info)
  BY <1>1, <1>3, VectorOf
<1>5. \A p \in 1..Len(info) :
         /\ info'[p].state = IF p = o THEN st ELSE info[p].state
         /\ info'[p].points = info[p].points
  BY <1>1, <1>2 DEF InfoEntry
<1>6. QED
  BY <1>4, <1>5

LEMMA SetPoints ==
    ASSUME info \in Seq(InfoEntry), NEW o \in 1..Len(info), NEW n \in Nat,
           info' = [info EXCEPT ![o].points = n]
    PROVE  /\ info' \in Seq(InfoEntry) /\ Len(info') = Len(info)
           /\ \A p \in 1..Len(info) :
                 /\ info'[p].state = info[p].state
                 /\ info'[p].points = IF p = o THEN n ELSE info[p].points
<1>1. Len(info) \in Nat /\ info \in [1..Len(info) -> InfoEntry]
  BY LenProperties
<1>2. info' = [info EXCEPT ![o] = [info[o] EXCEPT !.points = n]]
  OBVIOUS
<1>3. info' \in [1..Len(info) -> InfoEntry]
  BY <1>1, <1>2 DEF InfoEntry
<1>4. info' \in Seq(InfoEntry) /\ Len(info') = Len(info)
  BY <1>1, <1>3, VectorOf
<1>5. \A p \in 1..Len(info) :
         /\ info'[p].state = info[p].state
         /\ info'[p].points = IF p = o THEN n ELSE info[p].points
  BY <1>1, <1>2 DEF InfoEntry
<1>6. QED
  BY <1>4, <1>5

\* The match thread makes two of them GAMING.
LEMMA SetGaming ==
    ASSUME info \in Seq(InfoEntry), NEW T,
           info' = [o \in DOMAIN info |->
                      IF o \in T THEN [info[o] EXCEPT !.state = "gaming"]
                      ELSE info[o]]
    PROVE  /\ info' \in Seq(InfoEntry) /\ Len(info') = Len(info)
           /\ \A p \in 1..Len(info) :
                 /\ info'[p].state = IF p \in T THEN "gaming" ELSE info[p].state
                 /\ info'[p].points = info[p].points
<1>1. Len(info) \in Nat /\ info \in [1..Len(info) -> InfoEntry]
  BY LenProperties
<1>2. info' \in [1..Len(info) -> InfoEntry]
  BY <1>1 DEF InfoEntry
<1>3. info' \in Seq(InfoEntry) /\ Len(info') = Len(info)
  BY <1>1, <1>2, VectorOf
<1>4. \A p \in 1..Len(info) :
         /\ info'[p].state = IF p \in T THEN "gaming" ELSE info[p].state
         /\ info'[p].points = info[p].points
  BY <1>1 DEF InfoEntry
<1>5. QED
  BY <1>3, <1>4

RoomEntry == [white : User, black : User, count : 0..(CountWidth - 1)]

LEMMA SetCount ==
    ASSUME rooms \in Seq(RoomEntry), NEW r \in 1..Len(rooms),
           NEW n \in 0..(CountWidth - 1),
           rooms' = [rooms EXCEPT ![r].count = n]
    PROVE  /\ rooms' \in Seq(RoomEntry) /\ Len(rooms') = Len(rooms)
           /\ \A q \in 1..Len(rooms) : Players(q)' = Players(q)
<1>1. Len(rooms) \in Nat /\ rooms \in [1..Len(rooms) -> RoomEntry]
  BY LenProperties
<1>2. rooms' = [rooms EXCEPT ![r] = [rooms[r] EXCEPT !.count = n]]
  OBVIOUS
<1>3. rooms' \in [1..Len(rooms) -> RoomEntry]
  BY <1>1, <1>2 DEF RoomEntry
<1>4. rooms' \in Seq(RoomEntry) /\ Len(rooms') = Len(rooms)
  BY <1>1, <1>3, VectorOf
<1>5. \A q \in 1..Len(rooms) : Players(q)' = Players(q)
  BY <1>1, <1>2 DEF RoomEntry, Players
<1>6. QED
  BY <1>4, <1>5

\* A set of indices that is not empty has a greatest one.
LEMMA Greatest ==
    ASSUME NEW n \in Nat, NEW T \in SUBSET (1..n), T # {}
    PROVE  \E x \in T : \A y \in T : y <= x
<1> DEFINE S == {m \in 0..n : n - m \in T}
<1>1. PICK t \in T : TRUE
  OBVIOUS
<1>2. t \in 1..n /\ n - t \in 0..n /\ n - (n - t) = t
  OBVIOUS
<1>3. n - t \in S /\ S \in SUBSET Nat
  BY <1>2
<1>4. PICK m \in S : \A k \in S : m <= k
  BY <1>3, Least
<1>5. n - m \in T /\ m \in 0..n
  BY <1>4
<1>6. ASSUME NEW y \in T PROVE y <= n - m
  <2>1. y \in 1..n /\ n - y \in 0..n /\ n - (n - y) = y
    OBVIOUS
  <2>2. n - y \in S
    BY <2>1
  <2>3. m <= n - y
    BY <1>4, <2>2
  <2>4. QED
    BY <2>1, <2>3, <1>5
<1>7. QED
  BY <1>5, <1>6

-----------------------------------------------------------------------------
(* Who writes what.                                                        *)

LEMMA WhoWrites ==
    ASSUME GameNext
    PROVE
    /\ \/ UNCHANGED link
       \/ \E c \in Conn : Accept(c) \/ Disconnect(c)
    /\ \/ UNCHANGED conns
       \/ \E c \in Conn : Accept(c) \/ Disconnect(c)
    /\ \/ UNCHANGED userConn
       \/ \E l \in Loop : SessionOnly(l) \/ GameLoginAdd(l)
    /\ \/ UNCHANGED connUser
       \/ \E l \in Loop : SessionOnly(l) \/ GameLoginAdd(l)
    /\ \/ UNCHANGED userObj
       \/ \E l \in Loop : SessionOnly(l) \/ GameLoginAdd(l)
    /\ \/ UNCHANGED heap
       \/ \E l \in Loop : GameLoginAdd(l)
    /\ \/ UNCHANGED io
       \/ \E l \in Loop : SessionOnly(l) \/ LoginAck(l) \/ GameLoginAdd(l)
       \/ \E c \in Conn : Accept(c) \/ Disconnect(c)
       \/ \E c \in Conn, u \in User : GameLogin(c, u)
    /\ \/ UNCHANGED rooms
       \/ MatcherCreateRoom
       \/ \E l \in Loop : ExitRoom(l)
    /\ \/ UNCHANGED roomOf
       \/ MatcherCreateRoom
       \/ \E l \in Loop : ExitRoom(l)
    /\ \/ UNCHANGED roomIds
       \/ MatcherCreateRoom
    /\ \/ UNCHANGED roomLock
       \/ \E l \in Loop : ExitRoom(l) \/ ExitDone(l)
    /\ \/ UNCHANGED leaver
       \/ \E l \in Loop : ExitRoom(l) \/ ExitDone(l)
    /\ \/ UNCHANGED info
       \/ MatcherDecide
       \/ MatcherSetGaming
       \/ \E l \in Loop : addUser(l) \/ removeFromPool(l) \/ GameLoginAdd(l)
          \/ winGame(l) \/ loseGame(l) \/ ExitDone(l)
    /\ \/ UNCHANGED pool
       \/ MatcherTake
       \/ \E l \in Loop : addUser(l) \/ removeFromPool(l)
    /\ \/ UNCHANGED matchLock
       \/ MatcherTest
       \/ \E l \in Loop : LockPool(l) \/ addUser(l) \/ removeFromPool(l)
    /\ \/ UNCHANGED mt
       \/ MatcherTest
       \/ MatcherTake
       \/ MatcherLookup
       \/ MatcherDecide
       \/ MatcherTell
       \/ MatcherCreateRoom
       \/ MatcherSetGaming
       \/ MatcherPush
       \/ \E l \in Loop : addUser(l)
    /\ \/ UNCHANGED hnd
       \/ \E l \in Loop : LockPool(l) \/ addUser(l) \/ removeFromPool(l) \/
          MatchAck(l) \/ FindSender(l) \/ FindOther(l) \/ FindPeer(l) \/
          onChat(l) \/ handChess(l) \/ TellMove(l) \/ DbWin(l) \/ DbLose(l) \/
          winGame(l) \/ loseGame(l) \/ TellWinner(l) \/ TellLoser(l) \/
          ExitRoom(l) \/ ExitDone(l)
       \/ \E c \in Conn, r \in Request : Begin(c, r)
       \/ \E c \in Conn, r \in Request, u \in User : ForeignRequest(c, r, u)
    /\ \/ UNCHANGED pending
       \/ MatcherTell
       \/ MatcherPush
       \/ \E l \in Loop : doPendingFunctor(l) \/ onChat(l) \/ TellMove(l) \/
          TellWinner(l) \/ TellLoser(l)
    /\ \/ UNCHANGED batch
       \/ \E l \in Loop : doPendingFunctor(l)
    /\ \/ UNCHANGED inbox
       \/ \E c \in Conn : Disconnect(c) \/ AskStart(c) \/ AskCancel(c) \/
          AskInRoom(c)
       \/ \E c \in Conn, r \in Request : Begin(c, r)
    /\ \/ UNCHANGED client
       \/ \E l \in Loop : LoginAck(l) \/ MatchAck(l) \/ doPendingFunctor(l)
          \/ onChat(l) \/ TellMove(l) \/ TellWinner(l) \/ TellLoser(l)
       \/ \E c \in Conn : AskStart(c) \/ AskCancel(c) \/ AskInRoom(c)
    /\ \/ UNCHANGED crashed
       \/ MatcherDecide
       \/ MatcherSetGaming
       \/ \E l \in Loop : NullUser(l) \/ winGame(l) \/ loseGame(l) \/
          ExitDone(l) \/ NullConnection(l)
    /\ \/ UNCHANGED db
       \/ \E l \in Loop : DbWin(l) \/ DbLose(l)
    /\ \/ UNCHANGED row
       \/ \E l \in Loop : GameLoginAdd(l)
       \/ \E c \in Conn, u \in User : GameLogin(c, u)
    /\ \/ UNCHANGED wins
       \/ \E l \in Loop : handChess(l)
<1> USE DEF restVars, handlerVars, matchVars, sessionVars, roomVars, gameVars
<1>1. ASSUME NEW c \in Conn, Accept(c), UNCHANGED gameVars
      PROVE  UNCHANGED <<userConn, connUser, userObj, heap, rooms, roomOf, roomIds,
                     roomLock, leaver, info, pool,
                     matchLock, mt, hnd, pending, batch,
                     inbox, client, crashed, db, row, wins>>
  BY <1>1 DEF Accept, addConn
<1>2. ASSUME NEW c \in Conn, Disconnect(c), UNCHANGED gameVars
      PROVE  UNCHANGED <<userConn, connUser, userObj, heap, rooms, roomOf, roomIds,
                     roomLock, leaver, info, pool,
                     matchLock, mt, hnd, pending, batch,
                     client, crashed, db, row, wins>>
  BY <1>2 DEF Disconnect, removeConn, Callback
<1>3. ASSUME NEW c \in Conn, AskStart(c), UNCHANGED gameVars
      PROVE  UNCHANGED <<link, conns, userConn, connUser, userObj, heap, io, rooms,
                     roomOf, roomIds, roomLock, leaver,
                     info, pool, matchLock, mt, hnd,
                     pending, batch, crashed, db, row,
                     wins>>
  BY <1>3 DEF AskStart, Ask
<1>4. ASSUME NEW c \in Conn, AskCancel(c), UNCHANGED gameVars
      PROVE  UNCHANGED <<link, conns, userConn, connUser, userObj, heap, io, rooms,
                     roomOf, roomIds, roomLock, leaver,
                     info, pool, matchLock, mt, hnd,
                     pending, batch, crashed, db, row,
                     wins>>
  BY <1>4 DEF AskCancel, Ask
<1>5. ASSUME NEW c \in Conn, AskInRoom(c), UNCHANGED gameVars
      PROVE  UNCHANGED <<link, conns, userConn, connUser, userObj, heap, io, rooms,
                     roomOf, roomIds, roomLock, leaver,
                     info, pool, matchLock, mt, hnd,
                     pending, batch, crashed, db, row,
                     wins>>
  BY <1>5 DEF AskInRoom, AskMove, AskChat, AskExit, Ask
<1>6. ASSUME NEW c \in Conn, NEW r \in Request, Begin(c, r), UNCHANGED gameVars
      PROVE  UNCHANGED <<link, conns, userConn, connUser, userObj, heap, io, rooms,
                     roomOf, roomIds, roomLock, leaver,
                     info, pool, matchLock, mt, pending,
                     batch, client, crashed, db, row, wins>>
  BY <1>6 DEF Begin
<1>7. ASSUME NEW l \in Loop, SessionOnly(l), UNCHANGED gameVars
      PROVE  UNCHANGED <<link, conns, heap, rooms, roomOf, roomIds, roomLock,
                     leaver, info, pool, matchLock, mt, hnd,
                     pending, batch, inbox, client, crashed,
                     db, row, wins>>
  BY <1>7 DEF SessionOnly, LoginRefused, LockForAdd, CloseLookup, LockForRemove, removeOnlineUser
<1>8. ASSUME NEW l \in Loop, LoginAck(l), UNCHANGED gameVars
      PROVE  UNCHANGED <<link, conns, userConn, connUser, userObj, heap, rooms,
                     roomOf, roomIds, roomLock, leaver,
                     info, pool, matchLock, mt, hnd,
                     pending, batch, inbox, crashed, db,
                     row, wins>>
  BY <1>8 DEF LoginAck, LoginReply
<1>9. ASSUME NEW l \in Loop, LockPool(l), UNCHANGED gameVars
      PROVE  UNCHANGED <<link, conns, userConn, connUser, userObj, heap, io, rooms,
                     roomOf, roomIds, roomLock, leaver,
                     info, pool, mt, pending, batch, inbox,
                     client, crashed, db, row, wins>>
  BY <1>9 DEF LockPool
<1>10. ASSUME NEW l \in Loop, NullUser(l), UNCHANGED gameVars
      PROVE  UNCHANGED <<link, conns, userConn, connUser, userObj, heap, io, rooms,
                     roomOf, roomIds, roomLock, leaver,
                     info, pool, matchLock, mt, hnd,
                     pending, batch, inbox, client, db, row,
                     wins>>
  BY <1>10 DEF NullUser
<1>11. ASSUME NEW l \in Loop, addUser(l), UNCHANGED gameVars
      PROVE  UNCHANGED <<link, conns, userConn, connUser, userObj, heap, io, rooms,
                     roomOf, roomIds, roomLock, leaver,
                     pending, batch, inbox, client, crashed,
                     db, row, wins>>
  BY <1>11 DEF addUser, Unlock
<1>12. ASSUME NEW l \in Loop, removeFromPool(l), UNCHANGED gameVars
      PROVE  UNCHANGED <<link, conns, userConn, connUser, userObj, heap, io, rooms,
                     roomOf, roomIds, roomLock, leaver, mt,
                     pending, batch, inbox, client, crashed,
                     db, row, wins>>
  BY <1>12 DEF removeFromPool, Unlock
<1>13. ASSUME NEW l \in Loop, MatchAck(l), UNCHANGED gameVars
      PROVE  UNCHANGED <<link, conns, userConn, connUser, userObj, heap, io, rooms,
                     roomOf, roomIds, roomLock, leaver,
                     info, pool, matchLock, mt, pending,
                     batch, inbox, crashed, db, row, wins>>
  BY <1>13 DEF MatchAck
<1>14. ASSUME NEW l \in Loop, doPendingFunctor(l), UNCHANGED gameVars
      PROVE  UNCHANGED <<link, conns, userConn, connUser, userObj, heap, io, rooms,
                     roomOf, roomIds, roomLock, leaver,
                     info, pool, matchLock, mt, hnd, inbox,
                     crashed, db, row, wins>>
  BY <1>14 DEF doPendingFunctor
<1>15. ASSUME MatcherTest, UNCHANGED gameVars
      PROVE  UNCHANGED <<link, conns, userConn, connUser, userObj, heap, io, rooms,
                     roomOf, roomIds, roomLock, leaver,
                     info, pool, hnd, pending, batch, inbox,
                     client, crashed, db, row, wins>>
  BY <1>15 DEF MatcherTest
<1>16. ASSUME MatcherTake, UNCHANGED gameVars
      PROVE  UNCHANGED <<link, conns, userConn, connUser, userObj, heap, io, rooms,
                     roomOf, roomIds, roomLock, leaver,
                     info, matchLock, hnd, pending, batch,
                     inbox, client, crashed, db, row, wins>>
  BY <1>16 DEF MatcherTake
<1>17. ASSUME MatcherLookup, UNCHANGED gameVars
      PROVE  UNCHANGED <<link, conns, userConn, connUser, userObj, heap, io, rooms,
                     roomOf, roomIds, roomLock, leaver,
                     info, pool, matchLock, hnd, pending,
                     batch, inbox, client, crashed, db, row,
                     wins>>
  BY <1>17 DEF MatcherLookup, Lookup
<1>18. ASSUME MatcherDecide, UNCHANGED gameVars
      PROVE  UNCHANGED <<link, conns, userConn, connUser, userObj, heap, io, rooms,
                     roomOf, roomIds, roomLock, leaver,
                     pool, matchLock, hnd, pending, batch,
                     inbox, client, db, row, wins>>
  BY <1>18 DEF MatcherDecide
<1>19. ASSUME MatcherTell, UNCHANGED gameVars
      PROVE  UNCHANGED <<link, conns, userConn, connUser, userObj, heap, io, rooms,
                     roomOf, roomIds, roomLock, leaver,
                     info, pool, matchLock, hnd, batch,
                     inbox, client, crashed, db, row, wins>>
  BY <1>19 DEF MatcherTell, Push
<1>20. ASSUME MatcherCreateRoom, UNCHANGED gameVars
      PROVE  UNCHANGED <<link, conns, userConn, connUser, userObj, heap, io,
                     roomLock, leaver, info, pool,
                     matchLock, hnd, pending, batch, inbox,
                     client, crashed, db, row, wins>>
  BY <1>20 DEF MatcherCreateRoom, createRoom
<1>21. ASSUME MatcherSetGaming, UNCHANGED gameVars
      PROVE  UNCHANGED <<link, conns, userConn, connUser, userObj, heap, io, rooms,
                     roomOf, roomIds, roomLock, leaver,
                     pool, matchLock, hnd, pending, batch,
                     inbox, client, db, row, wins>>
  BY <1>21 DEF MatcherSetGaming
<1>22. ASSUME MatcherPush, UNCHANGED gameVars
      PROVE  UNCHANGED <<link, conns, userConn, connUser, userObj, heap, io, rooms,
                     roomOf, roomIds, roomLock, leaver,
                     info, pool, matchLock, hnd, batch,
                     inbox, client, crashed, db, row, wins>>
  BY <1>22 DEF MatcherPush, Push
<1>23. ASSUME NEW c \in Conn, NEW u \in User, GameLogin(c, u)
      PROVE  UNCHANGED <<link, conns, userConn, connUser, userObj, heap, rooms,
                     roomOf, roomIds, roomLock, leaver,
                     info, pool, matchLock, mt, hnd,
                     pending, batch, inbox, client, crashed,
                     db, wins>>
  BY <1>23 DEF GameLogin, Login, onLogin
<1>24. ASSUME NEW l \in Loop, GameLoginAdd(l)
      PROVE  UNCHANGED <<link, conns, rooms, roomOf, roomIds, roomLock, leaver,
                     pool, matchLock, mt, hnd, pending,
                     batch, inbox, client, crashed, db,
                     wins>>
  BY <1>24 DEF GameLoginAdd, LoginAdd, addOnlineUser
<1>25. ASSUME NEW l \in Loop, FindSender(l)
      PROVE  UNCHANGED <<link, conns, userConn, connUser, userObj, heap, io, rooms,
                     roomOf, roomIds, roomLock, leaver,
                     info, pool, matchLock, mt, pending,
                     batch, inbox, client, crashed, db, row,
                     wins>>
  BY <1>25 DEF FindSender
<1>26. ASSUME NEW l \in Loop, FindOther(l)
      PROVE  UNCHANGED <<link, conns, userConn, connUser, userObj, heap, io, rooms,
                     roomOf, roomIds, roomLock, leaver,
                     info, pool, matchLock, mt, pending,
                     batch, inbox, client, crashed, db, row,
                     wins>>
  BY <1>26 DEF FindOther
<1>27. ASSUME NEW l \in Loop, FindPeer(l)
      PROVE  UNCHANGED <<link, conns, userConn, connUser, userObj, heap, io, rooms,
                     roomOf, roomIds, roomLock, leaver,
                     info, pool, matchLock, mt, pending,
                     batch, inbox, client, crashed, db, row,
                     wins>>
  BY <1>27 DEF FindPeer
<1>28. ASSUME NEW l \in Loop, onChat(l)
      PROVE  UNCHANGED <<link, conns, userConn, connUser, userObj, heap, io, rooms,
                     roomOf, roomIds, roomLock, leaver,
                     info, pool, matchLock, mt, batch,
                     inbox, crashed, db, row, wins>>
  BY <1>28 DEF onChat
<1>29. ASSUME NEW l \in Loop, handChess(l)
      PROVE  UNCHANGED <<link, conns, userConn, connUser, userObj, heap, io, rooms,
                     roomOf, roomIds, roomLock, leaver,
                     info, pool, matchLock, mt, pending,
                     batch, inbox, client, crashed, db,
                     row>>
  BY <1>29 DEF handChess
<1>30. ASSUME NEW l \in Loop, TellMove(l)
      PROVE  UNCHANGED <<link, conns, userConn, connUser, userObj, heap, io, rooms,
                     roomOf, roomIds, roomLock, leaver,
                     info, pool, matchLock, mt, batch,
                     inbox, crashed, db, row, wins>>
  BY <1>30 DEF TellMove
<1>31. ASSUME NEW l \in Loop, DbWin(l)
      PROVE  UNCHANGED <<link, conns, userConn, connUser, userObj, heap, io, rooms,
                     roomOf, roomIds, roomLock, leaver,
                     info, pool, matchLock, mt, pending,
                     batch, inbox, client, crashed, row,
                     wins>>
  BY <1>31 DEF DbWin, DbUpdate
<1>32. ASSUME NEW l \in Loop, DbLose(l)
      PROVE  UNCHANGED <<link, conns, userConn, connUser, userObj, heap, io, rooms,
                     roomOf, roomIds, roomLock, leaver,
                     info, pool, matchLock, mt, pending,
                     batch, inbox, client, crashed, row,
                     wins>>
  BY <1>32 DEF DbLose, DbUpdate
<1>33. ASSUME NEW l \in Loop, winGame(l)
      PROVE  UNCHANGED <<link, conns, userConn, connUser, userObj, heap, io, rooms,
                     roomOf, roomIds, roomLock, leaver,
                     pool, matchLock, mt, pending, batch,
                     inbox, client, db, row, wins>>
  BY <1>33 DEF winGame, Score
<1>34. ASSUME NEW l \in Loop, loseGame(l)
      PROVE  UNCHANGED <<link, conns, userConn, connUser, userObj, heap, io, rooms,
                     roomOf, roomIds, roomLock, leaver,
                     pool, matchLock, mt, pending, batch,
                     inbox, client, db, row, wins>>
  BY <1>34 DEF loseGame, Score
<1>35. ASSUME NEW l \in Loop, TellWinner(l)
      PROVE  UNCHANGED <<link, conns, userConn, connUser, userObj, heap, io, rooms,
                     roomOf, roomIds, roomLock, leaver,
                     info, pool, matchLock, mt, batch,
                     inbox, crashed, db, row, wins>>
  BY <1>35 DEF TellWinner
<1>36. ASSUME NEW l \in Loop, TellLoser(l)
      PROVE  UNCHANGED <<link, conns, userConn, connUser, userObj, heap, io, rooms,
                     roomOf, roomIds, roomLock, leaver,
                     info, pool, matchLock, mt, batch,
                     inbox, crashed, db, row, wins>>
  BY <1>36 DEF TellLoser
<1>37. ASSUME NEW l \in Loop, ExitRoom(l)
      PROVE  UNCHANGED <<link, conns, userConn, connUser, userObj, heap, io,
                     roomIds, info, pool, matchLock, mt,
                     pending, batch, inbox, client, crashed,
                     db, row, wins>>
  BY <1>37 DEF ExitRoom, removeUserAbsent, removeUser
<1>38. ASSUME NEW l \in Loop, ExitDone(l)
      PROVE  UNCHANGED <<link, conns, userConn, connUser, userObj, heap, io, rooms,
                     roomOf, roomIds, pool, matchLock, mt,
                     pending, batch, inbox, client, db, row,
                     wins>>
  BY <1>38 DEF ExitDone, removeUserDone
<1>39. ASSUME NEW c \in Conn, NEW r \in Request, NEW u \in User,
              ForeignRequest(c, r, u), UNCHANGED gameVars
      PROVE  UNCHANGED <<link, conns, userConn, connUser, userObj, heap, io, rooms,
                     roomOf, roomIds, roomLock, leaver,
                     info, pool, matchLock, mt, pending,
                     batch, inbox, client, crashed, db, row, wins>>
  BY <1>39 DEF ForeignRequest
<1>40. ASSUME NEW l \in Loop, NullConnection(l)
      PROVE  UNCHANGED <<link, conns, userConn, connUser, userObj, heap, io, rooms,
                     roomOf, roomIds, roomLock, leaver,
                     info, pool, matchLock, mt, hnd, pending,
                     batch, inbox, client, db, row, wins>>
  BY <1>40 DEF NullConnection
<1>41. QED
  BY ZenonT(30), <1>1, <1>2, <1>3, <1>4, <1>5, <1>6, <1>7, <1>8, <1>9, <1>10, <1>11, <1>12, <1>13, <1>14, <1>15, <1>16, <1>17, <1>18, <1>19, <1>20, <1>21, <1>22, <1>23, <1>24, <1>25, <1>26, <1>27, <1>28, <1>29, <1>30, <1>31, <1>32, <1>33, <1>34, <1>35, <1>36, <1>37, <1>38, <1>39, <1>40
     DEF GameNext, MatchOnly, HandlerStep, GameStep, matchThread

-----------------------------------------------------------------------------
(* The type invariant: the types and, for each variable that refers to the *)
(* objects, that what it refers to exists.                                 *)

Obj == 1..Len(heap)
News == {"matched", "match failed"}

\* Somebody has logged in on connection c.
Owned(c) == \E o \in Obj : heap[o].conn = c

InfoTypes ==
    /\ info \in Seq(InfoEntry) /\ Len(info) = Len(heap)
    /\ \A o \in Obj : info[o].points < PointWidth

\* Who asks for a match has logged in or is a stranger.
MayAsk(c) == Owned(c) \/ c \in Strangers

\* Only who has logged in is told or asks anything else.
ClientTypes ==
    /\ inbox \in [Conn -> Request \cup {"none"}]
    /\ client \in [Conn -> {"out", "lobby", "asking", "queued", "leaving",
                            "room", "confused"}]
    /\ \A c \in Conn : client[c] # "out" \/ inbox[c] # "none" => Owned(c)

ReplyTypes ==
    \A l \in Loop : io[l].pc = "reply" /\ io[l].user # NoUser => Owned(io[l].conn)

HandlerTypes ==
    /\ hnd \in [Loop -> HandlerState]
    /\ \A l \in Loop :
          /\ hnd[l].req \in {"start", "cancel"} => hnd[l].user \in User
          /\ hnd[l].pc # "none" =>
                hnd[l].conn \in Conn /\ MayAsk(hnd[l].conn)
          /\ hnd[l].obj <= Len(heap)

MessageTypes ==
    /\ pending \in [Loop -> Seq([conn : Conn, msg : Message])]
    /\ \A l \in Loop : \A i \in 1..Len(pending[l]) :
          pending[l][i].msg \in News => Owned(pending[l][i].conn)

MatcherTypes ==
    /\ mt \in MatcherState
    /\ mt.pc \notin {"awake", "asleep", "scan"} =>
          mt.u1 \in User /\ mt.u2 \in User /\ mt.tier <= 2
    /\ mt.c1 # NoConn => Owned(mt.c1)
    /\ mt.c2 # NoConn => Owned(mt.c2)
    /\ mt.o1 <= Len(heap) /\ mt.o2 <= Len(heap)
    /\ mt.c1 = NoConn => mt.o1 = NoObj
    /\ mt.c2 = NoConn => mt.o2 = NoObj
    /\ mt.pc \in {"awake", "asleep", "scan", "conn1", "conn2", "user1"} =>
          mt.o1 = NoObj
    /\ mt.pc \in {"awake", "asleep", "scan", "conn1", "conn2", "user1", "user2"} =>
          mt.o2 = NoObj
    /\ mt.pc = "tell" => crashed \/ mt.c1 # NoConn \/ mt.c2 # NoConn
    /\ mt.pc \in {"push1", "push2"} => mt.c1 # NoConn /\ mt.c2 # NoConn

OtherTypes ==
    /\ pool \in [Tier -> Seq(User)]
    /\ matchLock \in Loop \cup {Matcher, NoThread}
    /\ batch \in [Loop -> Nat]
    /\ crashed \in BOOLEAN
    /\ db \in [User -> Nat] /\ row \in [Loop -> Nat] /\ wins \in 0..MaxWins

SessionsSound == Base /\ LocksHeld /\ OnlineTogether

TypeInv ==
    /\ SessionsSound /\ RoomsTypeOK /\ InfoTypes /\ ClientTypes /\ ReplyTypes
    /\ HandlerTypes /\ MessageTypes /\ MatcherTypes /\ OtherTypes

LEMMA TypeInit == GameInit => TypeInv
<1> SUFFICES ASSUME GameInit PROVE TypeInv
  OBVIOUS
<1>a. MatchInit /\ SessionsInit /\ RoomsInit
      /\ db = InitPoints /\ row = [l \in Loop |-> 0] /\ wins = 0
  BY DEF GameInit, Init
<1>1. SessionsSound
  BY <1>a, BaseInit, LockInit, OnlineInit DEF SessionsSound
<1>2. RoomsTypeOK
  BY <1>a DEF RoomsInit, RoomsTypeOK, NoRoom, NoLeaver
<1>3. InfoTypes
  BY <1>a DEF MatchInit, SessionsInit, InfoTypes, Obj
<1>4. ClientTypes
  BY <1>a DEF MatchInit, ClientTypes
<1>5. ReplyTypes
  BY <1>a DEF SessionsInit, ReplyTypes, Idle
<1>6. HandlerTypes
  <2>1. hnd = [l \in Loop |-> NoHandler] /\ heap = <<>>
    BY <1>a DEF MatchInit, SessionsInit
  <2>2. NoHandler \in HandlerState
    BY DEF NoHandler, NoObj, HandlerPc, HandlerState
  <2>3. /\ NoHandler.req = "none" /\ NoHandler.pc = "none"
        /\ NoHandler.obj = 0
    BY DEF NoHandler, NoObj
  <2>4. hnd \in [Loop -> HandlerState]
    BY <2>1, <2>2, Zenon
  <2>5. QED
    BY <2>1, <2>3, <2>4 DEF HandlerTypes
<1>7. MessageTypes
  BY <1>a DEF MatchInit, MessageTypes
<1>8. MatcherTypes
  BY <1>a DEF MatchInit, SessionsInit, MatcherTypes, MatcherStart,
     MatcherState, NoObj
<1>9. OtherTypes
  <2>1. pool \in [Tier -> Seq(User)]
    BY <1>a DEF MatchInit
  <2>2. crashed \in BOOLEAN
    BY <1>a DEF MatchInit
  <2>3. /\ matchLock \in Loop \cup {Matcher, NoThread}
        /\ batch \in [Loop -> Nat]
        /\ db \in [User -> Nat] /\ row \in [Loop -> Nat] /\ wins \in 0..MaxWins
    BY <1>a, InitPointsAssumption, GameAssumption DEF MatchInit
  <2>4. QED
    BY <2>1, <2>2, <2>3 DEF OtherTypes
<1>10. QED
  BY <1>1, <1>2, <1>3, <1>4, <1>5, <1>6, <1>7, <1>8, <1>9 DEF TypeInv

\* What every step below starts from.
LEMMA Ground ==
    ASSUME TypeInv
    PROVE  /\ SessionsTypeOK /\ OnlineTogether /\ LocksHeld
           /\ \A l \in Loop : CallbackKnows(l)
           /\ Len(heap) \in Nat /\ Len(info) = Len(heap) /\ Len(rooms) \in Nat
           /\ heap \in [1..Len(heap) -> [user : User, conn : Conn]]
           /\ \A u \in User : userObj[u] \in 0..Len(heap)
           /\ LoopOf \in [Conn -> Loop] /\ NoConn \notin Conn /\ NoUser \notin User
           /\ NoThread \notin Loop /\ Matcher \notin Loop /\ Matcher # NoThread
<1>1. SessionsTypeOK /\ OnlineTogether /\ LocksHeld
      /\ \A l \in Loop : CallbackKnows(l)
  BY DEF TypeInv, SessionsSound, Base
<1>2. heap \in Seq([user : User, conn : Conn]) /\ userObj \in [User -> Nat]
  BY <1>1 DEF SessionsTypeOK
<1>3. Len(heap) \in Nat /\ heap \in [1..Len(heap) -> [user : User, conn : Conn]]
  BY <1>2, LenProperties
<1>4. Len(rooms) \in Nat
  BY LenProperties DEF TypeInv, RoomsTypeOK
<1>5. ASSUME NEW u \in User PROVE userObj[u] \in 0..Len(heap)
  <2>1. userObj[u] \in Nat /\ (userObj[u] = 0 \/ userObj[u] <= Len(heap))
    BY <1>1, <1>2 DEF OnlineTogether, NoObj
  <2>2. QED
    BY <2>1, <1>3
<1>6. QED
  BY <1>1, <1>3, <1>4, <1>5, LoopOfAssumption, NoConnAssumption,
     ThreadsAssumption DEF TypeInv, InfoTypes

\* Objects are only ever added.
LEMMA HeapGrows ==
    ASSUME TypeInv, GameNext
    PROVE  /\ Len(heap') \in Nat /\ Len(heap) <= Len(heap')
           /\ \A o \in Obj : o \in Obj' /\ heap'[o] = heap[o]
           /\ \A c : Owned(c) => Owned(c)'
<1> USE Ground
<1>1. CASE UNCHANGED heap
  BY <1>1 DEF Obj, Owned
<1>2. ASSUME NEW l \in Loop, GameLoginAdd(l)
      PROVE  /\ Len(heap') \in Nat /\ Len(heap) <= Len(heap')
             /\ \A o \in Obj : o \in Obj' /\ heap'[o] = heap[o]
  <2>1. heap' = Append(heap, [user |-> io[l].user, conn |-> io[l].conn])
    BY <1>2 DEF GameLoginAdd, LoginAdd, addOnlineUser, InsertEntries
  <2>2. heap \in Seq([user : User, conn : Conn])
    BY DEF SessionsTypeOK
  <2>3. QED
    BY <2>1, <2>2 DEF Obj
<1>3. QED
  BY <1>1, <1>2, WhoWrites DEF Obj, Owned

LEMMA InfoTypesStep ==
    ASSUME TypeInv, GameNext
    PROVE  InfoTypes'
<1> USE Ground
<1>a. /\ info \in Seq(InfoEntry) /\ MatcherTypes /\ HandlerTypes
      /\ \A o \in Obj : info[o].points < PointWidth
      /\ row \in [Loop -> Nat] /\ PointWidth \in Nat \ {0}
  BY GameAssumption DEF TypeInv, InfoTypes, OtherTypes
<1>b. ASSUME UNCHANGED heap,
             \/ UNCHANGED info
             \/ \E o \in Obj, st \in {"online", "matching", "gaming"} :
                   info' = [info EXCEPT ![o].state = st]
             \/ \E o \in Obj, n \in 0..(PointWidth - 1) :
                   info' = [info EXCEPT ![o].points = n]
      PROVE  InfoTypes'
  <2>1. CASE UNCHANGED info
    BY <2>1, <1>a, <1>b DEF InfoTypes, Obj
  <2>2. ASSUME NEW o \in Obj, NEW st \in {"online", "matching", "gaming"},
               info' = [info EXCEPT ![o].state = st]
        PROVE  InfoTypes'
    BY <2>2, <1>a, <1>b, SetState DEF InfoTypes, Obj
  <2>3. ASSUME NEW o \in Obj, NEW n \in 0..(PointWidth - 1),
               info' = [info EXCEPT ![o].points = n]
        PROVE  InfoTypes'
    <3>1. n \in Nat /\ n < PointWidth
      BY <1>a
    <3>2. /\ info' \in Seq(InfoEntry) /\ Len(info') = Len(info)
          /\ \A p \in 1..Len(info) :
                /\ info'[p].state = info[p].state
                /\ info'[p].points = IF p = o THEN n ELSE info[p].points
      <4>1. o \in 1..Len(info)
        BY DEF Obj
      <4>2. QED
        BY ZenonT(30), <4>1, <2>3, <3>1, <1>a, SetPoints
    <3>3. QED
      BY <3>1, <3>2, <1>a, <1>b DEF InfoTypes, Obj
  <2>4. QED
    BY <1>b, <2>1, <2>2, <2>3
<1>c. \A u : RacyFind(u) \subseteq {NoObj, userObj[u]}
                /\ (u = NoUser => RacyFind(u) = {NoObj})
  BY DEF RacyFind
<1>1. CASE UNCHANGED <<heap, info>>
  BY <1>1, <1>b
<1>2. ASSUME NEW l \in Loop, addUser(l) PROVE InfoTypes'
  <2>1. hnd[l].obj \in Obj /\ UNCHANGED heap
    BY <1>2, <1>a DEF addUser, Unlock, HandlerTypes, HandlerState, Obj, NoObj, sessionVars
  <2>2. UNCHANGED info \/ info' = [info EXCEPT ![hnd[l].obj].state = "matching"]
    BY <1>2 DEF addUser
  <2>3. QED
    BY <2>1, <2>2, <1>b
<1>3. ASSUME NEW l \in Loop, removeFromPool(l) PROVE InfoTypes'
  <2>1. hnd[l].obj \in Obj /\ UNCHANGED heap
    BY <1>3, <1>a DEF removeFromPool, Unlock, HandlerTypes, HandlerState, Obj, NoObj, sessionVars
  <2>2. UNCHANGED info \/ info' = [info EXCEPT ![hnd[l].obj].state = "online"]
    BY <1>3 DEF removeFromPool
  <2>3. QED
    BY <2>1, <2>2, <1>b
<1>4. ASSUME MatcherDecide PROVE InfoTypes'
  <2>1. UNCHANGED heap /\ mt.o1 \in 0..Len(heap) /\ mt.o2 \in 0..Len(heap)
    BY <1>4, <1>a DEF MatcherDecide, MatcherTypes, MatcherState, restVars, sessionVars
  <2>2. \/ UNCHANGED info
        \/ mt.o1 # NoObj /\ info' = [info EXCEPT ![mt.o1].state = "online"]
        \/ mt.o2 # NoObj /\ info' = [info EXCEPT ![mt.o2].state = "online"]
    BY <1>4 DEF MatcherDecide
  <2>3. QED
    BY <2>1, <2>2, <1>b DEF Obj, NoObj
<1>5. ASSUME MatcherSetGaming PROVE InfoTypes'
  <2>1. UNCHANGED heap
    BY <1>5 DEF MatcherSetGaming, restVars, sessionVars
  <2>2. CASE UNCHANGED info
    BY <2>1, <2>2, <1>b
  <2>3. CASE info' = [o \in DOMAIN info |->
                        IF o \in {mt.o1, mt.o2}
                        THEN [info[o] EXCEPT !.state = "gaming"] ELSE info[o]]
    BY <2>1, <2>3, <1>a, SetGaming DEF InfoTypes, Obj
  <2>4. QED
    BY <1>5, <2>2, <2>3 DEF MatcherSetGaming
<1>6. ASSUME NEW u \in User \cup {NoUser}, NEW n \in Int,
             UNCHANGED heap, NEW o \in RacyFind(u),
             \/ info' = info
             \/ o # NoObj /\ info' = [info EXCEPT ![o].points = (@ + n) % PointWidth]
      PROVE  InfoTypes'
  <2>1. CASE o = NoObj
    BY <1>6, <2>1, <1>b
  <2>2. CASE o # NoObj
    <3>1. o \in Obj
      BY <2>2, <1>c DEF Obj, NoObj
    <3>2. (info[o].points + n) % PointWidth \in 0..(PointWidth - 1)
      <4>1. info[o].points + n \in Int
        <5>1. o \in 1..Len(info)
          BY <3>1 DEF Obj
        <5>2. info[o] \in InfoEntry
          BY <5>1, <1>a, ElementOfSeq
        <5>3. QED
          BY <5>2, <1>6 DEF InfoEntry
      <4>2. \A w \in Nat \ {0}, k \in Int : k % w \in 0..(w - 1)
        OBVIOUS
      <4>3. QED
        BY <4>1, <4>2, <1>a
    <3>3. [info EXCEPT ![o].points = (@ + n) % PointWidth]
            = [info EXCEPT ![o].points = (info[o].points + n) % PointWidth]
      OBVIOUS
    <3>4. QED
      BY <1>6, <3>1, <3>2, <3>3, <1>b
  <2>3. QED
    BY <2>1, <2>2
<1>7. ASSUME NEW l \in Loop, winGame(l) \/ loseGame(l) PROVE InfoTypes'
  <2>1. \E u \in User \cup {NoUser}, n \in Int : \E o \in RacyFind(u) :
           info' = IF o = NoObj THEN info
                   ELSE [info EXCEPT ![o].points = (@ + n) % PointWidth]
    <3>1. hnd[l].user \in User \cup {NoUser} /\ hnd[l].other \in User \cup {NoUser}
      BY <1>a DEF HandlerTypes, HandlerState
    <3>2. CASE winGame(l)
      <4>1. WinPoints \in Int
        BY DEF WinPoints
      <4>2. QED
        BY <3>1, <3>2, <4>1 DEF winGame, Score
    <3>3. CASE loseGame(l)
      <4>1. PointWidth - LosePoints \in Int
        BY <1>a DEF LosePoints
      <4>2. QED
        BY <3>1, <3>3, <4>1 DEF loseGame, Score
    <3>4. QED
      BY <1>7, <3>2, <3>3
  <2>2. UNCHANGED heap
    BY <1>7 DEF winGame, loseGame, Score, handlerVars, sessionVars
  <2>3. PICK u \in User \cup {NoUser}, n \in Int : \E o \in RacyFind(u) :
           info' = IF o = NoObj THEN info
                   ELSE [info EXCEPT ![o].points = (@ + n) % PointWidth]
    BY <2>1
  <2>4. PICK o \in RacyFind(u) :
           info' = IF o = NoObj THEN info
                   ELSE [info EXCEPT ![o].points = (@ + n) % PointWidth]
    BY <2>3
  <2>5. QED
    BY <1>6, <2>4, <2>2
<1>8. ASSUME NEW l \in Loop, ExitDone(l) PROVE InfoTypes'
  <2>1. PICK o \in RacyFind(leaver.user) :
           info' = IF o = NoObj THEN info ELSE [info EXCEPT ![o].state = "online"]
    BY <1>8 DEF ExitDone, setUserState
  <2>2. UNCHANGED heap /\ leaver.user \in User \cup {NoUser}
    BY <1>8 DEF ExitDone, handlerVars, sessionVars, TypeInv, RoomsTypeOK
  <2>3. o = NoObj \/ o \in Obj
    BY <1>c, <2>2 DEF Obj, NoObj
  <2>4. QED
    BY <1>b, <2>1, <2>2, <2>3
<1>9. ASSUME NEW l \in Loop, GameLoginAdd(l) PROVE InfoTypes'
  <2> DEFINE e == [state |-> "online", points |-> row[l] % PointWidth]
  <2>1. info' = Append(info, e) /\ e \in InfoEntry /\ e.points < PointWidth
    BY <1>9, <1>a DEF GameLoginAdd, LoginAdd, InfoEntry
  <2>2. PICK h \in [user : User, conn : Conn] : heap' = Append(heap, h)
    BY <1>9 DEF GameLoginAdd, LoginAdd, addOnlineUser, InsertEntries,
       CallbackKnows
  <2>3. heap \in Seq([user : User, conn : Conn])
    BY DEF SessionsTypeOK
  <2> HIDE DEF e
  <2>4. info' \in Seq(InfoEntry) /\ Len(info') = Len(heap')
    BY <2>1, <2>2, <2>3, <1>a
  <2>5. \A o \in 1..Len(heap') : info'[o].points < PointWidth
    BY <2>1, <2>2, <2>3, <1>a DEF Obj
  <2>6. QED
    BY <2>4, <2>5 DEF InfoTypes, Obj
<1>10. QED
  BY <1>1, <1>2, <1>3, <1>4, <1>5, <1>7, <1>8, <1>9, WhoWrites

LEMMA RoomsTypesStep ==
    ASSUME TypeInv, GameNext
    PROVE  RoomsTypeOK'
<1> USE Ground
<1>a. /\ rooms \in Seq(RoomEntry) /\ RoomsTypeOK
      /\ CountWidth \in Nat \ {0} /\ InitialCounts \subseteq 0..(CountWidth - 1)
  BY RoomsAssumption DEF TypeInv, RoomsTypeOK, RoomEntry
<1>1. CASE UNCHANGED <<rooms, roomOf, roomIds, roomLock, leaver>>
  BY <1>1, <1>a DEF RoomsTypeOK
<1>2. ASSUME MatcherCreateRoom PROVE RoomsTypeOK'
  <2>1. PICK n \in InitialCounts :
           rooms' = Append(rooms, [white |-> mt.u1, black |-> mt.u2, count |-> n])
    BY <1>2 DEF MatcherCreateRoom, createRoom
  <2>2. mt.u1 \in User /\ mt.u2 \in User
    BY <1>2 DEF MatcherCreateRoom, TypeInv, MatcherTypes
  <2> DEFINE e == [white |-> mt.u1, black |-> mt.u2, count |-> n]
  <2>3. e \in RoomEntry
    BY <2>2, <1>a DEF RoomEntry
  <2> HIDE DEF e
  <2>4. rooms' = Append(rooms, e)
    BY <2>1 DEF e
  <2>5. rooms' \in Seq(RoomEntry) /\ Len(rooms') = Len(rooms) + 1
    BY <2>3, <2>4, <1>a
  <2>6. /\ roomOf' = [roomOf EXCEPT ![mt.u1] = Len(rooms) + 1,
                                    ![mt.u2] = Len(rooms) + 1]
        /\ roomIds' = roomIds \cup {Len(rooms) + 1}
        /\ UNCHANGED <<roomLock, leaver>>
    BY <1>2 DEF MatcherCreateRoom, createRoom, FileBoth
  <2>7. roomOf' \in [User -> 0..Len(rooms')] /\ roomIds' \subseteq 1..Len(rooms')
    <3>1. roomOf \in [User -> 0..Len(rooms)] /\ roomIds \subseteq 1..Len(rooms)
      BY <1>a DEF RoomsTypeOK
    <3>2. \A k \in 0..Len(rooms) : k \in 0..Len(rooms')
      BY <2>5
    <3>3. \A k \in 1..Len(rooms) : k \in 1..Len(rooms')
      BY <2>5
    <3>4. Len(rooms) + 1 \in 0..Len(rooms') /\ Len(rooms) + 1 \in 1..Len(rooms')
      BY <2>5
    <3>5. QED
      BY <3>1, <3>2, <3>3, <3>4, <2>2, <2>6
  <2>8. QED
    BY <2>5, <2>6, <2>7, <1>a DEF RoomsTypeOK, RoomEntry
<1>3. ASSUME NEW l \in Loop, ExitRoom(l) PROVE RoomsTypeOK'
  <2>1. CASE UNCHANGED roomVars
    BY <2>1, <1>1 DEF roomVars
  <2>2. CASE removeUser(l, hnd[l].user)
    <3> DEFINE u == hnd[l].user
               r == roomOf[u]
               n == subCount(rooms[r].count)
    <3>1. u \in User /\ r \in 1..Len(rooms)
      BY <2>2, <1>a DEF TypeInv, HandlerTypes, HandlerState, removeUser, RoomsTypeOK, NoRoom
    <3>2. rooms' = [rooms EXCEPT ![r].count = n]
          /\ roomOf' = [roomOf EXCEPT ![u] = 0] /\ roomLock' = l
          /\ leaver' = [pc |-> IF n = 0 THEN "relock" ELSE "state", user |-> u]
          /\ UNCHANGED roomIds
      BY <2>2 DEF removeUser, NoRoom
    <3>3. n \in 0..(CountWidth - 1)
      <4> HIDE DEF r, u
      <4>1. rooms[r].count \in 0..(CountWidth - 1)
        <5>1. rooms[r] \in RoomEntry
          BY <3>1, <1>a, ElementOfSeq
        <5>2. QED
          BY <5>1 DEF RoomEntry
      <4>2. rooms[r].count + CountWidth - 1 \in Int
        BY <4>1, <1>a
      <4>3. \A w \in Nat \ {0}, k \in Int : k % w \in 0..(w - 1)
        OBVIOUS
      <4>4. QED
        BY <4>2, <4>3, <1>a DEF subCount
    <3> HIDE DEF n, r, u
    <3>4. rooms' \in Seq(RoomEntry) /\ Len(rooms') = Len(rooms)
          /\ \A q \in 1..Len(rooms) : Players(q)' = Players(q)
      BY <3>1, <3>2, <3>3, <1>a, SetCount, Zenon
    <3>5. roomOf' \in [User -> 0..Len(rooms)]
      BY <3>1, <3>2, <1>a DEF RoomsTypeOK
    <3>6. leaver' \in [pc : {"none", "state", "relock"}, user : User \cup {NoUser}]
      BY <3>1, <3>2
    <3>7. QED
      BY <1>3, <3>2, <3>4, <3>5, <3>6, <1>a DEF RoomsTypeOK, RoomEntry
  <2>3. QED
    BY <1>3, <2>1, <2>2 DEF ExitRoom, removeUserAbsent
<1>4. ASSUME NEW l \in Loop, ExitDone(l) PROVE RoomsTypeOK'
  BY <1>4, <1>a DEF ExitDone, removeUserDone, NoLeaver, RoomsTypeOK
<1>5. QED
  BY <1>1, <1>2, <1>3, <1>4, WhoWrites

\* A request is a word, an answer too.
LEMMA HeardTypes ==
    ASSUME NEW view \in {"out", "lobby", "asking", "queued", "leaving", "room",
                         "confused"}, NEW msg
    PROVE  /\ Heard(view, msg) \in {"out", "lobby", "asking", "queued",
                                    "leaving", "room", "confused"}
           /\ msg \in {"chat", "move", "you won", "you lost"} =>
                 Heard(view, msg) = view
           /\ msg \in MatchAnswer /\ view = "out" => Heard(view, msg) = "out"
BY DEF Heard, MatchAnswer

LEMMA ClientTypesStep ==
    ASSUME TypeInv, GameNext
    PROVE  ClientTypes'
<1> USE Ground
<1> DEFINE View == {"out", "lobby", "asking", "queued", "leaving", "room",
                    "confused"}
<1>a. ClientTypes /\ \A c : Owned(c) => Owned(c)'
  BY HeapGrows DEF TypeInv
\* One request or one message for an owner, or a message that tells nothing.
<1>b. ASSUME NEW c \in Conn, Owned(c), NEW v \in View,
             NEW request \in Request \cup {"none"},
             \/ UNCHANGED inbox \/ inbox' = [inbox EXCEPT ![c] = request],
             \/ UNCHANGED client \/ client' = [client EXCEPT ![c] = v]
      PROVE  ClientTypes'
  BY <1>a, <1>b DEF ClientTypes
<1>c. ASSUME NEW c \in Conn, NEW msg,
             \/ Owned(c)
             \/ msg \in {"chat", "move", "you won", "you lost"}
             \/ msg \in MatchAnswer,
             UNCHANGED inbox,
             \/ UNCHANGED client
             \/ client' = Write(client, c, msg)
      PROVE  ClientTypes'
  <2>1. client[c] \in View
    BY <1>a DEF ClientTypes
  <2>2. /\ Heard(client[c], msg) \in View
        /\ msg \in {"chat", "move", "you won", "you lost"} =>
              Heard(client[c], msg) = client[c]
        /\ msg \in MatchAnswer /\ client[c] = "out" => Heard(client[c], msg) = "out"
    BY <2>1, HeardTypes
  <2>3. UNCHANGED client \/ client' = [client EXCEPT ![c] = Heard(client[c], msg)]
    BY <1>c DEF Write
  <2>4. QED
    BY <1>a, <1>c, <2>1, <2>2, <2>3 DEF ClientTypes
<1>1. CASE UNCHANGED <<inbox, client>>
  BY <1>1, <1>a DEF ClientTypes
<1>2. ASSUME NEW c \in Conn, Disconnect(c) PROVE ClientTypes'
  BY <1>2, <1>a DEF Disconnect, ClientTypes
<1>3. ASSUME NEW c \in Conn, AskStart(c) \/ AskCancel(c) \/ AskInRoom(c)
      PROVE  ClientTypes'
  <2>1. \E v \in View, r \in Request :
           /\ client[c] # "out"
           /\ inbox' = [inbox EXCEPT ![c] = r]
           /\ client' = [client EXCEPT ![c] = v]
    BY <1>3 DEF AskStart, AskCancel, AskInRoom, AskMove, AskChat, AskExit, Ask,
       Request
  <2>2. Owned(c)
    BY <2>1, <1>a DEF ClientTypes
  <2>3. QED
    BY <2>1, <2>2, <1>b
<1>4. ASSUME NEW c \in Conn, NEW r \in Request, Begin(c, r) PROVE ClientTypes'
  BY <1>4, <1>a DEF Begin, ClientTypes
<1>5. ASSUME NEW l \in Loop, LoginAck(l) PROVE ClientTypes'
  <2>1. io[l].conn \in Conn /\ (io[l].user # NoUser => Owned(io[l].conn))
    BY <1>5 DEF LoginAck, LoginReply, CallbackKnows, TypeInv, ReplyTypes
  <2>2. CASE io[l].user = NoUser
    BY <2>2, <1>5, <1>1 DEF LoginAck
  <2>3. CASE io[l].user # NoUser
    BY <2>1, <2>3, <1>5, <1>c DEF LoginAck, Reply
  <2>4. QED
    BY <2>2, <2>3
<1>6. ASSUME NEW l \in Loop, MatchAck(l) PROVE ClientTypes'
  <2>1. hnd[l].conn \in Conn
    BY <1>6 DEF MatchAck, TypeInv, HandlerTypes
  <2>2. UNCHANGED inbox /\ \E msg \in MatchAnswer :
                              \/ UNCHANGED client
                              \/ client' = Write(client, hnd[l].conn, msg)
    BY <1>6 DEF MatchAck, Reply, MatchAnswer
  <2>3. QED
    BY <2>1, <2>2, <1>c
<1>7. ASSUME NEW l \in Loop, doPendingFunctor(l) PROVE ClientTypes'
  <2>0. pending[l] \in Seq([conn : Conn, msg : Message]) /\ pending[l] # <<>>
    BY <1>7 DEF doPendingFunctor, TypeInv, MessageTypes
  <2>1. /\ Len(pending[l]) \in Nat /\ 1 \in 1..Len(pending[l])
        /\ Head(pending[l]) = pending[l][1]
    BY <2>0
  <2>2. /\ pending[l][1] \in [conn : Conn, msg : Message]
        /\ pending[l][1].msg \in News => Owned(pending[l][1].conn)
    BY <2>0, <2>1, ElementOfSeq DEF TypeInv, MessageTypes
  <2>3. /\ UNCHANGED inbox
        /\ client' = Write(client, pending[l][1].conn, pending[l][1].msg)
    BY <2>1, <1>7 DEF doPendingFunctor
  <2>4. QED
    BY <2>2, <2>3, <1>c DEF News, Message
<1>8. ASSUME NEW l \in Loop,
             onChat(l) \/ TellMove(l) \/ TellWinner(l) \/ TellLoser(l)
      PROVE  ClientTypes'
  <2>1. PICK c \in {hnd[l].conn, hnd[l].peer},
             msg \in {"chat", "move", "you won", "you lost"} : Send(l, c, msg)
    BY <1>8 DEF onChat, TellMove, TellWinner, TellLoser
  <2>2. conns \subseteq Conn /\ UNCHANGED inbox
    BY <1>8 DEF SessionsTypeOK, onChat, TellMove, TellWinner, TellLoser, handlerVars
  <2>3. CASE c \in conns
    BY <2>1, <2>2, <2>3, <1>c DEF Send
  <2>4. CASE c \notin conns
    BY <2>1, <2>2, <2>4, <1>1 DEF Send
  <2>5. QED
    BY <2>3, <2>4
<1>9. QED
  BY <1>1, <1>2, <1>3, <1>4, <1>5, <1>6, <1>7, <1>8, WhoWrites

LEMMA ReplyTypesStep ==
    ASSUME TypeInv, GameNext
    PROVE  ReplyTypes'
<1> USE Ground
<1>a. ReplyTypes /\ \A c : Owned(c) => Owned(c)'
  BY HeapGrows DEF TypeInv
<1>1. CASE UNCHANGED io
  BY <1>1, <1>a DEF ReplyTypes
<1>2. ASSUME NEW l \in Loop, GameLoginAdd(l) PROVE ReplyTypes'
  <2>1. /\ heap' = Append(heap, [user |-> io[l].user, conn |-> io[l].conn])
        /\ Callback(l, "reply", io[l].conn, io[l].user)
    BY <1>2 DEF GameLoginAdd, LoginAdd, addOnlineUser, InsertEntries
  <2>2. heap \in Seq([user : User, conn : Conn])
    BY DEF SessionsTypeOK
  <2>3. \A c : c = io[l].conn => Owned(c)'
    <3>1. Len(heap) + 1 \in 1..Len(heap') /\ heap'[Len(heap) + 1].conn = io[l].conn
      BY <2>1, <2>2
    <3>2. QED
      BY <3>1 DEF Owned, Obj
  <2>4. QED
    BY <2>1, <2>3, <1>a DEF ReplyTypes, Callback, SessionsTypeOK
<1>3. ASSUME NEW l \in Loop, SessionOnly(l) \/ LoginAck(l) PROVE ReplyTypes'
  <2>1. \E r \in [pc : {"idle", "query", "add", "reply", "lookup", "remove", "erase"},
                  conn : Conn \cup {NoConn}, user : User \cup {NoUser}] :
           io' = [io EXCEPT ![l] = r] /\ (r.pc = "reply" => r.user = NoUser)
    <3>0. io[l].pc # "idle"
      BY <1>3 DEF SessionOnly, LoginAck, LoginRefused, LockForAdd, LoginReply,
             CloseLookup, LockForRemove, removeOnlineUser
    <3>1. io[l].conn \in Conn \cup {NoConn} /\ io[l].user \in User \cup {NoUser}
          /\ getUserIdByConn(io[l].conn) \in User \cup {NoUser}
      BY <3>0 DEF SessionsTypeOK, getUserIdByConn, CallbackKnows
    <3> DEFINE R == [pc : {"idle", "query", "add", "reply", "lookup", "remove", "erase"},
                     conn : Conn \cup {NoConn}, user : User \cup {NoUser}]
               New(r) == io' = [io EXCEPT ![l] = r]
    <3>2. \/ New(Idle)
          \/ New([pc |-> "reply", conn |-> io[l].conn, user |-> NoUser])
          \/ New([pc |-> "add", conn |-> io[l].conn, user |-> io[l].user])
          \/ New([pc |-> "remove", conn |-> io[l].conn,
                  user |-> getUserIdByConn(io[l].conn)])
          \/ New([pc |-> "erase", conn |-> io[l].conn, user |-> io[l].user])
      BY <1>3, ZenonT(30) DEF SessionOnly, LoginAck, LoginRefused, LockForAdd, LoginReply,
             CloseLookup, LockForRemove, removeOnlineUser, Callback
    <3>3. /\ Idle \in R /\ Idle.pc # "reply"
          /\ [pc |-> "reply", conn |-> io[l].conn, user |-> NoUser] \in R
          /\ [pc |-> "add", conn |-> io[l].conn, user |-> io[l].user] \in R
          /\ [pc |-> "remove", conn |-> io[l].conn,
                  user |-> getUserIdByConn(io[l].conn)] \in R
          /\ [pc |-> "erase", conn |-> io[l].conn, user |-> io[l].user] \in R
      BY <3>1 DEF Idle
    <3>4. \E r \in R : New(r) /\ (r.pc = "reply" => r.user = NoUser)
      <4> HIDE DEF R, New
      <4>1. CASE New(Idle)
        BY <3>3, <4>1
      <4>2. CASE New([pc |-> "reply", conn |-> io[l].conn, user |-> NoUser])
        BY <3>3, <4>2
      <4>3. CASE New([pc |-> "add", conn |-> io[l].conn, user |-> io[l].user])
        BY <3>3, <4>3
      <4>4. CASE New([pc |-> "remove", conn |-> io[l].conn,
                      user |-> getUserIdByConn(io[l].conn)])
        BY <3>3, <4>4
      <4>5. CASE New([pc |-> "erase", conn |-> io[l].conn, user |-> io[l].user])
        BY <3>3, <4>5
      <4>6. QED
        BY <3>2, <4>1, <4>2, <4>3, <4>4, <4>5
    <3>5. QED
      BY <3>4
  <2>2. QED
    BY <2>1, <1>a DEF ReplyTypes, SessionsTypeOK
<1>4. ASSUME NEW c \in Conn, Accept(c) \/ Disconnect(c) PROVE ReplyTypes'
  <2>1. \/ UNCHANGED io
        \/ io' = [io EXCEPT ![LoopOf[c]] =
                     [pc |-> "lookup", conn |-> c, user |-> NoUser]]
    BY <1>4 DEF Accept, addConn, Disconnect, removeConn, Callback
  <2>2. ASSUME NEW l \in Loop, io'[l].pc = "reply", io'[l].user # NoUser
        PROVE  Owned(io[l].conn) /\ io'[l] = io[l]
    <3>1. l # LoopOf[c] \/ UNCHANGED io
      BY <2>1, <2>2 DEF SessionsTypeOK
    <3>2. QED
      BY <2>1, <2>2, <3>1, <1>a DEF ReplyTypes, SessionsTypeOK
  <2>3. QED
    BY <2>2, <1>a DEF ReplyTypes
<1>5. ASSUME NEW c \in Conn, NEW u \in User, GameLogin(c, u) PROVE ReplyTypes'
  BY <1>5, <1>a DEF GameLogin, Login, onLogin, Callback, ReplyTypes,
     SessionsTypeOK
<1>6. QED
  BY <1>1, <1>2, <1>3, <1>4, <1>5, WhoWrites

LEMMA HandlerTypesStep ==
    ASSUME TypeInv, GameNext
    PROVE  HandlerTypes'
<1> USE Ground
<1>a. HandlerTypes /\ Len(heap') \in Nat /\ Len(heap) <= Len(heap')
      /\ \A c : MayAsk(c) => MayAsk(c)'
  BY HeapGrows DEF TypeInv, MayAsk
<1>b. NoHandler \in HandlerState /\ NoHandler.req = "none"
      /\ NoHandler.pc = "none" /\ NoHandler.obj = 0
  BY DEF NoHandler, HandlerState, HandlerPc, NoObj
<1>c. ASSUME NEW l \in Loop, NEW h \in HandlerState, hnd' = [hnd EXCEPT ![l] = h],
             h.req \in {"start", "cancel"} => h.user \in User,
             h.pc # "none" => h.conn \in Conn /\ MayAsk(h.conn),
             h.obj <= Len(heap)
      PROVE  HandlerTypes'
  <2>1. hnd' \in [Loop -> HandlerState]
    BY <1>a, <1>c DEF HandlerTypes
  <2>2. ASSUME NEW m \in Loop
        PROVE  /\ hnd'[m].req \in {"start", "cancel"} => hnd'[m].user \in User
               /\ hnd'[m].pc # "none" => hnd'[m].conn \in Conn /\ MayAsk(hnd'[m].conn)
               /\ hnd'[m].obj <= Len(heap)
               /\ hnd'[m].obj \in Nat
    <3>1. CASE m = l
      BY <1>a, <1>c, <3>1 DEF HandlerTypes, HandlerState
    <3>2. CASE m # l
      BY <1>a, <1>c, <3>2 DEF HandlerTypes, HandlerState
    <3>3. QED
      BY <3>1, <3>2
  <2>3. QED
    BY <2>1, <2>2, <1>a DEF HandlerTypes
<1>1. CASE UNCHANGED hnd
  BY <1>1, <1>a DEF HandlerTypes, HandlerState
\* A handler that returns, or goes on without a new request or connection.
<1>d. ASSUME NEW l \in Loop,
             \/ hnd' = [hnd EXCEPT ![l] = NoHandler]
             \/ /\ hnd[l].pc # "none"
                /\ \E h \in HandlerState :
                      /\ hnd' = [hnd EXCEPT ![l] = h]
                      /\ h.req = hnd[l].req /\ h.conn = hnd[l].conn
                      /\ h.user = hnd[l].user \/ h.req \notin {"start", "cancel"}
                      /\ h.obj <= Len(heap)
      PROVE  HandlerTypes'
  <2>1. CASE hnd' = [hnd EXCEPT ![l] = NoHandler]
    <3>1. /\ NoHandler \in HandlerState
          /\ NoHandler.req \in {"start", "cancel"} => NoHandler.user \in User
          /\ NoHandler.pc # "none" =>
                NoHandler.conn \in Conn /\ MayAsk(NoHandler.conn)
          /\ NoHandler.obj <= Len(heap)
      BY <1>b
    <3>2. QED
      BY <2>1, <3>1, <1>c, Zenon
  <2>2. ASSUME hnd[l].pc # "none", NEW h \in HandlerState,
               hnd' = [hnd EXCEPT ![l] = h],
               h.req = hnd[l].req, h.conn = hnd[l].conn,
               h.user = hnd[l].user \/ h.req \notin {"start", "cancel"},
               h.obj <= Len(heap)
        PROVE  HandlerTypes'
    <3>1. h.req \in {"start", "cancel"} => h.user \in User
      BY <2>2, <1>a DEF HandlerTypes
    <3>2. h.conn \in Conn /\ MayAsk(h.conn)
      BY <2>2, <1>a DEF HandlerTypes
    <3>3. QED
      BY <2>2, <3>1, <3>2, <1>c
  <2>3. QED
    BY <1>d, <2>1, <2>2
<1>2. ASSUME NEW c \in Conn, NEW r \in Request, Begin(c, r) PROVE HandlerTypes'
  <2> DEFINE h == [NoHandler EXCEPT !.pc = "begin", !.req = r, !.conn = c,
                                    !.user = ClientUser(c)]
  <2>1. inbox[c] = r /\ hnd' = [hnd EXCEPT ![LoopOf[c]] = h]
    BY <1>2 DEF Begin, Handle
  <2>2. Owned(c)
    BY <2>1, <1>2 DEF TypeInv, ClientTypes, Request
  <2>3. ClientUser(c) \in User
    <3> DEFINE own == {o \in 1..Len(heap) : heap[o].conn = c}
    <3>1. own \in SUBSET (1..Len(heap)) /\ own # {}
      BY <2>2 DEF Owned, Obj
    <3>2. \E o \in own : \A p \in own : p <= o
      BY <3>1, Greatest
    <3>3. (CHOOSE o \in own : \A p \in own : p <= o) \in own
      BY <3>2
    <3>4. (CHOOSE o \in own : \A p \in own : p <= o) \in 1..Len(heap)
      BY <3>3
    <3> HIDE DEF own
    <3>5. heap[CHOOSE o \in own : \A p \in own : p <= o] \in [user : User, conn : Conn]
      BY <3>4
    <3>6. heap[CHOOSE o \in own : \A p \in own : p <= o].user \in User
      BY <3>5
    <3>7. QED
      BY <3>6 DEF ClientUser, own
  <2>4. /\ h \in HandlerState /\ h.req = r /\ h.user \in User /\ h.conn = c
        /\ h.obj = 0
    BY <2>3 DEF NoHandler, HandlerState, HandlerPc, NoObj
  <2> HIDE DEF h
  <2>5. LoopOf[c] \in Loop
    OBVIOUS
  <2>6. QED
    <3>1. /\ h.req \in {"start", "cancel"} => h.user \in User
          /\ h.pc # "none" => h.conn \in Conn /\ MayAsk(h.conn)
          /\ h.obj <= Len(heap)
      BY <2>2, <2>4 DEF MayAsk
    <3>2. QED
      BY <2>1, <2>4, <2>5, <3>1, <1>c, Zenon
<1>2a. ASSUME NEW c \in Conn, NEW r \in Request, NEW u \in User,
              ForeignRequest(c, r, u)
       PROVE  HandlerTypes'
  <2> DEFINE h == [NoHandler EXCEPT !.pc = "begin", !.req = r, !.conn = c,
                                    !.user = u]
  <2>1. hnd' = [hnd EXCEPT ![LoopOf[c]] = h] /\ MayAsk(c)
    BY <1>2a DEF ForeignRequest, Handle, MayAsk
  <2>2. /\ h \in HandlerState /\ h.req = r /\ h.user \in User /\ h.conn = c
        /\ h.obj = 0
    BY DEF NoHandler, HandlerState, HandlerPc, NoObj
  <2> HIDE DEF h
  <2>3. LoopOf[c] \in Loop
    OBVIOUS
  <2>4. /\ h.req \in {"start", "cancel"} => h.user \in User
        /\ h.pc # "none" => h.conn \in Conn /\ MayAsk(h.conn)
        /\ h.obj <= Len(heap)
    BY <2>1, <2>2
  <2>5. QED
    BY <2>1, <2>2, <2>3, <2>4, <1>c, Zenon
<1>3. ASSUME NEW l \in Loop, LockPool(l) PROVE HandlerTypes'
  <2> DEFINE h == [hnd[l] EXCEPT !.pc = "pool", !.obj = userObj[hnd[l].user]]
  <2>1. hnd[l].user \in User /\ hnd[l].pc # "none" /\ hnd[l] \in HandlerState
    BY <1>3, <1>a DEF LockPool, HandlerTypes
  <2>2. h \in HandlerState /\ h.req = hnd[l].req /\ h.conn = hnd[l].conn
        /\ h.user = hnd[l].user /\ h.obj <= Len(heap)
    <3>1. userObj[hnd[l].user] \in Nat /\ userObj[hnd[l].user] <= Len(heap)
      BY <2>1
    <3>2. QED
      BY <2>1, <3>1 DEF HandlerState, HandlerPc
  <2>3. hnd' = [hnd EXCEPT ![l] = h]
    BY <1>3 DEF LockPool, getUserByUserId
  <2> HIDE DEF h
  <2>4. QED
    BY <2>1, <2>2, <2>3, <1>d
<1>4. ASSUME NEW l \in Loop, addUser(l) \/ removeFromPool(l) PROVE HandlerTypes'
  <2>1. hnd[l].pc # "none" /\ hnd[l] \in HandlerState
    BY <1>4, <1>a DEF addUser, removeFromPool, HandlerTypes
  <2>2. PICK b \in BOOLEAN : hnd' = [hnd EXCEPT ![l].pc = "answer", ![l].ok = b]
    BY <1>4 DEF addUser, removeFromPool, Unlock
  <2> DEFINE h == [hnd[l] EXCEPT !.pc = "answer", !.ok = b]
  <2>3. h \in HandlerState /\ h.req = hnd[l].req /\ h.conn = hnd[l].conn
        /\ h.user = hnd[l].user /\ h.obj <= Len(heap)
    BY <2>1, <1>a DEF HandlerState, HandlerPc, HandlerTypes
  <2>4. hnd' = [hnd EXCEPT ![l] = h]
    BY <2>2
  <2> HIDE DEF h
  <2>5. QED
    BY <2>1, <2>3, <2>4, <1>d
<1>5. ASSUME NEW l \in Loop, FindSender(l) \/ FindOther(l) \/ FindPeer(l)
      PROVE  HandlerTypes'
  <2>1. hnd[l].pc # "none" /\ hnd[l] \in HandlerState /\ hnd[l].obj <= Len(heap)
        /\ hnd[l].req \notin {"start", "cancel"} /\ hnd[l].conn \in Conn
    BY <1>5, <1>a DEF FindSender, FindOther, FindPeer, At, HandlerTypes
  <2>2. CASE FindSender(l)
    <3> DEFINE h == [hnd[l] EXCEPT !.pc = "sender", !.user = connUser[hnd[l].conn]]
    <3>1. h \in HandlerState /\ h.req = hnd[l].req /\ h.conn = hnd[l].conn
          /\ h.obj <= Len(heap)
      BY <2>1 DEF HandlerState, HandlerPc, SessionsTypeOK
    <3>2. hnd' = [hnd EXCEPT ![l] = h]
      BY <2>2 DEF FindSender, getUserIdByConn
    <3> HIDE DEF h
    <3>3. QED
      BY <2>1, <3>1, <3>2, <1>d
  <2>3. CASE FindOther(l)
    <3>1. getUserIdFromOtherId(hnd[l].user) \in User \cup {NoUser}
      <4>1. hnd[l].user \in User \cup {NoUser}
        BY <2>1 DEF HandlerState
      <4>2. rooms \in Seq(RoomEntry) /\ roomOf \in [User -> 0..Len(rooms)]
        BY DEF TypeInv, RoomsTypeOK, RoomEntry
      <4>3. \A r \in 1..Len(rooms) : rooms[r] \in RoomEntry
        BY <4>2, ElementOfSeq
      <4>4. QED
        BY <4>1, <4>2, <4>3 DEF getUserIdFromOtherId, getOtherId, RoomEntry, NoRoom
    <3> DEFINE h == [hnd[l] EXCEPT !.pc = "other",
                                   !.other = getUserIdFromOtherId(hnd[l].user)]
    <3>2. h \in HandlerState /\ h.req = hnd[l].req /\ h.conn = hnd[l].conn
          /\ h.obj <= Len(heap)
      BY <2>1, <3>1 DEF HandlerState, HandlerPc
    <3>3. hnd' = [hnd EXCEPT ![l] = h]
      BY <2>3 DEF FindOther
    <3> HIDE DEF h
    <3>4. QED
      BY <2>1, <3>2, <3>3, <1>d
  <2>4. CASE FindPeer(l)
    <3>1. getConnByUserId(hnd[l].other) \in Conn \cup {NoConn}
      BY <2>1 DEF getConnByUserId, HandlerState, SessionsTypeOK
    <3> DEFINE h == [hnd[l] EXCEPT !.pc = "peer",
                                   !.peer = getConnByUserId(hnd[l].other)]
    <3>2. h \in HandlerState /\ h.req = hnd[l].req /\ h.conn = hnd[l].conn
          /\ h.obj <= Len(heap)
      BY <2>1, <3>1 DEF HandlerState, HandlerPc
    <3>3. hnd' = [hnd EXCEPT ![l] = h]
      BY <2>4 DEF FindPeer
    <3> HIDE DEF h
    <3>4. QED
      BY <2>1, <3>2, <3>3, <1>d
  <2>5. QED
    BY <1>5, <2>2, <2>3, <2>4
<1>6. ASSUME NEW l \in Loop,
             \/ handChess(l) \/ DbWin(l) \/ DbLose(l) \/ winGame(l)
             \/ loseGame(l) \/ TellWinner(l) \/ ExitRoom(l)
      PROVE  HandlerTypes'
  <2>1. hnd[l].pc # "none" /\ hnd[l] \in HandlerState /\ hnd[l].obj <= Len(heap)
        /\ hnd[l].req \notin {"start", "cancel"}
    BY <1>6, <1>a DEF handChess, DbWin, DbLose, DbUpdate, winGame, loseGame,
       Score, TellWinner, ExitRoom, At, HandlerTypes
  <2>2. CASE Return(l)
    BY <2>2, <1>d DEF Return
  <2>3. ASSUME NEW pc \in HandlerPc, Goto(l, pc) PROVE HandlerTypes'
    <3> DEFINE h == [hnd[l] EXCEPT !.pc = pc]
    <3>1. h \in HandlerState /\ h.req = hnd[l].req /\ h.conn = hnd[l].conn
          /\ h.user = hnd[l].user /\ h.obj <= Len(heap)
      BY <2>1 DEF HandlerState
    <3>2. hnd' = [hnd EXCEPT ![l] = h]
      BY <2>3 DEF Goto
    <3> HIDE DEF h
    <3>3. QED
      BY <2>1, <3>1, <3>2, <1>d
  <2>4. Return(l) \/ \E pc \in HandlerPc : Goto(l, pc)
    BY <1>6 DEF handChess, DbWin, DbLose, DbUpdate, winGame, loseGame, Score,
       TellWinner, ExitRoom, HandlerPc
  <2>5. QED
    BY <2>2, <2>3, <2>4
<1>7. ASSUME NEW l \in Loop,
             \/ onChat(l) \/ TellMove(l) \/ TellLoser(l) \/ ExitDone(l)
             \/ MatchAck(l)
      PROVE  HandlerTypes'
  BY <1>7, <1>d DEF onChat, TellMove, TellLoser, ExitDone, MatchAck, Return
<1>8. QED
  BY <1>1, <1>2, <1>2a, <1>3, <1>4, <1>5, <1>6, <1>7, WhoWrites

\* One message more at the end of the functors of the loop of c.
LEMMA MessageQueued ==
    ASSUME TypeInv, NEW c \in Conn, NEW msg \in Message,
           pending' = [pending EXCEPT ![LoopOf[c]] =
                          Append(@, [conn |-> c, msg |-> msg])]
    PROVE  /\ pending' \in [Loop -> Seq([conn : Conn, msg : Message])]
           /\ \A l \in Loop : /\ Len(pending[l]) \in Nat
                              /\ Len(pending'[l]) = IF l = LoopOf[c] THEN Len(pending[l]) + 1
                                                    ELSE Len(pending[l])
                              /\ \A i \in 1..Len(pending[l]) :
                                    pending'[l][i] = pending[l][i]
           /\ pending'[LoopOf[c]][Len(pending[LoopOf[c]]) + 1]
                = [conn |-> c, msg |-> msg]
<1>1. pending \in [Loop -> Seq([conn : Conn, msg : Message])]
  BY DEF TypeInv, MessageTypes
<1> DEFINE m == [conn |-> c, msg |-> msg]
<1>2. m \in [conn : Conn, msg : Message]
  OBVIOUS
<1> HIDE DEF m
<1>3. pending' = [pending EXCEPT ![LoopOf[c]] = Append(pending[LoopOf[c]], m)]
  BY DEF m
<1>a. LoopOf[c] \in Loop
  BY LoopOfAssumption
<1>4. pending[LoopOf[c]] \in Seq([conn : Conn, msg : Message])
  BY <1>1, <1>a
<1> DEFINE q == Append(pending[LoopOf[c]], m)
<1>5. /\ q \in Seq([conn : Conn, msg : Message])
      /\ Len(q) = Len(pending[LoopOf[c]]) + 1
      /\ \A i \in 1..Len(pending[LoopOf[c]]) : q[i] = pending[LoopOf[c]][i]
      /\ q[Len(pending[LoopOf[c]]) + 1] = m
  BY <1>2, <1>4
<1>6. pending' = [pending EXCEPT ![LoopOf[c]] = q]
  BY <1>3
<1> HIDE DEF q
<1>7. /\ pending' \in [Loop -> Seq([conn : Conn, msg : Message])]
      /\ pending'[LoopOf[c]] = q
      /\ \A l \in Loop : l # LoopOf[c] => pending'[l] = pending[l]
  <2> DEFINE k == LoopOf[c]
  <2>1. k \in Loop
    BY <1>a
  <2>2. pending' = [pending EXCEPT ![k] = q]
    BY <1>6
  <2> DEFINE Q == Seq([conn : Conn, msg : Message])
  <2>3. pending \in [Loop -> Q] /\ q \in Q
    BY <1>1, <1>5
  <2> HIDE DEF k, Q
  <2>4. pending' \in [Loop -> Q]
    BY <2>2, <2>3
  <2>5. pending'[k] = q
    BY <2>1, <2>2, <2>3
  <2>6. \A l \in Loop : l # k => pending'[l] = pending[l]
    BY <2>2, <2>3
  <2>7. QED
    BY <2>4, <2>5, <2>6 DEF k, Q
<1>8. \A l \in Loop : Len(pending[l]) \in Nat
  BY <1>1, LenProperties
<1>9. QED
  BY <1>a, <1>5, <1>7, <1>8 DEF m

LEMMA MessageRun ==
    ASSUME TypeInv, NEW l \in Loop, pending[l] # <<>>,
           pending' = [pending EXCEPT ![l] = Tail(@)]
    PROVE  /\ pending' \in [Loop -> Seq([conn : Conn, msg : Message])]
           /\ Len(pending[l]) \in Nat /\ 1 \in 1..Len(pending[l])
           /\ Head(pending[l]) = pending[l][1]
           /\ Head(pending[l]) \in [conn : Conn, msg : Message]
           /\ Len(pending'[l]) = Len(pending[l]) - 1
           /\ \A i \in 1..(Len(pending[l]) - 1) : pending'[l][i] = pending[l][i + 1]
           /\ \A k \in Loop \ {l} : pending'[k] = pending[k]
<1>1. pending \in [Loop -> Seq([conn : Conn, msg : Message])]
  BY DEF TypeInv, MessageTypes
<1>2. pending[l] \in Seq([conn : Conn, msg : Message])
  BY <1>1
<1>3. pending' = [pending EXCEPT ![l] = Tail(pending[l])]
  OBVIOUS
<1>4. /\ Len(pending[l]) \in Nat /\ 1 \in 1..Len(pending[l])
      /\ Len(pending[l]) >= 1
      /\ Head(pending[l]) = pending[l][1]
      /\ Tail(pending[l]) \in Seq([conn : Conn, msg : Message])
      /\ Len(Tail(pending[l])) = Len(pending[l]) - 1
      /\ \A i \in 1..(Len(pending[l]) - 1) : Tail(pending[l])[i] = pending[l][i + 1]
  BY <1>2
<1>5. Head(pending[l]) \in [conn : Conn, msg : Message]
  BY <1>2, <1>4, ElementOfSeq
<1>6. /\ pending'[l] = Tail(pending[l])
      /\ \A k \in Loop \ {l} : pending'[k] = pending[k]
      /\ pending' \in [Loop -> Seq([conn : Conn, msg : Message])]
  BY <1>1, <1>3, <1>4
<1>7. Len(pending'[l]) = Len(pending[l]) - 1
      /\ \A i \in 1..(Len(pending[l]) - 1) : pending'[l][i] = pending[l][i + 1]
  BY <1>4, <1>6, Zenon
<1>8. /\ Len(pending[l]) \in Nat /\ 1 \in 1..Len(pending[l])
      /\ Head(pending[l]) = pending[l][1]
  BY <1>4
<1>b1. pending' \in [Loop -> Seq([conn : Conn, msg : Message])]
  BY <1>6
<1>b2. Len(pending[l]) \in Nat /\ 1 \in 1..Len(pending[l])
  BY <1>8
<1>b3. Head(pending[l]) = pending[l][1]
  BY <1>8
<1>b4. Head(pending[l]) \in [conn : Conn, msg : Message]
  BY <1>5
<1>b5. Len(pending'[l]) = Len(pending[l]) - 1
  BY <1>7
<1>b6. \A i \in 1..(Len(pending[l]) - 1) : pending'[l][i] = pending[l][i + 1]
  BY <1>7
<1>b7. \A k \in Loop \ {l} : pending'[k] = pending[k]
  BY <1>6
<1>9. QED
  BY <1>b1, <1>b2, <1>b3, <1>b4, <1>b5, <1>b6, <1>b7, Zenon

LEMMA MessageTypesStep ==
    ASSUME TypeInv, GameNext
    PROVE  MessageTypes'
<1> USE Ground
<1>a. MessageTypes /\ \A c : Owned(c) => Owned(c)'
  BY HeapGrows DEF TypeInv
<1>b. ASSUME NEW c \in Conn, NEW msg \in Message, msg \in News => Owned(c),
             pending' = [pending EXCEPT ![LoopOf[c]] =
                            Append(@, [conn |-> c, msg |-> msg])]
      PROVE  MessageTypes'
  <2>1. pending' \in [Loop -> Seq([conn : Conn, msg : Message])]
    BY <1>b, MessageQueued
  <2>2. ASSUME NEW l \in Loop, NEW i \in 1..Len(pending'[l])
        PROVE  \/ i \in 1..Len(pending[l]) /\ pending'[l][i] = pending[l][i]
               \/ pending'[l][i] = [conn |-> c, msg |-> msg]
    <3>1. CASE l = LoopOf[c]
      BY <1>b, <3>1, MessageQueued
    <3>2. CASE l # LoopOf[c]
      BY <1>b, <3>2, MessageQueued
    <3>3. QED
      BY <3>1, <3>2
  <2>3. ASSUME NEW l \in Loop, NEW i \in 1..Len(pending'[l]),
               pending'[l][i].msg \in News
        PROVE  Owned(pending'[l][i].conn)
    BY <2>2, <2>3, <1>a, <1>b DEF MessageTypes
  <2>4. QED
    BY <2>1, <2>3, <1>a DEF MessageTypes
<1>1. CASE UNCHANGED pending
  BY <1>1, <1>a DEF MessageTypes
<1>2. ASSUME NEW l \in Loop, doPendingFunctor(l) PROVE MessageTypes'
  <2>1. pending[l] # <<>> /\ pending' = [pending EXCEPT ![l] = Tail(@)]
    BY <1>2 DEF doPendingFunctor
  <2>2. /\ pending' \in [Loop -> Seq([conn : Conn, msg : Message])]
        /\ Len(pending[l]) \in Nat
        /\ Len(pending'[l]) = Len(pending[l]) - 1
        /\ \A i \in 1..(Len(pending[l]) - 1) : pending'[l][i] = pending[l][i + 1]
        /\ \A k \in Loop \ {l} : pending'[k] = pending[k]
    BY <2>1, MessageRun
  <2>3. ASSUME NEW k \in Loop, NEW i \in 1..Len(pending'[k])
        PROVE  \E j \in 1..Len(pending[k]) : pending'[k][i] = pending[k][j]
    <3>1. CASE k = l
      <4>1. i \in 1..(Len(pending[l]) - 1) /\ i + 1 \in 1..Len(pending[l])
        BY <2>2, <3>1
      <4>2. pending'[k][i] = pending[k][i + 1]
        BY <2>2, <3>1, <4>1
      <4>3. QED
        BY <3>1, <4>1, <4>2
    <3>2. CASE k # l
      BY <2>2, <3>2
    <3>3. QED
      BY <3>1, <3>2
  <2>4. ASSUME NEW k \in Loop, NEW i \in 1..Len(pending'[k]),
               pending'[k][i].msg \in News
        PROVE  \A c : c = pending'[k][i].conn => Owned(c)'
    <3>1. PICK j \in 1..Len(pending[k]) : pending'[k][i] = pending[k][j]
      BY <2>3
    <3>2. Owned(pending[k][j].conn)
      BY <2>4, <3>1, <1>a DEF MessageTypes
    <3>3. QED
      BY <3>1, <3>2, <1>a
  <2>5. QED
    BY <2>2, <2>4 DEF MessageTypes
<1>3. ASSUME MatcherTell PROVE MessageTypes'
  <2> DEFINE c == IF mt.c1 = NoConn THEN mt.c2 ELSE mt.c1
  <2>1. c \in Conn /\ Owned(c)
    BY <1>3 DEF MatcherTell, TypeInv, MatcherTypes, MatcherState, GameNext
  <2>2. UNCHANGED pending \/ pending' = [pending EXCEPT ![LoopOf[c]] =
                                Append(@, [conn |-> c, msg |-> "match failed"])]
    BY <1>3 DEF MatcherTell, Push
  <2> HIDE DEF c
  <2>3. "match failed" \in Message
    BY DEF Message
  <2>4. QED
    BY <2>1, <2>2, <2>3, <1>1, <1>b
<1>4. ASSUME MatcherPush PROVE MessageTypes'
  <2>1. PICK c \in {mt.c1, mt.c2} : Push(c, "matched")
    BY <1>4 DEF MatcherPush
  <2>2. c \in Conn /\ Owned(c)
    BY <1>4 DEF MatcherPush, TypeInv, MatcherTypes, MatcherState
  <2>3. UNCHANGED pending \/ pending' = [pending EXCEPT ![LoopOf[c]] =
                                Append(@, [conn |-> c, msg |-> "matched"])]
    BY <2>1 DEF Push
  <2>4. "matched" \in Message
    BY DEF Message
  <2>5. QED
    BY <2>2, <2>3, <2>4, <1>1, <1>b
<1>5. ASSUME NEW l \in Loop,
             onChat(l) \/ TellMove(l) \/ TellWinner(l) \/ TellLoser(l)
      PROVE  MessageTypes'
  <2>1. PICK c \in {hnd[l].conn, hnd[l].peer},
             msg \in {"chat", "move", "you won", "you lost"} : Send(l, c, msg)
    BY <1>5 DEF onChat, TellMove, TellWinner, TellLoser
  <2>2. msg \in Message /\ msg \notin News
    BY DEF Message, News
  <2>3. \/ UNCHANGED pending
        \/ /\ c \in Conn
           /\ pending' = [pending EXCEPT ![LoopOf[c]] =
                             Append(@, [conn |-> c, msg |-> msg])]
    BY <2>1 DEF Send, SessionsTypeOK
  <2>4. QED
    BY <2>2, <2>3, <1>1, <1>b
<1>6. QED
  BY <1>1, <1>2, <1>3, <1>4, <1>5, WhoWrites

LEMMA MatcherTypesStep ==
    ASSUME TypeInv, GameNext
    PROVE  MatcherTypes'
<1> USE Ground
<1>a. MatcherTypes /\ Len(heap') \in Nat /\ Len(heap) <= Len(heap') /\ ~crashed
      /\ (\A c : Owned(c) => Owned(c)') /\ crashed \in BOOLEAN
  BY HeapGrows DEF TypeInv, GameNext, OtherTypes
<1>1. CASE UNCHANGED mt
  <2>1. mt.pc = "tell" => mt.c1 # NoConn \/ mt.c2 # NoConn
    BY <1>a DEF MatcherTypes
  <2>2. QED
    BY <1>1, <2>1, <1>a DEF MatcherTypes, MatcherState
<1>b. ASSUME mt' \in MatcherState,
             mt'.pc \notin {"awake", "asleep", "scan"} =>
                mt'.u1 \in User /\ mt'.u2 \in User /\ mt'.tier <= 2,
             \A c : c \in {mt'.c1, mt'.c2} /\ c # NoConn => Owned(c),
             mt'.o1 <= Len(heap) /\ mt'.o2 <= Len(heap),
             mt'.c1 = NoConn => mt'.o1 = NoObj,
             mt'.c2 = NoConn => mt'.o2 = NoObj,
             mt'.pc \in {"awake", "asleep", "scan", "conn1", "conn2", "user1"}
                => mt'.o1 = NoObj,
             mt'.pc \in {"awake", "asleep", "scan", "conn1", "conn2", "user1",
                         "user2"} => mt'.o2 = NoObj,
             mt'.pc \notin {"tell", "push1", "push2"}
      PROVE  MatcherTypes'
  <2>1. mt'.o1 <= Len(heap') /\ mt'.o2 <= Len(heap')
    BY <1>a, <1>b DEF MatcherState
  <2>2. \A c : c \in {mt'.c1, mt'.c2} /\ c # NoConn => Owned(c)'
    BY <1>a, <1>b, Zenon
  <2>3. QED
    BY <2>1, <2>2, <1>b DEF MatcherTypes, NoObj
<1>2. ASSUME NEW l \in Loop, addUser(l) PROVE MatcherTypes'
  <2>1. UNCHANGED mt \/ (mt.pc = "asleep" /\ mt' = [mt EXCEPT !.pc = "awake"])
    BY <1>2 DEF addUser, notify_one
  <2>2. CASE mt.pc = "asleep" /\ mt' = [mt EXCEPT !.pc = "awake"]
    BY <2>2, <1>a DEF MatcherTypes, MatcherState
  <2>3. QED
    BY <1>1, <2>1, <2>2
<1>3. ASSUME MatcherTest PROVE MatcherTypes'
  BY <1>3, <1>a DEF MatcherTest, MatcherStart, MatcherTypes, MatcherState, NoObj
<1>4. ASSUME MatcherTake PROVE MatcherTypes'
  <2>1. PICK t \in Tier :
           /\ Full(t)
           /\ mt' = [mt EXCEPT !.pc = "conn1", !.tier = t, !.u1 = pool[t][1],
                               !.u2 = pool[t][2]]
    BY <1>4 DEF MatcherTake
  <2>2. pool[t] \in Seq(User) /\ Len(pool[t]) >= 2
    BY <2>1 DEF Full, TypeInv, OtherTypes
  <2>3. pool[t][1] \in User /\ pool[t][2] \in User /\ t \in 0..2
    <3>1. 1 \in 1..Len(pool[t]) /\ 2 \in 1..Len(pool[t])
      BY <2>2, LenProperties
    <3>2. QED
      BY <2>2, <3>1, ElementOfSeq DEF Tier
  <2>4. mt.pc = "scan"
    BY <1>4 DEF MatcherTake
  <2> DEFINE p == pool[t][1]
             q == pool[t][2]
  <2>5. mt' = [mt EXCEPT !.pc = "conn1", !.tier = t, !.u1 = p, !.u2 = q]
    BY <2>1
  <2> HIDE DEF p, q
  <2>6. p \in User /\ q \in User
    BY <2>3 DEF p, q
  <2>7. /\ mt' \in MatcherState
        /\ mt'.pc = "conn1" /\ mt'.tier = t /\ mt'.u1 = p /\ mt'.u2 = q
        /\ mt'.c1 = mt.c1 /\ mt'.c2 = mt.c2 /\ mt'.o1 = mt.o1 /\ mt'.o2 = mt.o2
    <3>1. mt \in MatcherState /\ t \in 0..3
      BY <2>3, <1>a DEF MatcherTypes
    <3>2. QED
      BY <2>5, <2>6, <3>1 DEF MatcherState
  <2>8. t <= 2
    BY <2>3
  <2>9. QED
    BY <2>4, <2>6, <2>7, <2>8, <1>a, <1>b DEF MatcherTypes
<1>5. ASSUME MatcherLookup PROVE MatcherTypes'
  <2>1. ASSUME NEW u \in User
        PROVE  /\ getConnByUserId(u) \in Conn \cup {NoConn}
               /\ getConnByUserId(u) # NoConn => Owned(getConnByUserId(u))
    <3>1. getConnByUserId(u) = userConn[u]
      BY DEF getConnByUserId
    <3>2. userConn[u] # NoConn => /\ userObj[u] \in Obj
                                  /\ heap[userObj[u]].conn = userConn[u]
      <4>1. userConn[u] # NoConn =>
              /\ userObj[u] # 0 /\ userObj[u] <= Len(heap)
              /\ heap[userObj[u]] = [user |-> u, conn |-> userConn[u]]
        BY DEF OnlineTogether, Online, NoObj
      <4>2. userObj[u] \in 0..Len(heap)
        OBVIOUS
      <4>3. QED
        BY <4>1, <4>2 DEF Obj
    <3>3. QED
      BY <3>1, <3>2 DEF SessionsTypeOK, Owned
  <2>2. ASSUME NEW c \in Conn \cup {NoConn}
        PROVE  /\ getUserByconn(c) \in 0..Len(heap)
               /\ c = NoConn => getUserByconn(c) = NoObj
    <3>1. c \in Conn => connUser[c] \in User \cup {NoUser}
      BY DEF SessionsTypeOK
    <3>2. QED
      BY <3>1 DEF getUserByconn, NoObj
  <2>3. mt \in MatcherState /\ mt.u1 \in User /\ mt.u2 \in User
    BY <1>5, <1>a DEF MatcherLookup, Lookup, MatcherTypes
  <2>4. CASE Lookup("conn1", "conn2", "c1", getConnByUserId(mt.u1))
    <3> DEFINE c == getConnByUserId(mt.u1)
    <3>1. mt.pc = "conn1" /\ mt' = [mt EXCEPT !.pc = "conn2", !.c1 = c]
      BY <2>4 DEF Lookup
    <3>2. c \in Conn \cup {NoConn} /\ (c # NoConn => Owned(c))
      BY <2>1, <2>3
    <3> HIDE DEF c
    <3>3. /\ mt' \in MatcherState
          /\ mt'.pc = "conn2" /\ mt'.tier = mt.tier /\ mt'.u1 = mt.u1 /\ mt'.u2 = mt.u2
          /\ mt'.c1 = c /\ mt'.c2 = mt.c2 /\ mt'.o1 = mt.o1 /\ mt'.o2 = mt.o2
      BY <3>1, <3>2, <2>3 DEF MatcherState
    <3>4. QED
      BY <3>1, <3>2, <3>3, <1>a, <1>b DEF MatcherTypes, NoObj
  <2>5. CASE Lookup("conn2", "user1", "c2", getConnByUserId(mt.u2))
    <3> DEFINE c == getConnByUserId(mt.u2)
    <3>1. mt.pc = "conn2" /\ mt' = [mt EXCEPT !.pc = "user1", !.c2 = c]
      BY <2>5 DEF Lookup
    <3>2. c \in Conn \cup {NoConn} /\ (c # NoConn => Owned(c))
      BY <2>1, <2>3
    <3> HIDE DEF c
    <3>3. /\ mt' \in MatcherState
          /\ mt'.pc = "user1" /\ mt'.tier = mt.tier /\ mt'.u1 = mt.u1 /\ mt'.u2 = mt.u2
          /\ mt'.c1 = mt.c1 /\ mt'.c2 = c /\ mt'.o1 = mt.o1 /\ mt'.o2 = mt.o2
      BY <3>1, <3>2, <2>3 DEF MatcherState
    <3>4. QED
      BY <3>1, <3>2, <3>3, <1>a, <1>b DEF MatcherTypes, NoObj
  <2>6. CASE Lookup("user1", "user2", "o1", getUserByconn(mt.c1))
    <3> DEFINE o == getUserByconn(mt.c1)
    <3>1. mt.pc = "user1" /\ mt' = [mt EXCEPT !.pc = "user2", !.o1 = o]
      BY <2>6 DEF Lookup
    <3>2. o \in Nat /\ o <= Len(heap) /\ (mt.c1 = NoConn => o = NoObj)
      BY <2>2, <2>3 DEF MatcherState
    <3> HIDE DEF o
    <3>3. /\ mt' \in MatcherState
          /\ mt'.pc = "user2" /\ mt'.tier = mt.tier /\ mt'.u1 = mt.u1 /\ mt'.u2 = mt.u2
          /\ mt'.c1 = mt.c1 /\ mt'.c2 = mt.c2 /\ mt'.o1 = o /\ mt'.o2 = mt.o2
      BY <3>1, <3>2, <2>3 DEF MatcherState
    <3>4. QED
      BY <3>1, <3>2, <3>3, <1>a, <1>b DEF MatcherTypes, NoObj
  <2>7. CASE Lookup("user2", "decide", "o2", getUserByconn(mt.c2))
    <3> DEFINE o == getUserByconn(mt.c2)
    <3>1. mt.pc = "user2" /\ mt' = [mt EXCEPT !.pc = "decide", !.o2 = o]
      BY <2>7 DEF Lookup
    <3>2. o \in Nat /\ o <= Len(heap) /\ (mt.c2 = NoConn => o = NoObj)
      BY <2>2, <2>3 DEF MatcherState
    <3> HIDE DEF o
    <3>3. /\ mt' \in MatcherState
          /\ mt'.pc = "decide" /\ mt'.tier = mt.tier /\ mt'.u1 = mt.u1 /\ mt'.u2 = mt.u2
          /\ mt'.c1 = mt.c1 /\ mt'.c2 = mt.c2 /\ mt'.o1 = mt.o1 /\ mt'.o2 = o
      BY <3>1, <3>2, <2>3 DEF MatcherState
    <3>4. QED
      BY <3>1, <3>2, <3>3, <1>a, <1>b DEF MatcherTypes, NoObj
  <2>8. QED
    BY <1>5, <2>4, <2>5, <2>6, <2>7 DEF MatcherLookup
<1>6. ASSUME MatcherDecide PROVE MatcherTypes'
  <2>1. CASE mt.c1 = NoConn \/ mt.c2 = NoConn
    <3>1. mt.pc = "decide" /\ mt' = [mt EXCEPT !.pc = "tell"]
      BY <1>6, <2>1 DEF MatcherDecide
    <3>2. crashed' \/ mt.c1 # NoConn \/ mt.c2 # NoConn
      <4>1. mt.c1 = NoConn /\ mt.c2 = NoConn => mt.o2 = NoObj
        BY <1>a DEF MatcherTypes
      <4>2. QED
        BY <4>1, <1>6 DEF MatcherDecide
    <3>3. QED
      BY SMTT(30), <3>1, <3>2, <1>a DEF MatcherTypes, MatcherState
  <2>2. CASE ~ (mt.c1 = NoConn \/ mt.c2 = NoConn)
    <3>1. mt.pc = "decide" /\ mt' = [mt EXCEPT !.pc = "create"]
      BY <1>6, <2>2 DEF MatcherDecide
    <3>2. QED
      BY SMTT(30), <3>1, <1>a DEF MatcherTypes, MatcherState
  <2>3. QED
    BY <2>1, <2>2
<1>7. ASSUME MatcherTell \/ MatcherCreateRoom PROVE MatcherTypes'
  <2>1. \/ mt.pc = "tell" /\ mt' = [mt EXCEPT !.pc = "create"]
        \/ mt.pc = "create" /\ mt' = [mt EXCEPT !.pc = "gaming"]
    BY <1>7 DEF MatcherTell, MatcherCreateRoom
  <2>2. QED
    BY <2>1, <1>a DEF MatcherTypes, MatcherState
<1>8. ASSUME MatcherSetGaming PROVE MatcherTypes'
  <2>1. \/ UNCHANGED mt
        \/ /\ mt.pc = "gaming" /\ mt' = [mt EXCEPT !.pc = "push1"]
           /\ NoObj \notin {mt.o1, mt.o2}
    BY <1>8 DEF MatcherSetGaming
  <2>2. CASE /\ mt.pc = "gaming" /\ mt' = [mt EXCEPT !.pc = "push1"]
             /\ NoObj \notin {mt.o1, mt.o2}
    BY <2>2, <1>a DEF MatcherTypes, MatcherState
  <2>3. QED
    BY <2>1, <2>2, <1>1
<1>9. ASSUME MatcherPush PROVE MatcherTypes'
  <2>1. \/ mt.pc = "push1" /\ mt' = [mt EXCEPT !.pc = "push2"]
        \/ /\ mt.pc = "push2"
           /\ mt' = [MatcherStart EXCEPT !.pc = "scan", !.tier = mt.tier + 1]
    BY <1>9 DEF MatcherPush
  <2>2. CASE mt.pc = "push1" /\ mt' = [mt EXCEPT !.pc = "push2"]
    BY <2>2, <1>a DEF MatcherTypes, MatcherState
  <2>3. CASE /\ mt.pc = "push2"
             /\ mt' = [MatcherStart EXCEPT !.pc = "scan", !.tier = mt.tier + 1]
    <3>1. mt.tier + 1 \in 0..3
      BY <2>3, <1>a DEF MatcherTypes, MatcherState
    <3>2. /\ mt' \in MatcherState /\ mt'.pc = "scan"
          /\ mt'.c1 = NoConn /\ mt'.c2 = NoConn /\ mt'.o1 = 0 /\ mt'.o2 = 0
      BY <2>3, <3>1 DEF MatcherState, MatcherStart, NoObj
    <3>3. QED
      BY <3>2, <1>a, <1>b DEF NoObj
  <2>4. QED
    BY <2>1, <2>2, <2>3
<1>10. QED
  BY <1>1, <1>2, <1>3, <1>4, <1>5, <1>6, <1>7, <1>8, <1>9, WhoWrites

LEMMA OtherTypesStep ==
    ASSUME TypeInv, GameNext
    PROVE  OtherTypes'
<1> USE Ground
<1>a. OtherTypes
  BY DEF TypeInv
<1>1. pool' \in [Tier -> Seq(User)]
  <2>1. CASE UNCHANGED pool
    BY <2>1, <1>a DEF OtherTypes
  <2>2. ASSUME NEW l \in Loop, addUser(l) PROVE pool' \in [Tier -> Seq(User)]
    <3>1. hnd[l].user \in User
      BY <2>2 DEF addUser, TypeInv, HandlerTypes
    <3>2. PICK t \in Tier : \/ UNCHANGED pool
                            \/ pool' = [pool EXCEPT ![t] = Append(@, hnd[l].user)]
      <4> DEFINE t == tierOf(info[hnd[l].obj].points)
      <4>1. t \in Tier
        BY DEF tierOf, Tier
      <4>2. \/ UNCHANGED pool
            \/ pool' = [pool EXCEPT ![t] = Append(@, hnd[l].user)]
        BY <2>2 DEF addUser
      <4> HIDE DEF t
      <4>3. QED
        BY <4>1, <4>2
    <3>3. Append(pool[t], hnd[l].user) \in Seq(User)
      BY <3>1, <1>a DEF OtherTypes
    <3>4. QED
      BY <3>2, <3>3, <1>a DEF OtherTypes
  <2>3. ASSUME NEW l \in Loop, removeFromPool(l) PROVE pool' \in [Tier -> Seq(User)]
    <3>1. PICK t \in Tier :
             UNCHANGED pool \/ pool' = [pool EXCEPT ![t] = Without(@, hnd[l].user)]
      <4> DEFINE t == tierOf(info[hnd[l].obj].points)
      <4>1. t \in Tier
        BY DEF tierOf, Tier
      <4>2. UNCHANGED pool \/ pool' = [pool EXCEPT ![t] = Without(@, hnd[l].user)]
        BY <2>3 DEF removeFromPool
      <4> HIDE DEF t
      <4>3. QED
        BY <4>1, <4>2
    <3>2. Without(pool[t], hnd[l].user) \in Seq(User)
      BY <1>a, WithoutType DEF OtherTypes
    <3>3. QED
      BY <3>1, <3>2, <1>a DEF OtherTypes
  <2>4. ASSUME MatcherTake PROVE pool' \in [Tier -> Seq(User)]
    <3>1. PICK t \in Tier : Full(t) /\ pool' = [pool EXCEPT ![t] = Tail(Tail(@))]
      BY <2>4 DEF MatcherTake
    <3>2. pool[t] \in Seq(User) /\ Len(pool[t]) >= 2
      BY <3>1, <1>a DEF Full, OtherTypes
    <3>3. Tail(pool[t]) \in Seq(User) /\ Len(Tail(pool[t])) >= 1
      BY <3>2
    <3> DEFINE q == Tail(pool[t])
    <3> HIDE DEF q
    <3>a. q \in Seq(User) /\ Len(q) >= 1
      BY <3>3 DEF q
    <3>b. q # <<>>
      BY <3>a
    <3>c. Tail(q) \in Seq(User)
      BY <3>a, <3>b
    <3>4. Tail(Tail(pool[t])) \in Seq(User)
      BY <3>c DEF q
    <3>5. QED
      BY <3>1, <3>4, <1>a DEF OtherTypes
  <2>5. QED
    BY <2>1, <2>2, <2>3, <2>4, WhoWrites
<1>2. matchLock' \in Loop \cup {Matcher, NoThread}
  <2>1. \/ UNCHANGED matchLock \/ matchLock' \in {Matcher, NoThread}
        \/ \E l \in Loop : matchLock' = l
    BY WhoWrites DEF MatcherTest, LockPool, addUser, removeFromPool, Unlock
  <2>2. QED
    BY <2>1, <1>a DEF OtherTypes
<1>3. batch' \in [Loop -> Nat]
  <2>1. ASSUME NEW l \in Loop, doPendingFunctor(l) PROVE batch' \in [Loop -> Nat]
    <3>1. pending[l] \in Seq([conn : Conn, msg : Message]) /\ pending[l] # <<>>
      BY <2>1 DEF doPendingFunctor, TypeInv, MessageTypes
    <3>2. Len(pending[l]) \in Nat /\ Len(pending[l]) > 0
      BY <3>1
    <3>3. batch \in [Loop -> Nat]
      BY <1>a DEF OtherTypes
    <3>4. batch' = [batch EXCEPT ![l] =
                      (IF batch[l] = 0 THEN Len(pending[l]) ELSE batch[l]) - 1]
      BY <2>1 DEF doPendingFunctor
    <3>5. QED
      BY <3>2, <3>3, <3>4
  <2>2. QED
    BY <2>1, <1>a, WhoWrites DEF OtherTypes
<1>4. crashed' \in BOOLEAN
  <2>1. \/ UNCHANGED crashed \/ crashed' = TRUE
        \/ \E P : crashed' = (P = NoObj)
        \/ crashed' \in BOOLEAN
    BY WhoWrites DEF MatcherDecide, MatcherSetGaming, NullUser,
       NullConnection, winGame, loseGame, Score, ExitDone, RaceMayCrash
  <2>2. QED
    BY <2>1, <1>a DEF OtherTypes
<1>5. db' \in [User -> Nat]
  <2>1. ASSUME NEW l \in Loop, DbWin(l) \/ DbLose(l) PROVE db' \in [User -> Nat]
    <3>1. \/ UNCHANGED db
          \/ \E u : u # NoUser /\ u \in {hnd[l].user, hnd[l].other}
                    /\ (\/ db' = [db EXCEPT ![u] = db[u] + WinPoints]
                        \/ db' = [db EXCEPT ![u] = Lower(db[u])])
      BY <2>1 DEF DbWin, DbLose, DbUpdate
    <3>2. {hnd[l].user, hnd[l].other} \subseteq User \cup {NoUser}
      BY DEF TypeInv, HandlerTypes, HandlerState
    <3>3. \A n \in Nat : n + WinPoints \in Nat /\ Lower(n) \in Nat
      BY DEF WinPoints, Lower, LosePoints
    <3>4. \/ UNCHANGED db
          \/ \E u \in User, n \in Nat : db' = [db EXCEPT ![u] = n]
      <4>1. CASE UNCHANGED db
        BY <4>1
      <4>2. ASSUME NEW u \in User,
                   \/ db' = [db EXCEPT ![u] = db[u] + WinPoints]
                   \/ db' = [db EXCEPT ![u] = Lower(db[u])]
            PROVE  \E v \in User, n \in Nat : db' = [db EXCEPT ![v] = n]
        <5>1. db[u] \in Nat
          BY <1>a DEF OtherTypes
        <5>2. QED
          BY <3>3, <4>2, <5>1
      <4>3. QED
        BY <3>1, <3>2, <4>1, <4>2
    <3>5. QED
      BY <3>4, <1>a DEF OtherTypes
  <2>2. QED
    BY <2>1, <1>a, WhoWrites DEF OtherTypes
<1>6. row' \in [Loop -> Nat]
  <2>1. ASSUME NEW c \in Conn, NEW u \in User, GameLogin(c, u)
        PROVE  row' \in [Loop -> Nat]
    <3>1. LoopOf[c] \in Loop /\ db[u] \in Nat
      BY <1>a DEF OtherTypes
    <3>2. row' = [row EXCEPT ![LoopOf[c]] = db[u]]
      BY <2>1 DEF GameLogin
    <3>3. QED
      BY <3>1, <3>2, <1>a DEF OtherTypes
  <2>2. ASSUME NEW l \in Loop, GameLoginAdd(l) PROVE row' \in [Loop -> Nat]
    BY <2>2, <1>a DEF OtherTypes, GameLoginAdd
  <2>3. QED
    BY <2>1, <2>2, <1>a, WhoWrites DEF OtherTypes
<1>7. wins' \in 0..MaxWins
  <2>1. UNCHANGED wins \/ (wins < MaxWins /\ wins' = wins + 1)
    BY WhoWrites DEF handChess
  <2>2. wins \in 0..MaxWins /\ MaxWins \in Nat
    BY <1>a, GameAssumption DEF OtherTypes
  <2>3. QED
    BY <2>1, <2>2
<1>8. QED
  BY <1>1, <1>2, <1>3, <1>4, <1>5, <1>6, <1>7 DEF OtherTypes

LEMMA TypeStep == TypeInv /\ [GameNext]_allVars => TypeInv'
<1>1. ASSUME TypeInv, GameNext PROVE TypeInv'
  <2>1. SessionsSound'
    BY <1>1, Lifted, BaseStep, LockStep, OnlineStep DEF TypeInv, SessionsSound
  <2>2. QED
    BY <1>1, <2>1, RoomsTypesStep, InfoTypesStep, ClientTypesStep,
       ReplyTypesStep, HandlerTypesStep, MessageTypesStep, MatcherTypesStep,
       OtherTypesStep DEF TypeInv
<1>2. ASSUME TypeInv, UNCHANGED allVars PROVE TypeInv'
  <2> USE <1>2 DEF allVars, sessionVars, roomVars, matchVars, gameVars
  <2>1. SessionsSound'
    BY BaseStep, LockStep, OnlineStep DEF TypeInv, SessionsSound
  <2>2. RoomsTypeOK' /\ InfoTypes' /\ ReplyTypes'
    BY DEF TypeInv, RoomsTypeOK, InfoTypes, ReplyTypes, Obj, Owned
  <2>3. ClientTypes' /\ HandlerTypes'
    <3>1. \A c : Owned(c) => Owned(c)'
      BY DEF Owned, Obj
    <3>2. ClientTypes'
      BY <3>1 DEF TypeInv, ClientTypes
    <3>3. HandlerTypes'
      BY <3>1 DEF TypeInv, HandlerTypes, MayAsk
    <3>4. QED
      BY <3>2, <3>3
  <2>6. MessageTypes'
    <3>1. \A c : Owned(c) => Owned(c)'
      BY DEF Owned, Obj
    <3>2. QED
      BY <3>1 DEF TypeInv, MessageTypes
  <2>4. MatcherTypes' /\ OtherTypes'
    BY DEF TypeInv, MatcherTypes, OtherTypes, Obj, Owned
  <2>5. QED
    BY <2>1, <2>2, <2>3, <2>4, <2>6 DEF TypeInv
<1>3. QED
  BY <1>1, <1>2

\* Whatever clients do and however their logins, matches, games and closes
\* interleave, every variable of the server keeps its type; in particular an
\* index into the objects, the rooms or the lists of the pool is one that exists.
THEOREM GameTypesCorrect == GameSpec => []GameTypeOK
<1>1. TypeInv => GameTypeOK
  <2> SUFFICES ASSUME TypeInv PROVE GameTypeOK
    OBVIOUS
  <2>1. MatchTypeOK
    BY DEF TypeInv, InfoTypes, InfoEntry, ClientTypes, HandlerTypes,
       MessageTypes, MatcherTypes, OtherTypes, MatchTypeOK
  <2>2. QED
    BY <2>1, Ground DEF TypeInv, InfoTypes, OtherTypes, GameTypeOK, Obj
<1>2. QED
  BY <1>1, TypeInit, TypeStep, PTL DEF GameSpec

-----------------------------------------------------------------------------
(* As long as nobody has hung up.  No entry of UserManager goes, so the    *)
(* match thread finds whoever is in the pool.                              *)

\* std::list::remove leaves only what was there.
LEMMA WithoutInside ==
    ASSUME NEW S, NEW users \in Seq(S), NEW user,
           NEW n \in 1..Len(Without(users, user))
    PROVE  \E i \in 1..Len(users) : Without(users, user)[n] = users[i]
<1> DEFINE kept == {i \in DOMAIN users : users[i] # user}
           pick(m) == CHOOSE i \in kept : Cardinality({j \in kept : j <= i}) = m
<1>1. kept \in SUBSET (1..Len(users)) /\ Len(users) \in Nat
  BY LenProperties
<1>2. Cardinality(kept) \in Nat
  <2>1. IsFiniteSet(1..Len(users))
    BY <1>1, FS_Interval
  <2>2. QED
    BY <1>1, <2>1, FS_Subset, FS_CardinalityType
<1>3. ASSUME NEW m \in 1..Cardinality(kept) PROVE pick(m) \in 1..Len(users)
  <2>1. \E i \in kept : Cardinality({j \in kept : j <= i}) = m
    BY <1>1, NthKept
  <2>2. pick(m) \in kept
    BY <2>1
  <2> HIDE DEF pick
  <2>3. QED
    BY <2>2, <1>1
<1>4. Without(users, user) = [m \in 1..Cardinality(kept) |-> users[pick(m)]]
  BY DEF Without
<1> HIDE DEF kept, pick
<1>5. Len(Without(users, user)) = Cardinality(kept)
  BY <1>2, <1>4
<1>6. n \in 1..Cardinality(kept) /\ Without(users, user)[n] = users[pick(n)]
  BY <1>4, <1>5
<1>7. QED
  BY <1>3, <1>6

\* Who is in a list of the pool was there before, or addUser has added it.
LEMMA PoolSources ==
    ASSUME TypeInv, GameNext, NEW t \in Tier
    PROVE  \A i \in 1..Len(pool'[t]) :
              \/ \E j \in 1..Len(pool[t]) : pool'[t][i] = pool[t][j]
              \/ \E l \in Loop : addUser(l) /\ pool'[t][i] = hnd[l].user
<1> DEFINE From(i) == \/ \E j \in 1..Len(pool[t]) : pool'[t][i] = pool[t][j]
                      \/ \E l \in Loop : addUser(l) /\ pool'[t][i] = hnd[l].user
<1>a. pool \in [Tier -> Seq(User)]
  BY DEF TypeInv, OtherTypes
<1>2. CASE pool'[t] = pool[t]
  BY <1>2
<1>3. ASSUME MatcherTake
      PROVE  \/ pool'[t] = pool[t]
             \/ pool'[t] = Tail(Tail(pool[t])) /\ Len(pool[t]) >= 2
  <2>1. PICK s \in Tier : Full(s) /\ pool' = [pool EXCEPT ![s] = Tail(Tail(pool[s]))]
    BY <1>3 DEF MatcherTake
  <2>5. pool \in [Tier -> Seq(User)]
    BY <1>a
  <2>2. CASE s = t
    BY <2>1, <2>2, <2>5 DEF Full
  <2>3. CASE s # t
    <3> DEFINE w == Tail(Tail(pool[s]))
    <3>1. pool' = [pool EXCEPT ![s] = w] /\ DOMAIN pool = Tier
      BY <2>1, <2>5
    <3> HIDE DEF w
    <3>2. pool'[t] = pool[t]
      BY <2>3, <3>1, Zenon
    <3>3. QED
      BY <3>2
  <2>4. QED
    BY <2>2, <2>3
<1>4. CASE pool'[t] = Tail(Tail(pool[t])) /\ Len(pool[t]) >= 2
  <2>1. pool[t] \in Seq(User) /\ Len(pool[t]) \in Nat
    BY <1>a
  <2>2. \A s \in Seq(User) : Len(s) >= 1 =>
           /\ Tail(s) \in Seq(User) /\ Len(Tail(s)) = Len(s) - 1
           /\ \A i \in 1..(Len(s) - 1) : Tail(s)[i] = s[i + 1]
    OBVIOUS
  <2> DEFINE s == pool[t]
             r == Tail(s)
  <2>3. s \in Seq(User) /\ Len(s) >= 2 /\ Len(s) \in Nat
    BY <2>1, <1>4
  <2>4. pool'[t] = Tail(r)
    BY <1>4
  <2> HIDE DEF s
  <2>5. /\ r \in Seq(User) /\ Len(r) = Len(s) - 1
        /\ \A i \in 1..(Len(s) - 1) : r[i] = s[i + 1]
    BY <2>2, <2>3
  <2> HIDE DEF r
  <2>6. /\ Len(Tail(r)) = Len(r) - 1
        /\ \A i \in 1..(Len(r) - 1) : Tail(r)[i] = r[i + 1]
    BY <2>2, <2>3, <2>5
  <2>7. Len(Tail(r)) = Len(s) - 2
        /\ \A i \in 1..(Len(s) - 2) : Tail(r)[i] = s[i + 2]
    BY <2>3, <2>5, <2>6
  <2>8. Len(pool'[t]) = Len(pool[t]) - 2
        /\ \A i \in 1..(Len(pool[t]) - 2) : pool'[t][i] = pool[t][i + 2]
    BY <2>4, <2>7 DEF s
  <2>9. \A i \in 1..Len(pool'[t]) : i + 2 \in 1..Len(pool[t])
    BY <2>1, <2>8
  <2>10. QED
    BY <2>8, <2>9
<1>5. ASSUME NEW l \in Loop, addUser(l)
      PROVE  pool'[t] = pool[t] \/ pool'[t] = Append(pool[t], hnd[l].user)
  BY <1>5, <1>a DEF addUser
<1>6. ASSUME NEW l \in Loop, addUser(l), pool'[t] = Append(pool[t], hnd[l].user)
      PROVE  \A i \in 1..Len(pool'[t]) : From(i)
  <2>1. hnd[l].user \in User
    BY <1>6 DEF addUser, TypeInv, HandlerTypes
  <2>2. pool[t] \in Seq(User)
    BY <1>a
  <2>3. /\ Len(pool'[t]) = Len(pool[t]) + 1 /\ Len(pool[t]) \in Nat
        /\ \A i \in 1..Len(pool[t]) : pool'[t][i] = pool[t][i]
        /\ \A i : i = Len(pool[t]) + 1 => pool'[t][i] = hnd[l].user
    BY <2>1, <2>2, <1>6
  <2>4. ASSUME NEW i \in 1..Len(pool'[t]) PROVE From(i)
    <3>1. CASE i \in 1..Len(pool[t])
      BY <2>3, <3>1
    <3>2. CASE i = Len(pool[t]) + 1
      <4>1. pool'[t][i] = hnd[l].user
        BY <2>3, <3>2, Zenon
      <4>2. QED
        BY <1>6, <4>1, Zenon
    <3>3. QED
      BY <2>3, <3>1, <3>2
  <2>5. QED
    BY <2>4
<1>7. ASSUME NEW l \in Loop, removeFromPool(l)
      PROVE  pool'[t] = pool[t] \/ pool'[t] = Without(pool[t], hnd[l].user)
  BY <1>7, <1>a DEF removeFromPool
<1>8. ASSUME NEW u, pool'[t] = Without(pool[t], u)
      PROVE  \A i \in 1..Len(pool'[t]) : From(i)
  BY <1>8, <1>a, WithoutInside
<1>9. QED
  BY <1>2, <1>3, <1>4, <1>5, <1>6, <1>7, <1>8, WhoWrites

Up == \A c \in Conn : link[c] # "down"

MapsFilled ==
    /\ \A u \in User : Online(u) => connUser[userConn[u]] # NoUser
    /\ \A c \in Conn : connUser[c] # NoUser => Online(connUser[c])

\* The user addUser has found, the users in the pool and the two in hand.
QueuedOnline ==
    /\ \A l \in Loop : hnd[l].pc = "pool" /\ hnd[l].obj # NoObj =>
          hnd[l].user \in User /\ Online(hnd[l].user)
    /\ \A t \in Tier : \A i \in 1..Len(pool[t]) : Online(pool[t][i])
    /\ mt.pc \notin {"awake", "asleep", "scan"} => Online(mt.u1) /\ Online(mt.u2)

\* What the four lookups have found so far.
PairKnown ==
    /\ mt.pc \notin {"awake", "asleep", "scan", "conn1"} => mt.c1 # NoConn
    /\ mt.pc \notin {"awake", "asleep", "scan", "conn1", "conn2"} => mt.c2 # NoConn
    /\ mt.pc \notin {"awake", "asleep", "scan", "conn1", "conn2", "user1"} =>
          mt.o1 # NoObj
    /\ mt.pc \notin {"awake", "asleep", "scan", "conn1", "conn2", "user1",
                     "user2"} => mt.o2 # NoObj
    /\ mt.c1 # NoConn => connUser[mt.c1] # NoUser
    /\ mt.c2 # NoConn => connUser[mt.c2] # NoUser

PairInv == Up => MapsFilled /\ QueuedOnline /\ PairKnown

LEMMA PairInit == GameInit => PairInv
<1> SUFFICES ASSUME GameInit PROVE MapsFilled /\ QueuedOnline /\ PairKnown
  BY DEF PairInv
<1>a. SessionsInit /\ MatchInit
  BY DEF GameInit, Init
<1>1. /\ \A c \in Conn : connUser[c] = NoUser
      /\ \A u \in User : userConn[u] = NoConn
      /\ \A l \in Loop : hnd[l].pc = "none"
      /\ \A t \in Tier : Len(pool[t]) = 0
      /\ mt.pc = "awake" /\ mt.c1 = NoConn /\ mt.c2 = NoConn
  BY <1>a DEF SessionsInit, MatchInit, NoHandler, MatcherStart
<1>2. QED
  BY <1>1 DEF MapsFilled, QueuedOnline, PairKnown, Online

\* While nobody hangs up the maps of UserManager only gain entries.
LEMMA MapsGrow ==
    ASSUME TypeInv, GameNext, Up, MapsFilled
    PROVE  /\ \A u \in User : Online(u) => Online(u)'
           /\ \A c \in Conn : connUser[c] # NoUser => connUser'[c] # NoUser
           /\ MapsFilled'
<1> USE Ground
<1>a. /\ userConn \in [User -> Conn \cup {NoConn}]
      /\ connUser \in [Conn -> User \cup {NoUser}]
  BY DEF SessionsTypeOK
<1>1. CASE UNCHANGED <<userConn, connUser>>
  BY <1>1 DEF MapsFilled, Online
<1>2. ASSUME NEW l \in Loop, SessionOnly(l) PROVE UNCHANGED <<userConn, connUser>>
  <2>1. io[l].pc # "erase"
    <3>1. io[l].pc = "erase" => io[l].conn \in Conn /\ link[io[l].conn] = "down"
      BY DEF CallbackKnows
    <3>2. QED
      BY <3>1 DEF Up
  <2>2. QED
    BY <1>2, <2>1 DEF SessionOnly, LoginRefused, LockForAdd, CloseLookup,
       LockForRemove, removeOnlineUser
<1>3. ASSUME NEW l \in Loop, GameLoginAdd(l)
      PROVE  /\ \A u \in User : Online(u) => Online(u)'
             /\ \A c \in Conn : connUser[c] # NoUser => connUser'[c] # NoUser
             /\ MapsFilled'
  <2>1. PICK w \in User, d \in Conn : w = io[l].user /\ d = io[l].conn
    BY <1>3 DEF GameLoginAdd, LoginAdd, addOnlineUser, CallbackKnows
  <2>2. /\ userConn' = [userConn EXCEPT ![w] = d]
        /\ connUser' = [connUser EXCEPT ![d] = w]
    BY <1>3, <2>1 DEF GameLoginAdd, LoginAdd, addOnlineUser, InsertEntries
  <2>3. /\ \A u \in User : Online(u)' <=> (u = w \/ Online(u))
        /\ \A c \in Conn : connUser'[c] = (IF c = d THEN w ELSE connUser[c])
        /\ \A u \in User : userConn'[u] = (IF u = w THEN d ELSE userConn[u])
    BY <1>a, <2>2 DEF Online
  <2>4. \A c \in Conn : connUser[c] # NoUser => connUser'[c] # NoUser
    BY <2>3
  <2>5. ASSUME NEW u \in User, Online(u)' PROVE connUser'[userConn'[u]] # NoUser
    BY <1>a, <2>3, <2>4, <2>5 DEF MapsFilled, Online
  <2>6. ASSUME NEW c \in Conn, connUser'[c] # NoUser
        PROVE  \E u \in User : u = connUser'[c] /\ Online(u)'
    BY <1>a, <2>3, <2>6 DEF MapsFilled
  <2>7. QED
    BY <2>3, <2>4, <2>5, <2>6 DEF MapsFilled, Online
<1>4. QED
  BY <1>1, <1>2, <1>3, WhoWrites

LEMMA QueuedOnlineStep ==
    ASSUME TypeInv, GameNext, QueuedOnline,
           \A u \in User : Online(u) => Online(u)'
    PROVE  QueuedOnline'
<1> USE Ground
<1>b. /\ hnd \in [Loop -> HandlerState] /\ mt \in MatcherState
      /\ pool \in [Tier -> Seq(User)]
      /\ mt.pc \notin {"awake", "asleep", "scan"} => mt.u1 \in User /\ mt.u2 \in User
  BY DEF TypeInv, HandlerTypes, MatcherTypes, OtherTypes
<1>1. ASSUME NEW k \in Loop, hnd'[k].pc = "pool", hnd'[k].obj # NoObj
      PROVE  \E u \in User : u = hnd'[k].user /\ Online(u)'
  <2>1. CASE hnd'[k] = hnd[k]
    <3>1. hnd[k].user \in User /\ Online(hnd[k].user)
      BY <1>1, <2>1 DEF QueuedOnline
    <3>2. QED
      BY <2>1, <3>1
  <2>2. ASSUME NEW l \in Loop, LockPool(l)
        PROVE  hnd'[k] = hnd[k] \/ \E u \in User : u = hnd'[k].user /\ Online(u)'
    <3>1. /\ hnd[l].user \in User
          /\ hnd' = [hnd EXCEPT ![l].pc = "pool", ![l].obj = userObj[hnd[l].user]]
      BY <2>2 DEF LockPool, getUserByUserId, TypeInv, HandlerTypes
    <3>2. CASE k = l
      <4>1. hnd'[k].user = hnd[l].user /\ userObj[hnd[l].user] # NoObj
        BY <1>1, <1>b, <3>1, <3>2 DEF HandlerState
      <4>2. Online(hnd[l].user)
        BY <3>1, <4>1 DEF OnlineTogether
      <4>3. QED
        BY <3>1, <4>1, <4>2
    <3>3. QED
      BY <3>1, <3>2, <1>b
  <2>3. ASSUME NEW l \in Loop,
               \/ addUser(l) \/ removeFromPool(l) \/ MatchAck(l) \/ FindSender(l)
               \/ FindOther(l) \/ FindPeer(l) \/ onChat(l) \/ handChess(l)
               \/ TellMove(l) \/ DbWin(l) \/ DbLose(l) \/ winGame(l) \/ loseGame(l)
               \/ TellWinner(l) \/ TellLoser(l) \/ ExitRoom(l) \/ ExitDone(l)
        PROVE  hnd'[k] = hnd[k]
    <3>1. hnd'[k] = hnd[k] \/ hnd'[k].pc # "pool"
      <4>1. CASE Return(l) \/ \E pc : pc # "pool" /\ Goto(l, pc)
        BY <4>1, <1>b DEF Return, Goto, NoHandler, HandlerState
      <4>2. CASE addUser(l) \/ removeFromPool(l)
        <5>1. PICK ok : hnd' = [hnd EXCEPT ![l].pc = "answer", ![l].ok = ok]
          BY <4>2 DEF addUser, removeFromPool, Unlock
        <5>2. QED
          BY <5>1, <1>b DEF HandlerState
      <4>3. CASE FindSender(l) \/ FindOther(l) \/ FindPeer(l)
        BY <4>3, <1>b DEF FindSender, FindOther, FindPeer, HandlerState
      <4>4. CASE \/ onChat(l) \/ TellMove(l) \/ TellLoser(l) \/ ExitDone(l)
                 \/ MatchAck(l)
        BY <4>4, <4>1 DEF onChat, TellMove, TellLoser, ExitDone, MatchAck, Return
      <4>5. CASE handChess(l) \/ TellWinner(l) \/ ExitRoom(l)
        BY <4>5, <4>1 DEF handChess, TellWinner, ExitRoom
      <4>6. CASE DbWin(l) \/ DbLose(l) \/ winGame(l) \/ loseGame(l)
        BY <4>6, <4>1 DEF DbWin, DbLose, DbUpdate, winGame, loseGame, Score
      <4>7. QED
        BY <2>3, <4>2, <4>3, <4>4, <4>5, <4>6
    <3>2. QED
      BY <1>1, <3>1
  <2>4. ASSUME NEW c \in Conn, NEW r \in Request,
               Begin(c, r) \/ \E u \in User : ForeignRequest(c, r, u)
        PROVE  hnd'[k] = hnd[k]
    <3>1. PICK u : hnd' = [hnd EXCEPT ![LoopOf[c]] =
                             [NoHandler EXCEPT !.pc = "begin", !.req = r, !.conn = c,
                                               !.user = u]]
      BY <2>4 DEF Begin, ForeignRequest, Handle
    <3>2. hnd'[k] = hnd[k] \/ hnd'[k].pc = "begin"
      BY <3>1, <1>b DEF NoHandler
    <3>3. QED
      BY <1>1, <3>2
  <2>5. QED
    BY <2>1, <2>2, <2>3, <2>4, WhoWrites
<1>2. ASSUME NEW t \in Tier, NEW i \in 1..Len(pool'[t])
      PROVE  \E u \in User : u = pool'[t][i] /\ Online(u)'
  <2>1. CASE \E j \in 1..Len(pool[t]) : pool'[t][i] = pool[t][j]
    <3>1. PICK j \in 1..Len(pool[t]) : pool'[t][i] = pool[t][j]
      BY <2>1
    <3>2. pool[t][j] \in User
      BY <3>1, <1>b, ElementOfSeq
    <3>3. QED
      BY <3>1, <3>2 DEF QueuedOnline
  <2>2. ASSUME NEW l \in Loop, addUser(l), pool'[t][i] = hnd[l].user
        PROVE  \E u \in User : u = pool'[t][i] /\ Online(u)'
    <3>1. hnd[l].user \in User /\ hnd[l].pc = "pool" /\ hnd[l].obj # NoObj
      BY <2>2 DEF addUser, TypeInv, HandlerTypes
    <3>2. QED
      BY <2>2, <3>1 DEF QueuedOnline
  <2>3. QED
    BY <2>1, <2>2, PoolSources
<1>3. ASSUME mt'.pc \notin {"awake", "asleep", "scan"}
      PROVE  \E u, v \in User : u = mt'.u1 /\ v = mt'.u2 /\ Online(u)' /\ Online(v)'
  <2>1. CASE mt'.u1 = mt.u1 /\ mt'.u2 = mt.u2 /\ mt.pc \notin {"awake", "asleep", "scan"}
    BY <2>1, <1>b DEF QueuedOnline
  <2>2. CASE MatcherTake
    <3>1. PICK t \in Tier : /\ Full(t)
                            /\ mt' = [mt EXCEPT !.pc = "conn1", !.tier = t,
                                         !.u1 = pool[t][1], !.u2 = pool[t][2]]
      BY <2>2 DEF MatcherTake
    <3>2. pool[t] \in Seq(User) /\ Len(pool[t]) \in Nat
      BY <3>1, <1>b
    <3>3. 1 \in 1..Len(pool[t]) /\ 2 \in 1..Len(pool[t])
      BY <3>1, <3>2 DEF Full
    <3>4. pool[t][1] \in User /\ pool[t][2] \in User
      BY <3>2, <3>3, ElementOfSeq
    <3>5. Online(pool[t][1]) /\ Online(pool[t][2])
      BY <3>1, <3>3 DEF QueuedOnline
    <3>6. mt'.u1 = pool[t][1] /\ mt'.u2 = pool[t][2]
      BY <3>1, <1>b DEF MatcherState
    <3>7. QED
      BY <3>4, <3>5, <3>6
  <2>3. CASE MatcherTest \/ \E l \in Loop : addUser(l)
    BY <1>3, <2>1, <2>3, <1>b DEF MatcherTest, MatcherStart, addUser, notify_one,
       MatcherState
  <2>4. CASE \/ MatcherDecide \/ MatcherTell \/ MatcherCreateRoom
             \/ MatcherSetGaming \/ MatcherPush
    BY <1>3, <2>1, <2>4, <1>b DEF MatcherDecide, MatcherTell, MatcherCreateRoom,
       MatcherSetGaming, MatcherPush, MatcherStart, MatcherState
  <2>5. CASE MatcherLookup
    BY <1>3, <2>1, <2>5, <1>b DEF MatcherLookup, Lookup, MatcherState
  <2>6. CASE UNCHANGED mt
    BY <1>3, <2>1, <2>6
  <2>7. QED
    BY <2>2, <2>3, <2>4, <2>5, <2>6, WhoWrites
<1>4. QED
  BY <1>1, <1>2, <1>3 DEF QueuedOnline, Online

LEMMA PairKnownStep ==
    ASSUME TypeInv, GameNext, MapsFilled, QueuedOnline, PairKnown,
           \A c \in Conn : connUser[c] # NoUser => connUser'[c] # NoUser
    PROVE  PairKnown'
<1> USE Ground
<1>b. mt \in MatcherState
  BY DEF TypeInv, MatcherTypes
<1>1. ASSUME UNCHANGED <<mt.c1, mt.c2, mt.o1, mt.o2>>,
             \/ mt'.pc \in {"awake", "asleep", "scan", mt.pc}
             \/ mt.pc \in {"decide", "tell", "create", "gaming", "push1", "push2"}
      PROVE  PairKnown'
  <2>1. mt.c1 \in Conn \cup {NoConn} /\ mt.c2 \in Conn \cup {NoConn}
    BY <1>b DEF MatcherState
  <2>2. /\ mt.c1 # NoConn => connUser'[mt.c1] # NoUser
        /\ mt.c2 # NoConn => connUser'[mt.c2] # NoUser
    BY <2>1 DEF PairKnown
  <2>3. QED
    BY <1>1, <2>2 DEF PairKnown
<1>2. CASE UNCHANGED mt
  BY <1>1, <1>2
<1>3. CASE MatcherTest
  BY <1>3 DEF MatcherTest, MatcherStart, PairKnown
<1>4. CASE MatcherTake
  <2>1. /\ mt.pc = "scan" /\ UNCHANGED connUser
        /\ mt'.pc = "conn1" /\ mt'.c1 = mt.c1 /\ mt'.c2 = mt.c2
    BY <1>4, <1>b DEF MatcherTake, MatcherState, restVars, sessionVars
  <2>2. QED
    BY <2>1 DEF PairKnown
<1>5. CASE \E l \in Loop : addUser(l)
  BY <1>5, <1>1, <1>b DEF addUser, notify_one, MatcherState
<1>6. CASE MatcherDecide \/ MatcherTell \/ MatcherCreateRoom \/ MatcherSetGaming
  BY <1>6, <1>1, <1>b DEF MatcherDecide, MatcherTell, MatcherCreateRoom,
     MatcherSetGaming, MatcherState
<1>7. CASE MatcherPush
  <2>1. CASE mt' = [mt EXCEPT !.pc = "push2"] /\ mt.pc = "push1"
    BY <2>1, <1>1, <1>b DEF MatcherState
  <2>2. CASE mt' = [MatcherStart EXCEPT !.pc = "scan", !.tier = mt.tier + 1]
    BY <2>2 DEF MatcherStart, PairKnown
  <2>3. QED
    BY <1>7, <2>1, <2>2 DEF MatcherPush
<1>8. CASE MatcherLookup
  <2>a. UNCHANGED connUser /\ connUser \in [Conn -> User \cup {NoUser}]
        /\ userConn \in [User -> Conn \cup {NoConn}]
    BY <1>8 DEF MatcherLookup, restVars, sessionVars, SessionsTypeOK
  <2>b. mt.pc \notin {"awake", "asleep", "scan"} => mt.u1 \in User /\ mt.u2 \in User
    BY DEF TypeInv, MatcherTypes
  \* A connection on which somebody has logged in has a UserInfo.
  <2>c. ASSUME NEW d \in Conn, connUser[d] # NoUser PROVE getUserByconn(d) # NoObj
    BY <2>a, <2>c DEF MapsFilled, OnlineTogether, getUserByconn
  \* A user that is online has a connection on which somebody has logged in.
  <2>d. ASSUME NEW u \in User, Online(u)
        PROVE  getConnByUserId(u) # NoConn /\ connUser[getConnByUserId(u)] # NoUser
    BY <2>d DEF MapsFilled, Online, getConnByUserId
  <2>1. CASE Lookup("conn1", "conn2", "c1", getConnByUserId(mt.u1))
    <3>1. mt.pc = "conn1" /\ mt' = [mt EXCEPT !.pc = "conn2", !.c1 = getConnByUserId(mt.u1)]
      BY <2>1 DEF Lookup
    <3>2. Online(mt.u1) /\ mt.u1 \in User
      BY <3>1, <2>b DEF QueuedOnline
    <3>3. mt'.pc = "conn2" /\ mt'.c1 = getConnByUserId(mt.u1) /\ mt'.c2 = mt.c2
      BY <3>1, <1>b DEF MatcherState
    <3>4. QED
      BY <2>a, <2>d, <3>2, <3>3 DEF PairKnown
  <2>2. CASE Lookup("conn2", "user1", "c2", getConnByUserId(mt.u2))
    <3>1. mt.pc = "conn2" /\ mt' = [mt EXCEPT !.pc = "user1", !.c2 = getConnByUserId(mt.u2)]
      BY <2>2 DEF Lookup
    <3>2. Online(mt.u2) /\ mt.u2 \in User
      BY <3>1, <2>b DEF QueuedOnline
    <3>3. mt'.pc = "user1" /\ mt'.c2 = getConnByUserId(mt.u2) /\ mt'.c1 = mt.c1
      BY <3>1, <1>b DEF MatcherState
    <3>4. QED
      BY <2>a, <2>d, <3>1, <3>2, <3>3 DEF PairKnown
  <2>3. CASE Lookup("user1", "user2", "o1", getUserByconn(mt.c1))
    <3>1. mt.pc = "user1" /\ mt' = [mt EXCEPT !.pc = "user2", !.o1 = getUserByconn(mt.c1)]
      BY <2>3 DEF Lookup
    <3>2. mt.c1 \in Conn /\ connUser[mt.c1] # NoUser
      BY <3>1, <1>b DEF PairKnown, MatcherState
    <3>3. mt'.pc = "user2" /\ mt'.o1 = getUserByconn(mt.c1) /\ mt'.c1 = mt.c1
          /\ mt'.c2 = mt.c2
      BY <3>1, <1>b DEF MatcherState
    <3>4. QED
      BY <2>a, <2>c, <3>1, <3>2, <3>3 DEF PairKnown
  <2>4. CASE Lookup("user2", "decide", "o2", getUserByconn(mt.c2))
    <3>1. mt.pc = "user2" /\ mt' = [mt EXCEPT !.pc = "decide", !.o2 = getUserByconn(mt.c2)]
      BY <2>4 DEF Lookup
    <3>2. mt.c2 \in Conn /\ connUser[mt.c2] # NoUser
      BY <3>1, <1>b DEF PairKnown, MatcherState
    <3>3. mt'.pc = "decide" /\ mt'.o2 = getUserByconn(mt.c2) /\ mt'.c1 = mt.c1
          /\ mt'.c2 = mt.c2 /\ mt'.o1 = mt.o1
      BY <3>1, <1>b DEF MatcherState
    <3>4. QED
      BY <2>a, <2>c, <3>1, <3>2, <3>3 DEF PairKnown
  <2>5. QED
    BY <1>8, <2>1, <2>2, <2>3, <2>4 DEF MatcherLookup
<1>9. QED
  BY <1>2, <1>3, <1>4, <1>5, <1>6, <1>7, <1>8, WhoWrites

LEMMA PairStep == TypeInv /\ PairInv /\ [GameNext]_allVars => PairInv'
<1>1. ASSUME TypeInv, PairInv, GameNext, Up'
      PROVE  (MapsFilled /\ QueuedOnline /\ PairKnown)'
  <2>1. Up
    <3>1. link \in [Conn -> {"new", "up", "down"}]
      BY <1>1, Ground DEF SessionsTypeOK
    <3>2. CASE UNCHANGED link
      BY <1>1, <3>2 DEF Up
    <3>3. ASSUME NEW c \in Conn, Accept(c) \/ Disconnect(c)
          PROVE  \A d \in Conn : link[d] = "down" => link'[d] = "down"
      BY <3>1, <3>3 DEF Accept, addConn, Disconnect, removeConn
    <3>4. QED
      BY <1>1, <3>2, <3>3, WhoWrites DEF Up
  <2>2. MapsFilled /\ QueuedOnline /\ PairKnown
    BY <1>1, <2>1 DEF PairInv
  <2>3. QED
    BY <1>1, <2>1, <2>2, MapsGrow, QueuedOnlineStep, PairKnownStep
<1>2. ASSUME PairInv, UNCHANGED allVars PROVE PairInv'
  BY <1>2 DEF allVars, sessionVars, matchVars, PairInv, Up, MapsFilled,
     QueuedOnline, PairKnown, Online
<1>3. QED
  BY <1>1, <1>2 DEF PairInv

\* As long as nobody has hung up, the match thread finds the connection and the
\* UserInfo of both users it has taken, whoever logs in how often and on which
\* connection, and whatever strangers ask for in whose name.
THEOREM PairIsFound == GameSpec => []PairIsOnline
<1>1. TypeInv /\ PairInv => PairIsOnline
  BY DEF PairInv, Up, PairKnown, PairIsOnline
<1>2. QED
  BY <1>1, TypeInit, TypeStep, PairInit, PairStep, PTL DEF GameSpec

-----------------------------------------------------------------------------
(* Points.  The database and the UserInfo objects are changed one after    *)
(* the other, by the loop of whoever wins, while other loops do the same.  *)

\* Every account logs in once, an unlocked search finds what is there, and no
\* account can lose more points than it has or win more than the unsigned number
\* holds.
Countable ==
    /\ Logins = "once" /\ RaceMay = {}
    /\ \A u \in User : /\ LosePoints * MaxWins <= InitPoints[u]
                       /\ InitPoints[u] + WinPoints * MaxWins < PointWidth

\* Somebody has logged in as u.
Known(u) == \E o \in Obj : heap[o].user = u
Names(u) == u # NoUser => Known(u)

\* A request for a match may name anybody: nobody has found the user as yet.
Unfound(l) == hnd[l].pc \in {"begin", "pool"} /\ hnd[l].obj = NoObj

\* But for that, handlers, pool, match thread and rooms name only users that
\* have logged in.
NamesKnown ==
    /\ \A c \in Conn : Names(connUser[c])
    /\ \A l \in Loop : (Unfound(l) \/ Names(hnd[l].user)) /\ Names(hnd[l].other)
    /\ \A t \in Tier : \A i \in 1..Len(pool[t]) : Known(pool[t][i])
    /\ Names(mt.u1) /\ Names(mt.u2)
    /\ \A r \in 1..Len(rooms) : \A p \in Players(r) : Known(p)

\* Nobody has played before its login: the row is what the account began with.
LoginsFresh ==
    /\ \A l \in Loop : io[l].pc \in {"query", "add"} =>
          ~Known(io[l].user) /\ row[l] = InitPoints[io[l].user]
    /\ \A u \in User : Known(u) \/ db[u] = InitPoints[u]

\* The loops that enter a win, by how far they have come.
Enters == {"dbWin", "dbLose", "win", "lose"}
Entering(pcs) == {l \in Loop : hnd[l].pc \in pcs}
ToDb == Cardinality(Entering({"dbWin", "dbLose"}))
ToWin == Cardinality(Entering({"dbWin", "dbLose", "win"}))
ToLose == Cardinality(Entering(Enters))
WonInDb(u) == {l \in Entering({"dbLose", "win"}) : hnd[l].user = u}
LostInDb(u) == {l \in Entering({"win", "lose"}) : hnd[l].other = u}
InMemory(u) == info[userObj[u]].points

\* Who is online has in memory what the database has, but for what the loops
\* that enter a win have written only there.
Balanced(u) ==
    "fail" \notin DbMay =>
        db[u] + LosePoints * Cardinality(LostInDb(u))
            = InMemory(u) + WinPoints * Cardinality(WonInDb(u))

\* Nobody falls below 0 or reaches PointWidth, as every loss and win to come is
\* covered.
Covered ==
    /\ ToDb <= ToWin /\ ToWin <= ToLose /\ ToLose <= wins
    /\ \A u \in User : db[u] >= InitPoints[u] - LosePoints * (wins - ToDb)
    /\ \A u \in User : Online(u) =>
          /\ InMemory(u) >= InitPoints[u] - LosePoints * (wins - ToLose)
          /\ InMemory(u) <= InitPoints[u] + WinPoints * (wins - ToWin)

PointsSound ==
    /\ IsFiniteSet(Entering(Enters))
    /\ \A u \in User : Online(u) => Balanced(u)
    /\ Covered

PointsInv == ExclusiveInv /\ NamesKnown /\ LoginsFresh /\ PointsSound


LEMMA PointsInit ==
    ASSUME Countable, GameInit
    PROVE  PointsInv
<1>a. /\ SessionsInit /\ RoomsInit /\ MatchInit
      /\ db = InitPoints /\ row = [l \in Loop |-> 0] /\ wins = 0
  BY DEF GameInit, Init
<1>b. /\ \A l \in Loop : /\ hnd[l].pc = "none" /\ hnd[l].user = NoUser
                         /\ hnd[l].other = NoUser /\ io[l].pc = "idle"
      /\ \A c \in Conn : connUser[c] = NoUser
      /\ \A u \in User : userConn[u] = NoConn
      /\ \A t \in Tier : Len(pool[t]) = 0
      /\ mt.u1 = NoUser /\ mt.u2 = NoUser /\ Len(rooms) = 0
  BY <1>a DEF SessionsInit, RoomsInit, MatchInit, NoHandler, MatcherStart, Idle
<1>1. NamesKnown
  BY <1>b DEF NamesKnown, Names
<1>2. LoginsFresh
  BY <1>a, <1>b DEF LoginsFresh
<1>3. \A pcs \in SUBSET Enters : Entering(pcs) = {}
  BY <1>b DEF Entering, Enters
<1>4. IsFiniteSet(Entering(Enters)) /\ ToDb = 0 /\ ToWin = 0 /\ ToLose = 0
  <2>1. /\ Entering({"dbWin", "dbLose"}) = {}
        /\ Entering({"dbWin", "dbLose", "win"}) = {} /\ Entering(Enters) = {}
    BY <1>3 DEF Enters
  <2>2. QED
    BY <2>1, FS_EmptySet, Zenon DEF ToDb, ToWin, ToLose
<1>5. \A u \in User : ~Online(u)
  BY <1>b DEF Online
<1>6. \A u \in User : db[u] \in Nat /\ db[u] >= InitPoints[u] - LosePoints * (wins - 0)
  BY <1>a, InitPointsAssumption, GameAssumption DEF Countable, LosePoints
<1>7. PointsSound
  BY <1>a, <1>4, <1>5, <1>6 DEF PointsSound, Covered
<1>8. ExclusiveInv
  BY <1>a, ExclusiveInit
<1>9. QED
  BY <1>1, <1>2, <1>7, <1>8 DEF PointsInv

-----------------------------------------------------------------------------
(* Who is named has logged in.                                             *)

LEMMA KnownStays ==
    ASSUME TypeInv, GameNext
    PROVE  /\ \A u : Known(u) => Known(u)'
           /\ \A u : Names(u) => (u # NoUser => Known(u)')
<1>1. \A o \in Obj : o \in Obj' /\ heap'[o] = heap[o]
  BY HeapGrows
<1>2. \A u : Known(u) => Known(u)'
  BY <1>1 DEF Known
<1>3. QED
  BY <1>2 DEF Names

\* Who is online has logged in, and so has the owner of a connection.
LEMMA OnlineKnown ==
    ASSUME TypeInv, NEW u \in User, Online(u)
    PROVE  Known(u) /\ userObj[u] \in Obj /\ heap[userObj[u]].user = u
<1>1. /\ userObj[u] # NoObj /\ userObj[u] <= Len(heap)
      /\ heap[userObj[u]] = [user |-> u, conn |-> userConn[u]]
  BY Ground DEF OnlineTogether, Online
<1>2. userObj[u] \in Obj
  BY <1>1, Ground DEF Obj, NoObj
<1>3. QED
  BY <1>1, <1>2 DEF Known

LEMMA ClientUserKnown ==
    ASSUME TypeInv, NEW c \in Conn, Owned(c)
    PROVE  Known(ClientUser(c))
<1> DEFINE own == {o \in 1..Len(heap) : heap[o].conn = c}
           latest == CHOOSE o \in own : \A p \in own : p <= o
<1>1. own # {} /\ own \in SUBSET (1..Len(heap)) /\ Len(heap) \in Nat
  BY Ground DEF Owned, Obj
<1>2. \E o \in own : \A p \in own : p <= o
  BY <1>1, Greatest
<1>3. latest \in own
  BY <1>2
<1>4. ClientUser(c) = heap[latest].user
  BY DEF ClientUser
<1>5. QED
  BY <1>3, <1>4 DEF Known, Obj

LEMMA ConnNamesStep ==
    ASSUME TypeInv, PointsInv, GameNext, NEW c \in Conn
    PROVE  Names(connUser[c])'
<1>1. Names(connUser[c])
  BY DEF PointsInv, NamesKnown
<1>2. CASE connUser'[c] = connUser[c] \/ connUser'[c] = NoUser
  BY <1>1, <1>2, KnownStays DEF Names
<1>3. ASSUME NEW l \in Loop, SessionOnly(l)
      PROVE  connUser'[c] = connUser[c] \/ connUser'[c] = NoUser
  <2>1. connUser \in [Conn -> User \cup {NoUser}]
    BY Ground DEF SessionsTypeOK
  <2>2. QED
    BY <1>3, <2>1 DEF SessionOnly, LoginRefused, LockForAdd, CloseLookup,
       LockForRemove, removeOnlineUser, EraseEntries
<1>4. ASSUME NEW l \in Loop, GameLoginAdd(l), connUser'[c] # connUser[c]
      PROVE  Names(connUser[c])'
  <2>1. /\ connUser' = [connUser EXCEPT ![io[l].conn] = io[l].user]
        /\ heap' = Append(heap, [user |-> io[l].user, conn |-> io[l].conn])
    BY <1>4 DEF GameLoginAdd, LoginAdd, addOnlineUser, InsertEntries
  <2>2. connUser'[c] = io[l].user
    <3>1. connUser \in [Conn -> User \cup {NoUser}]
      BY Ground DEF SessionsTypeOK
    <3>2. QED
      BY <1>4, <2>1, <3>1
  <2>3. \E o \in 1..Len(heap') : heap'[o].user = io[l].user
    <3>1. heap \in Seq([user : User, conn : Conn]) /\ Len(heap) \in Nat
      BY Ground DEF SessionsTypeOK
    <3>2. Len(heap) + 1 \in 1..Len(heap')
          /\ heap'[Len(heap) + 1] = [user |-> io[l].user, conn |-> io[l].conn]
      BY <2>1, <3>1
    <3>3. QED
      BY <3>2
  <2>4. QED
    BY <2>2, <2>3 DEF Names, Known, Obj
<1>5. QED
  BY <1>2, <1>3, <1>4, WhoWrites

LEMMA HandlerNamesStep ==
    ASSUME TypeInv, PointsInv, GameNext, NEW k \in Loop
    PROVE  (Unfound(k) \/ Names(hnd[k].user))' /\ Names(hnd[k].other)'
<1>a. /\ Unfound(k) \/ Names(hnd[k].user)
      /\ Names(hnd[k].other)
      /\ \A u : Known(u) => Known(u)'
  BY KnownStays DEF PointsInv, NamesKnown
<1>b. hnd \in [Loop -> HandlerState]
  BY DEF TypeInv, HandlerTypes
\* The users of a handler stay, or it names one who has logged in.
<1>1. ASSUME \/ hnd'[k] = hnd[k]
             \/ Unfound(k)'
             \/ hnd'[k].user = NoUser \/ Known(hnd'[k].user)
             \/ hnd'[k].user = hnd[k].user /\ ~Unfound(k),
             hnd'[k].other = hnd[k].other \/ hnd'[k].other = NoUser
                \/ Known(hnd'[k].other)
      PROVE  (Unfound(k) \/ Names(hnd[k].user))' /\ Names(hnd[k].other)'
  <2>1. PICK u : u = hnd'[k].user
    OBVIOUS
  <2>2. PICK v : v = hnd'[k].other
    OBVIOUS
  <2>3. hnd'[k] = hnd[k] => (Unfound(k)' <=> Unfound(k))
    BY DEF Unfound
  <2>4. (Unfound(k)' \/ u = NoUser \/ Known(u)) /\ (v = NoUser \/ Known(v))
    BY <1>a, <1>1, <2>1, <2>2, <2>3 DEF Names
  <2>5. (Unfound(k)' \/ u = NoUser \/ Known(u)') /\ (v = NoUser \/ Known(v)')
    BY <1>a, <2>4
  <2>6. QED
    BY <2>1, <2>2, <2>5 DEF Names, Known
<1>2. ASSUME NEW l \in Loop,
             \/ addUser(l) \/ removeFromPool(l) \/ MatchAck(l)
             \/ FindPeer(l) \/ onChat(l) \/ handChess(l) \/ TellMove(l)
             \/ DbWin(l) \/ DbLose(l) \/ winGame(l) \/ loseGame(l)
             \/ TellWinner(l) \/ TellLoser(l) \/ ExitRoom(l) \/ ExitDone(l)
      PROVE  /\ \/ hnd'[k] = hnd[k]
                \/ hnd'[k].user = NoUser
                \/ hnd'[k].user = hnd[k].user /\ ~Unfound(k)
             /\ hnd'[k].other = hnd[k].other \/ hnd'[k].other = NoUser
  <2>1. CASE \/ Return(l)
             \/ ~Unfound(l) /\ \E pc : Goto(l, pc)
    BY <2>1, <1>b DEF Return, Goto, NoHandler, HandlerState
  <2>2. CASE FindPeer(l)
    <3>1. ~Unfound(l)
      BY <2>2 DEF FindPeer, At, Unfound
    <3>2. QED
      BY <2>2, <3>1, <1>b DEF FindPeer, HandlerState
  <2>3. CASE addUser(l) \/ removeFromPool(l)
    <3>1. ~Unfound(l) /\ \E ok : Unlock(l, ok)
      BY <2>3 DEF addUser, removeFromPool, Unfound
    <3>2. QED
      BY <3>1, <1>b DEF Unlock, HandlerState
  <2>4. CASE onChat(l) \/ TellMove(l) \/ TellLoser(l) \/ ExitDone(l)
    BY <2>4, <2>1 DEF onChat, TellMove, TellLoser, ExitDone
  <2>5. CASE handChess(l) \/ TellWinner(l) \/ ExitRoom(l)
    BY <2>5, <2>1 DEF handChess, TellWinner, ExitRoom, At, Unfound
  <2>6. CASE DbWin(l) \/ DbLose(l) \/ winGame(l) \/ loseGame(l)
    BY <2>6, <2>1 DEF DbWin, DbLose, DbUpdate, winGame, loseGame, Score, At,
       Unfound
  <2>7. CASE MatchAck(l)
    BY <2>7, <2>1 DEF MatchAck, Return
  <2>8. QED
    BY <1>2, <2>2, <2>3, <2>4, <2>5, <2>6, <2>7
\* The pool looks the user up.
<1>2a. ASSUME NEW l \in Loop, LockPool(l)
       PROVE  /\ hnd'[k] = hnd[k] \/ Unfound(k)' \/ Known(hnd'[k].user)
              /\ hnd'[k].other = hnd[k].other
  <2>1. /\ hnd[l].user \in User
        /\ hnd' = [hnd EXCEPT ![l].pc = "pool", ![l].obj = userObj[hnd[l].user]]
    BY <1>2a DEF LockPool, getUserByUserId, TypeInv, HandlerTypes
  <2>2. CASE k # l
    BY <2>1, <2>2, <1>b
  <2>3. CASE k = l
    <3>1. /\ hnd'[k].pc = "pool" /\ hnd'[k].obj = userObj[hnd[l].user]
          /\ hnd'[k].user = hnd[l].user /\ hnd'[k].other = hnd[k].other
      BY <2>1, <2>3, <1>b DEF HandlerState
    <3>2. userObj[hnd[l].user] = NoObj \/ Online(hnd[l].user)
      BY <2>1, Ground DEF OnlineTogether
    <3>3. userObj[hnd[l].user] = NoObj \/ Known(hnd[l].user)
      BY <2>1, <3>2, OnlineKnown
    <3>4. QED
      BY <3>1, <3>3 DEF Unfound
  <2>4. QED
    BY <2>2, <2>3
<1>3. ASSUME NEW l \in Loop, FindSender(l)
      PROVE  /\ hnd'[k] = hnd[k] \/ hnd'[k].user = NoUser
                \/ Known(hnd'[k].user)
             /\ hnd'[k].other = hnd[k].other
  <2>1. hnd' = [hnd EXCEPT ![l].pc = "sender", ![l].user = connUser[hnd[l].conn]]
        /\ hnd[l].pc # "none"
    BY <1>3 DEF FindSender, At, getUserIdByConn
  <2>2. hnd[l].conn \in Conn
    BY <2>1 DEF TypeInv, HandlerTypes
  <2>3. Names(connUser[hnd[l].conn])
    BY <2>2 DEF PointsInv, NamesKnown
  <2>4. /\ hnd'[k] = hnd[k] \/ hnd'[k].user = connUser[hnd[l].conn]
        /\ hnd'[k].other = hnd[k].other
    BY <2>1, <1>b DEF HandlerState
  <2>5. QED
    BY <2>3, <2>4 DEF Names
<1>4. ASSUME NEW l \in Loop, FindOther(l)
      PROVE  /\ hnd'[k].other = hnd[k].other \/ hnd'[k].other = NoUser
                \/ Known(hnd'[k].other)
             /\ \/ hnd'[k] = hnd[k]
                \/ hnd'[k].user = hnd[k].user /\ ~Unfound(k)
  <2> DEFINE x == getUserIdFromOtherId(hnd[l].user)
  <2>1. hnd' = [hnd EXCEPT ![l].pc = "other", ![l].other = x]
    BY <1>4 DEF FindOther
  <2>2. x = NoUser \/ Known(x)
    <3>1. hnd[l].user \in User \cup {NoUser}
      BY <1>b DEF HandlerState
    <3>2. roomOf \in [User -> 0..Len(rooms)] /\ Len(rooms) \in Nat
      BY Ground DEF TypeInv, RoomsTypeOK
    <3>3. \A r \in 1..Len(rooms) : \A p \in Players(r) : Known(p)
      BY DEF PointsInv, NamesKnown
    <3>4. \A u \in User : roomOf[u] # NoRoom =>
             /\ roomOf[u] \in 1..Len(rooms)
             /\ getOtherId(roomOf[u], u) \in Players(roomOf[u])
      BY <3>2 DEF NoRoom, getOtherId, Players
    <3>5. QED
      BY <3>1, <3>3, <3>4 DEF getUserIdFromOtherId
  <2> HIDE DEF x
  <2>3. /\ hnd'[k].other \in {hnd[k].other, x}
        /\ \/ hnd'[k] = hnd[k]
           \/ k = l /\ hnd'[k].user = hnd[k].user
    BY <2>1, <1>b DEF HandlerState
  <2>3a. ~Unfound(l)
    BY <1>4 DEF FindOther, At, Unfound
  <2>4. QED
    BY <2>2, <2>3, <2>3a
<1>5. ASSUME NEW c \in Conn, NEW r \in Request, Begin(c, r)
      PROVE  /\ hnd'[k] = hnd[k] \/ Known(hnd'[k].user)
             /\ hnd'[k].other = hnd[k].other \/ hnd'[k].other = NoUser
  <2> DEFINE u == ClientUser(c)
  <2>1. /\ hnd' = [hnd EXCEPT ![LoopOf[c]] =
                      [NoHandler EXCEPT !.pc = "begin", !.req = r, !.conn = c,
                                        !.user = u]]
        /\ inbox[c] = r
    BY <1>5 DEF Begin, Handle
  <2>2. Owned(c)
    BY <2>1, <1>5 DEF TypeInv, ClientTypes, Request
  <2>3. Known(u)
    BY <2>2, ClientUserKnown
  <2> HIDE DEF u
  <2>4. \/ hnd'[k] = hnd[k]
        \/ hnd'[k] = [NoHandler EXCEPT !.pc = "begin", !.req = r, !.conn = c, !.user = u]
    BY <2>1, <1>b
  <2>5. QED
    BY <2>3, <2>4 DEF NoHandler
<1>5a. ASSUME NEW c \in Conn, NEW r \in Request, NEW u \in User,
              ForeignRequest(c, r, u)
       PROVE  /\ hnd'[k] = hnd[k] \/ Unfound(k)'
              /\ hnd'[k].other = hnd[k].other \/ hnd'[k].other = NoUser
  <2>1. \/ hnd'[k] = hnd[k]
        \/ hnd'[k] = [NoHandler EXCEPT !.pc = "begin", !.req = r, !.conn = c, !.user = u]
    BY <1>5a, <1>b DEF ForeignRequest, Handle
  <2>2. QED
    BY <2>1 DEF NoHandler, Unfound
<1>6. CASE UNCHANGED hnd
  BY <1>1, <1>6
<1>7. QED
  BY <1>1, <1>2, <1>2a, <1>3, <1>4, <1>5, <1>5a, <1>6, WhoWrites

LEMMA PoolNamesStep ==
    ASSUME TypeInv, PointsInv, GameNext, NEW t \in Tier
    PROVE  (\A i \in 1..Len(pool[t]) : Known(pool[t][i]))'
<1>a. /\ \A s \in Tier : \A i \in 1..Len(pool[s]) : Known(pool[s][i])
      /\ \A u : Known(u) => Known(u)'
  BY KnownStays DEF PointsInv, NamesKnown
<1>1. ASSUME NEW l \in Loop, addUser(l) PROVE Known(hnd[l].user)
  <2>1. hnd[l].user \in User /\ hnd[l].user # NoUser
    BY <1>1, ThreadsAssumption DEF addUser, TypeInv, HandlerTypes
  <2>2. ~Unfound(l)
    BY <1>1 DEF addUser, Unfound
  <2>3. QED
    BY <2>1, <2>2 DEF PointsInv, NamesKnown, Names
<1>2. ASSUME NEW i \in 1..Len(pool'[t]) PROVE Known(pool[t][i])'
  <2>1. PICK u : u = pool'[t][i]
    OBVIOUS
  <2>2. \/ \E j \in 1..Len(pool[t]) : u = pool[t][j]
        \/ \E l \in Loop : addUser(l) /\ u = hnd[l].user
    BY <1>2, <2>1, PoolSources
  <2>3. Known(u)
    BY <1>a, <1>1, <2>2
  <2>4. Known(u)'
    BY <1>a, <2>3
  <2>5. QED
    BY <2>1, <2>4 DEF Known
<1>3. QED
  BY <1>2

LEMMA MatcherNamesStep ==
    ASSUME TypeInv, PointsInv, GameNext
    PROVE  Names(mt.u1)' /\ Names(mt.u2)'
<1>a. /\ Names(mt.u1) /\ Names(mt.u2)
      /\ \A u : Known(u) => Known(u)'
  BY KnownStays DEF PointsInv, NamesKnown
<1>b. mt \in MatcherState
  BY DEF TypeInv, MatcherTypes
<1>1. ASSUME mt'.u1 = mt.u1 \/ mt'.u1 = NoUser \/ Known(mt'.u1),
             mt'.u2 = mt.u2 \/ mt'.u2 = NoUser \/ Known(mt'.u2)
      PROVE  Names(mt.u1)' /\ Names(mt.u2)'
  <2>1. PICK u : u = mt'.u1
    OBVIOUS
  <2>2. PICK v : v = mt'.u2
    OBVIOUS
  <2>3. (u = NoUser \/ Known(u)) /\ (v = NoUser \/ Known(v))
    BY <1>a, <1>1, <2>1, <2>2 DEF Names
  <2>4. (u = NoUser \/ Known(u)') /\ (v = NoUser \/ Known(v)')
    BY <1>a, <2>3
  <2>5. QED
    BY <2>1, <2>2, <2>4 DEF Names, Known
<1>2. ASSUME \/ MatcherDecide \/ MatcherTell \/ MatcherCreateRoom
             \/ MatcherSetGaming \/ \E l \in Loop : addUser(l)
      PROVE  mt'.u1 = mt.u1 /\ mt'.u2 = mt.u2
  BY <1>2, <1>b DEF MatcherDecide, MatcherTell, MatcherCreateRoom,
     MatcherSetGaming, addUser, notify_one, MatcherState
<1>3. ASSUME MatcherTest
      PROVE  mt'.u1 = NoUser /\ mt'.u2 = NoUser
  BY <1>3 DEF MatcherTest, MatcherStart
<1>4. ASSUME MatcherPush
      PROVE  /\ mt'.u1 = mt.u1 \/ mt'.u1 = NoUser
             /\ mt'.u2 = mt.u2 \/ mt'.u2 = NoUser
  BY <1>4, <1>b DEF MatcherPush, MatcherStart, MatcherState
<1>5. ASSUME MatcherLookup
      PROVE  mt'.u1 = mt.u1 /\ mt'.u2 = mt.u2
  BY <1>5, <1>b DEF MatcherLookup, Lookup, MatcherState
<1>6. ASSUME MatcherTake
      PROVE  Known(mt'.u1) /\ Known(mt'.u2)
  <2>1. PICK t \in Tier : /\ Full(t)
                          /\ mt' = [mt EXCEPT !.pc = "conn1", !.tier = t,
                                       !.u1 = pool[t][1], !.u2 = pool[t][2]]
    BY <1>6 DEF MatcherTake
  <2>2. pool[t] \in Seq(User) /\ Len(pool[t]) \in Nat
    BY <2>1 DEF TypeInv, OtherTypes
  <2>3. 1 \in 1..Len(pool[t]) /\ 2 \in 1..Len(pool[t])
    BY <2>1, <2>2 DEF Full
  <2>4. Known(pool[t][1]) /\ Known(pool[t][2])
    BY <2>1, <2>3 DEF PointsInv, NamesKnown
  <2>5. mt'.u1 = pool[t][1] /\ mt'.u2 = pool[t][2]
    BY <2>1, <1>b DEF MatcherState
  <2>6. QED
    BY <2>4, <2>5
<1>7. CASE UNCHANGED mt
  BY <1>1, <1>7
<1>8. QED
  BY <1>1, <1>2, <1>3, <1>4, <1>5, <1>6, <1>7, WhoWrites

LEMMA RoomNamesStep ==
    ASSUME TypeInv, PointsInv, GameNext
    PROVE  \A r \in 1..Len(rooms') : \A p \in Players(r)' : Known(p)'
<1>a. /\ \A r \in 1..Len(rooms) : \A p \in Players(r) : Known(p)
      /\ \A u : Known(u) => Known(u)'
      /\ rooms \in Seq(RoomEntry) /\ Len(rooms) \in Nat
  BY KnownStays, Ground DEF PointsInv, NamesKnown, TypeInv, RoomsTypeOK, RoomEntry
<1>1. CASE UNCHANGED rooms
  BY <1>1, <1>a DEF Players
<1>2. CASE MatcherCreateRoom
  <2>1. PICK n \in InitialCounts :
           rooms' = Append(rooms, [white |-> mt.u1, black |-> mt.u2, count |-> n])
    BY <1>2 DEF MatcherCreateRoom, createRoom
  <2>2. Known(mt.u1) /\ Known(mt.u2)
    <3>1. mt.u1 \in User /\ mt.u2 \in User
      BY <1>2 DEF MatcherCreateRoom, TypeInv, MatcherTypes
    <3>2. QED
      BY <3>1, Ground DEF PointsInv, NamesKnown, Names
  <2>3. /\ Len(rooms') = Len(rooms) + 1
        /\ \A r \in 1..Len(rooms) : rooms'[r] = rooms[r]
        /\ rooms'[Len(rooms) + 1] = [white |-> mt.u1, black |-> mt.u2, count |-> n]
    BY <2>1, <1>a
  <2>4. \A r \in 1..Len(rooms) : Players(r)' = Players(r)
    BY <2>3 DEF Players
  <2>5. \A r : r = Len(rooms) + 1 => Players(r)' = {mt.u1, mt.u2}
    BY <2>3 DEF Players
  <2>6. \A r \in 1..Len(rooms') : r \in 1..Len(rooms) \/ r = Len(rooms) + 1
    BY <2>3, <1>a
  <2>7. \A r \in 1..Len(rooms) : \A p \in Players(r)' : Known(p)'
    BY <2>4, <1>a
  <2>8. \A r : r = Len(rooms) + 1 => \A p \in Players(r)' : Known(p)'
    BY <2>2, <2>5, <1>a
  <2>9. QED
    BY <2>6, <2>7, <2>8
<1>3. ASSUME NEW l \in Loop, ExitRoom(l), rooms' # rooms
      PROVE  \A r \in 1..Len(rooms') : \A p \in Players(r)' : Known(p)'
  <2> DEFINE q == roomOf[hnd[l].user]
             n == subCount(rooms[q].count)
  <2>1. /\ hnd[l].user # NoUser /\ q # NoRoom
        /\ rooms' = [rooms EXCEPT ![q].count = n]
    BY <1>3 DEF ExitRoom, removeUserAbsent, removeUser, roomVars
  <2>2. q \in 1..Len(rooms)
    <3>1. hnd[l].user \in User
      BY <2>1 DEF TypeInv, HandlerTypes, HandlerState
    <3>2. QED
      BY <2>1, <3>1, <1>a DEF TypeInv, RoomsTypeOK, NoRoom
  <2>3. n \in 0..(CountWidth - 1)
    <3>1. rooms[q] \in RoomEntry
      BY <2>2, <1>a, ElementOfSeq
    <3>2. rooms[q].count \in 0..(CountWidth - 1) /\ CountWidth \in Nat \ {0}
      BY <3>1, RoomsAssumption DEF RoomEntry
    <3> DEFINE k == rooms[q].count
    <3>3. k \in Nat /\ k + CountWidth - 1 \in Nat
      BY <3>2
    <3> HIDE DEF k
    <3>4. (k + CountWidth - 1) % CountWidth \in 0..(CountWidth - 1)
      BY <3>2, <3>3
    <3>5. QED
      BY <3>4 DEF subCount, k
  <2> HIDE DEF q, n
  <2>4. Len(rooms') = Len(rooms) /\ \A r \in 1..Len(rooms) : Players(r)' = Players(r)
    BY <2>1, <2>2, <2>3, <1>a, SetCount
  <2>5. QED
    BY <2>4, <1>a
<1>4. QED
  BY <1>1, <1>2, <1>3, WhoWrites

LEMMA NamesStep ==
    ASSUME TypeInv, PointsInv, GameNext
    PROVE  NamesKnown'
<1>1. \A c \in Conn : Names(connUser[c])'
  BY ConnNamesStep
<1>2. \A l \in Loop : (Unfound(l) \/ Names(hnd[l].user))' /\ Names(hnd[l].other)'
  BY HandlerNamesStep
<1>3. (\A t \in Tier : \A i \in 1..Len(pool[t]) : Known(pool[t][i]))'
  <2>1. \A t \in Tier : (\A i \in 1..Len(pool[t]) : Known(pool[t][i]))'
    BY PoolNamesStep
  <2>2. QED
    BY <2>1
<1>4. Names(mt.u1)' /\ Names(mt.u2)'
  BY MatcherNamesStep
<1>5. \A r \in 1..Len(rooms') : \A p \in Players(r)' : Known(p)'
  BY RoomNamesStep
<1>6. (\A r \in 1..Len(rooms) : \A p \in Players(r) : Known(p))'
  BY <1>5
<1>7. QED
  BY <1>1, <1>2, <1>3, <1>4, <1>6, Zenon DEF NamesKnown

-----------------------------------------------------------------------------
(* A login finds the account as it began.                                  *)

LEMMA LoginsFreshStep ==
    ASSUME Countable, TypeInv, PointsInv, GameNext
    PROVE  LoginsFresh'
<1>a. /\ \A l \in Loop : io[l].pc \in {"query", "add"} =>
            ~Known(io[l].user) /\ row[l] = InitPoints[io[l].user]
      /\ \A u \in User : Known(u) \/ db[u] = InitPoints[u]
      /\ \A u : Known(u) => Known(u)'
      /\ \A l \in Loop : CallbackKnows(l) /\ ExclusiveCallback(l)
  BY KnownStays, Ground DEF PointsInv, LoginsFresh, ExclusiveInv
<1>b. /\ row \in [Loop -> Nat] /\ db \in [User -> Nat]
      /\ io \in [Loop -> [pc : {"idle", "query", "add", "reply", "lookup",
                                "remove", "erase"},
                          conn : Conn \cup {NoConn}, user : User \cup {NoUser}]]
      /\ LoopOf \in [Conn -> Loop]
  BY Ground DEF TypeInv, OtherTypes, SessionsTypeOK
\* The users that have logged in change by the end of a login only.
<1>1. CASE UNCHANGED heap
  <2>1. \A u : Known(u)' <=> Known(u)
    BY <1>1 DEF Known, Obj
  <2>2. ASSUME NEW u \in User PROVE Known(u) \/ db'[u] = InitPoints[u]
    <3>1. CASE db' = db
      BY <1>a, <3>1
    <3>2. ASSUME NEW l \in Loop, DbWin(l), ~Known(u)
          PROVE  db'[u] = db[u]
      <4>1. hnd[l].user # u
        BY <3>2, Ground DEF PointsInv, NamesKnown, Names, Unfound, DbWin,
           DbUpdate, At
      <4>2. QED
        BY <3>2, <4>1, <1>b DEF DbWin, DbUpdate
    <3>3. ASSUME NEW l \in Loop, DbLose(l), ~Known(u)
          PROVE  db'[u] = db[u]
      <4>1. hnd[l].other # u
        BY <3>3, Ground DEF PointsInv, NamesKnown, Names
      <4>2. QED
        BY <3>3, <4>1, <1>b DEF DbLose, DbUpdate
    <3>4. QED
      BY <3>1, <3>2, <3>3, <1>a, WhoWrites
  <2>3. ASSUME NEW l \in Loop, io'[l].pc \in {"query", "add"}
        PROVE  ~Known(io'[l].user) /\ row'[l] = InitPoints[io'[l].user]
    <3>1. CASE io'[l].pc = io[l].pc /\ io'[l].user = io[l].user /\ row'[l] = row[l]
      BY <3>1, <2>3, <1>a
    <3>2. ASSUME NEW c \in Conn, NEW u \in User, GameLogin(c, u)
          PROVE  ~Known(io'[l].user) /\ row'[l] = InitPoints[io'[l].user]
      <4>1. /\ io' = [io EXCEPT ![LoopOf[c]] =
                        [pc |-> "query", conn |-> c, user |-> u]]
            /\ row' = [row EXCEPT ![LoopOf[c]] = db[u]]
            /\ MayLogin(c, u)
        BY <3>2 DEF GameLogin, Login, onLogin, Callback
      <4>2. ~Known(u)
        BY <4>1 DEF MayLogin, Countable, Known, Obj
      <4>3. db[u] = InitPoints[u]
        BY <4>2, <1>a
      <4>4. CASE l = LoopOf[c]
        BY <4>1, <4>2, <4>3, <4>4, <1>b
      <4>5. CASE l # LoopOf[c]
        BY <4>1, <4>5, <3>1
      <4>6. QED
        BY <4>4, <4>5
    <3>3. ASSUME NEW k \in Loop, LockForAdd(k)
          PROVE  io'[l].user = io[l].user /\ io[l].pc \in {"query", "add"}
      BY <3>3, <2>3, <1>b DEF LockForAdd, Callback
    <3>4. ASSUME NEW k \in Loop,
                 \/ LoginRefused(k) \/ CloseLookup(k) \/ LockForRemove(k)
                 \/ removeOnlineUser(k) \/ LoginAck(k)
          PROVE  io'[l].user = io[l].user /\ io[l].pc = io'[l].pc
      <4>1. CASE LoginRefused(k)
        BY <4>1, <2>3, <1>b DEF LoginRefused, Callback
      <4>2. CASE CloseLookup(k)
        BY <4>2, <2>3, <1>b DEF CloseLookup, Callback, Idle
      <4>3. CASE LockForRemove(k)
        BY <4>3, <2>3, <1>b DEF LockForRemove, Callback
      <4>4. CASE removeOnlineUser(k)
        <5>1. io' = [io EXCEPT ![k] = Idle]
          BY <4>4 DEF removeOnlineUser
        <5>2. QED
          BY <5>1, <2>3, <1>b DEF Idle
      <4>5. CASE LoginAck(k)
        BY <4>5, <2>3, <1>b DEF LoginAck, LoginReply, Idle
      <4>6. QED
        BY <3>4, <4>1, <4>2, <4>3, <4>4, <4>5
    <3>5. ASSUME NEW c \in Conn, Accept(c) \/ Disconnect(c)
          PROVE  io'[l].user = io[l].user /\ io[l].pc = io'[l].pc
      BY <3>5, <2>3, <1>b DEF Accept, addConn, Disconnect, removeConn, Callback, Idle
    <3>6. CASE row' = row /\ io[l].pc \in {"query", "add"} /\ io'[l].user = io[l].user
      BY <3>6, <1>a
    <3>7. ASSUME NEW k \in Loop, GameLoginAdd(k) PROVE FALSE
      <4>1. heap' = Append(heap, [user |-> io[k].user, conn |-> io[k].conn])
        BY <3>7 DEF GameLoginAdd, LoginAdd, addOnlineUser, InsertEntries
      <4>2. QED
        BY <4>1, <1>1, Ground DEF SessionsTypeOK
    <3>8. row' = row \/ \E c \in Conn, u \in User : GameLogin(c, u)
      BY <3>7, WhoWrites
    <3>9. \/ io' = io
          \/ \E k \in Loop : SessionOnly(k) \/ LoginAck(k)
          \/ \E c \in Conn : Accept(c) \/ Disconnect(c)
          \/ \E c \in Conn, u \in User : GameLogin(c, u)
      BY <3>7, WhoWrites
    <3>10. CASE \E c \in Conn, u \in User : GameLogin(c, u)
      BY <3>2, <3>10
    <3>11. CASE row' = row
      <4>1. CASE io' = io
        BY <4>1, <3>11, <3>1
      <4>2. CASE \E k \in Loop : SessionOnly(k) \/ LoginAck(k)
        BY <4>2, <3>11, <2>3, <3>3, <3>4, <3>6 DEF SessionOnly
      <4>3. CASE \E c \in Conn : Accept(c) \/ Disconnect(c)
        BY <4>3, <3>11, <3>5, <3>1
      <4>4. QED
        BY <4>1, <4>2, <4>3, <3>9, <3>10
    <3>12. QED
      BY <3>8, <3>10, <3>11
  <2>4. QED
    BY <2>1, <2>2, <2>3 DEF LoginsFresh, Known
<1>2. ASSUME NEW k \in Loop, GameLoginAdd(k) PROVE LoginsFresh'
  <2>1. /\ heap' = Append(heap, [user |-> io[k].user, conn |-> io[k].conn])
        /\ io' = [io EXCEPT ![k] = [pc |-> "reply", conn |-> io[k].conn,
                                    user |-> io[k].user]]
        /\ row' = [row EXCEPT ![k] = 0] /\ db' = db
        /\ io[k].pc = "add"
    BY <1>2 DEF GameLoginAdd, LoginAdd, addOnlineUser, InsertEntries, Callback
  <2>2. \A u : Known(u)' <=> Known(u) \/ u = io[k].user
    <3>1. heap \in Seq([user : User, conn : Conn]) /\ Len(heap) \in Nat
      BY Ground DEF SessionsTypeOK
    <3>2. /\ Len(heap') = Len(heap) + 1
          /\ \A o \in 1..Len(heap) : heap'[o] = heap[o]
          /\ heap'[Len(heap) + 1].user = io[k].user
      BY <2>1, <3>1
    <3>3. \A o : o \in 1..Len(heap') <=> o \in 1..Len(heap) \/ o = Len(heap) + 1
      BY <3>1, <3>2
    <3>4. QED
      BY <3>2, <3>3 DEF Known, Obj
  <2>3. ASSUME NEW l \in Loop, io'[l].pc \in {"query", "add"}
        PROVE  /\ io'[l].user = io[l].user /\ io[l].pc \in {"query", "add"}
               /\ row'[l] = row[l] /\ io[l].user # io[k].user
    <3>1. l # k
      BY <2>1, <2>3, <1>b
    <3>2. io'[l] = io[l] /\ row'[l] = row[l]
      BY <2>1, <3>1, <1>b
    <3>3. io[k].user # io[l].user
      BY <2>1, <3>1, <3>2, <2>3, <1>a DEF ExclusiveCallback
    <3>4. QED
      BY <3>2, <3>3, <2>3
  <2>4. ASSUME NEW l \in Loop, io'[l].pc \in {"query", "add"}
        PROVE  ~(Known(io[l].user)') /\ row'[l] = InitPoints[io'[l].user]
    BY <2>2, <2>3, <2>4, <1>a
  <2>5. \A u \in User : Known(u)' \/ db'[u] = InitPoints[u]
    BY <2>1, <2>2, <1>a
  <2>6. ASSUME NEW l \in Loop, io'[l].pc \in {"query", "add"}
        PROVE  ~(\E o \in Obj' : heap'[o].user = io'[l].user)
               /\ row'[l] = InitPoints[io'[l].user]
    BY <2>3, <2>4, <2>6 DEF Known
  <2>7. QED
    BY <2>5, <2>6 DEF LoginsFresh, Known
<1>3. QED
  BY <1>1, <1>2, WhoWrites

-----------------------------------------------------------------------------
(* Counting the loops that enter a win.                                    *)

LEMMA Finite ==
    ASSUME PointsInv
    PROVE  /\ \A pcs \in SUBSET Enters : IsFiniteSet(Entering(pcs))
           /\ \A u : IsFiniteSet(WonInDb(u)) /\ IsFiniteSet(LostInDb(u))
           /\ \A pcs \in SUBSET Enters : Cardinality(Entering(pcs)) \in Nat
           /\ \A u : /\ Cardinality(WonInDb(u)) \in Nat
                     /\ Cardinality(LostInDb(u)) \in Nat
<1>1. IsFiniteSet(Entering(Enters))
  BY DEF PointsInv, PointsSound
<1>2. /\ \A pcs \in SUBSET Enters : Entering(pcs) \in SUBSET Entering(Enters)
      /\ \A u : /\ WonInDb(u) \in SUBSET Entering(Enters)
                /\ LostInDb(u) \in SUBSET Entering(Enters)
  BY DEF Entering, WonInDb, LostInDb, Enters
<1>3. \A S \in SUBSET Entering(Enters) : IsFiniteSet(S)
  BY <1>1, FS_Subset
<1>4. \A S : IsFiniteSet(S) => Cardinality(S) \in Nat
  BY FS_CardinalityType
<1>5. \A pcs \in SUBSET Enters : IsFiniteSet(Entering(pcs))
  BY <1>2, <1>3
<1>6. \A u : IsFiniteSet(WonInDb(u)) /\ IsFiniteSet(LostInDb(u))
  BY <1>2, <1>3
<1>7. QED
  BY <1>4, <1>5, <1>6

LEMMA Counted ==
    ASSUME NEW S, IsFiniteSet(S), NEW x
    PROVE  /\ IsFiniteSet(S \cup {x}) /\ IsFiniteSet(S \ {x})
           /\ x \in S => /\ Cardinality(S \cup {x}) = Cardinality(S)
                         /\ Cardinality(S \ {x}) = Cardinality(S) - 1
                         /\ Cardinality(S) >= 1
           /\ x \notin S => /\ Cardinality(S \cup {x}) = Cardinality(S) + 1
                            /\ Cardinality(S \ {x}) = Cardinality(S)
<1>1. IsFiniteSet(S \cup {x}) /\ Cardinality(S) \in Nat
  BY FS_AddElement, FS_CardinalityType
<1>2. IsFiniteSet(S \ {x})
  BY FS_RemoveElement
<1>3. CASE x \in S
  <2>1. S \cup {x} = S
    BY <1>3
  <2>2. Cardinality(S \ {x}) = Cardinality(S) - 1
    BY <1>3, FS_RemoveElement
  <2>3. Cardinality(S \ {x}) \in Nat
    BY <1>2, FS_CardinalityType
  <2>4. Cardinality(S) >= 1
    BY <1>1, <2>2, <2>3
  <2>5. Cardinality(S \cup {x}) = Cardinality(S)
    BY <2>1
  <2>6. QED
    BY <1>1, <1>2, <1>3, <2>2, <2>4, <2>5
<1>4. CASE x \notin S
  <2>1. S \ {x} = S
    BY <1>4
  <2>2. Cardinality(S \cup {x}) = Cardinality(S) + 1
    BY <1>4, FS_AddElement
  <2>3. QED
    BY <1>1, <1>2, <1>4, <2>1, <2>2
<1>5. QED
  BY <1>3, <1>4

\* A handler that goes on to pc, still about the same two users.
LEMMA GotoMoves ==
    ASSUME TypeInv, NEW l \in Loop, NEW pc, Goto(l, pc)
    PROVE  /\ \A pcs : Entering(pcs)' = IF pc \in pcs THEN Entering(pcs) \cup {l}
                                        ELSE Entering(pcs) \ {l}
           /\ \A u : WonInDb(u)' =
                 IF pc \in {"dbLose", "win"} /\ hnd[l].user = u
                 THEN WonInDb(u) \cup {l} ELSE WonInDb(u) \ {l}
           /\ \A u : LostInDb(u)' =
                 IF pc \in {"win", "lose"} /\ hnd[l].other = u
                 THEN LostInDb(u) \cup {l} ELSE LostInDb(u) \ {l}
<1>1. hnd \in [Loop -> HandlerState] /\ hnd' = [hnd EXCEPT ![l].pc = pc]
  BY DEF TypeInv, HandlerTypes, Goto
<1>2. \A k \in Loop : /\ hnd'[k].pc = IF k = l THEN pc ELSE hnd[k].pc
                      /\ hnd'[k].user = hnd[k].user
                      /\ hnd'[k].other = hnd[k].other
  BY <1>1 DEF HandlerState
<1>3. ASSUME NEW pcs
      PROVE  Entering(pcs)' = IF pc \in pcs THEN Entering(pcs) \cup {l}
                              ELSE Entering(pcs) \ {l}
  BY <1>2 DEF Entering
<1>4. ASSUME NEW u
      PROVE  WonInDb(u)' =
               IF pc \in {"dbLose", "win"} /\ hnd[l].user = u
               THEN WonInDb(u) \cup {l} ELSE WonInDb(u) \ {l}
  BY <1>2 DEF WonInDb, Entering
<1>5. ASSUME NEW u
      PROVE  LostInDb(u)' =
               IF pc \in {"win", "lose"} /\ hnd[l].other = u
               THEN LostInDb(u) \cup {l} ELSE LostInDb(u) \ {l}
  BY <1>2 DEF LostInDb, Entering
<1>6. QED
  BY <1>3, <1>4, <1>5

\* A step of a loop that enters a win changes the counts by that loop.
LEMMA MoveCounts ==
    ASSUME TypeInv, PointsInv, NEW l \in Loop, NEW pc, Goto(l, pc)
    PROVE  /\ IsFiniteSet(Entering(Enters)')
           /\ \A pcs \in SUBSET Enters :
                 Cardinality(Entering(pcs)') =
                    Cardinality(Entering(pcs)) + (IF pc \in pcs THEN 1 ELSE 0)
                       - (IF hnd[l].pc \in pcs THEN 1 ELSE 0)
           /\ \A u : Cardinality(WonInDb(u)') =
                    Cardinality(WonInDb(u))
                       + (IF pc \in {"dbLose", "win"} /\ hnd[l].user = u
                          THEN 1 ELSE 0)
                       - (IF hnd[l].pc \in {"dbLose", "win"} /\ hnd[l].user = u
                          THEN 1 ELSE 0)
           /\ \A u : Cardinality(LostInDb(u)') =
                    Cardinality(LostInDb(u))
                       + (IF pc \in {"win", "lose"} /\ hnd[l].other = u
                          THEN 1 ELSE 0)
                       - (IF hnd[l].pc \in {"win", "lose"} /\ hnd[l].other = u
                          THEN 1 ELSE 0)
<1>a. /\ \A pcs : l \in Entering(pcs) <=> hnd[l].pc \in pcs
      /\ \A u : l \in WonInDb(u) <=>
                   hnd[l].pc \in {"dbLose", "win"} /\ hnd[l].user = u
      /\ \A u : l \in LostInDb(u) <=>
                   hnd[l].pc \in {"win", "lose"} /\ hnd[l].other = u
  BY DEF Entering, WonInDb, LostInDb
\* Adding or taking out one loop, whether it was there or not.
<1>b. ASSUME NEW S, NEW T, IsFiniteSet(S), NEW in \in BOOLEAN,
             T = IF in THEN S \cup {l} ELSE S \ {l}
      PROVE  /\ IsFiniteSet(T)
             /\ Cardinality(T) = Cardinality(S) + (IF in THEN 1 ELSE 0)
                                    - (IF l \in S THEN 1 ELSE 0)
  <2>1. Cardinality(S) \in Nat
    BY <1>b, FS_CardinalityType
  <2>2. CASE in
    <3>1. T = S \cup {l}
      BY <1>b, <2>2
    <3>2. QED
      BY <1>b, <2>1, <2>2, <3>1, Counted
  <2>3. CASE ~in
    <3>1. T = S \ {l}
      BY <1>b, <2>3
    <3>2. QED
      BY <1>b, <2>1, <2>3, <3>1, Counted
  <2>4. QED
    BY <2>2, <2>3
<1>1. ASSUME NEW pcs \in SUBSET Enters
      PROVE  /\ IsFiniteSet(Entering(pcs)')
             /\ Cardinality(Entering(pcs)') =
                  Cardinality(Entering(pcs)) + (IF pc \in pcs THEN 1 ELSE 0)
                     - (IF hnd[l].pc \in pcs THEN 1 ELSE 0)
  <2> DEFINE S == Entering(pcs)
             T == Entering(pcs)'
             in == pc \in pcs
  <2>1. /\ IsFiniteSet(S) /\ in \in BOOLEAN
        /\ T = IF in THEN S \cup {l} ELSE S \ {l}
        /\ l \in S <=> hnd[l].pc \in pcs
    BY <1>a, Finite, GotoMoves
  <2> HIDE DEF S, T, in
  <2>2. /\ IsFiniteSet(T)
        /\ Cardinality(T) = Cardinality(S) + (IF in THEN 1 ELSE 0)
                               - (IF l \in S THEN 1 ELSE 0)
    BY <2>1, <1>b
  <2>3. QED
    BY <2>1, <2>2 DEF S, T, in
<1>2. ASSUME NEW u
      PROVE  Cardinality(WonInDb(u)') =
               Cardinality(WonInDb(u))
                  + (IF pc \in {"dbLose", "win"} /\ hnd[l].user = u THEN 1 ELSE 0)
                  - (IF hnd[l].pc \in {"dbLose", "win"} /\ hnd[l].user = u
                     THEN 1 ELSE 0)
  <2> DEFINE S == WonInDb(u)
             T == WonInDb(u)'
             in == pc \in {"dbLose", "win"} /\ hnd[l].user = u
  <2>1. /\ IsFiniteSet(S) /\ in \in BOOLEAN
        /\ T = IF in THEN S \cup {l} ELSE S \ {l}
        /\ l \in S <=> hnd[l].pc \in {"dbLose", "win"} /\ hnd[l].user = u
    BY <1>a, Finite, GotoMoves
  <2> HIDE DEF S, T, in
  <2>2. Cardinality(T) = Cardinality(S) + (IF in THEN 1 ELSE 0)
                            - (IF l \in S THEN 1 ELSE 0)
    BY <2>1, <1>b
  <2>3. QED
    BY <2>1, <2>2 DEF S, T, in
<1>3. ASSUME NEW u
      PROVE  Cardinality(LostInDb(u)') =
               Cardinality(LostInDb(u))
                  + (IF pc \in {"win", "lose"} /\ hnd[l].other = u THEN 1 ELSE 0)
                  - (IF hnd[l].pc \in {"win", "lose"} /\ hnd[l].other = u
                     THEN 1 ELSE 0)
  <2> DEFINE S == LostInDb(u)
             T == LostInDb(u)'
             in == pc \in {"win", "lose"} /\ hnd[l].other = u
  <2>1. /\ IsFiniteSet(S) /\ in \in BOOLEAN
        /\ T = IF in THEN S \cup {l} ELSE S \ {l}
        /\ l \in S <=> hnd[l].pc \in {"win", "lose"} /\ hnd[l].other = u
    BY <1>a, Finite, GotoMoves
  <2> HIDE DEF S, T, in
  <2>2. Cardinality(T) = Cardinality(S) + (IF in THEN 1 ELSE 0)
                            - (IF l \in S THEN 1 ELSE 0)
    BY <2>1, <1>b
  <2>3. QED
    BY <2>1, <2>2 DEF S, T, in
<1>4. Enters \in SUBSET Enters
  OBVIOUS
<1>5. QED
  BY <1>1, <1>2, <1>3, <1>4

\* The other steps of the handlers begin and end outside.
CountsKept ==
    /\ \A pcs \in SUBSET Enters : Entering(pcs)' = Entering(pcs)
    /\ \A u : WonInDb(u)' = WonInDb(u) /\ LostInDb(u)' = LostInDb(u)

Updates(l) == DbWin(l) \/ DbLose(l) \/ winGame(l) \/ loseGame(l)

LEMMA CountsStay ==
    ASSUME TypeInv, GameNext, wins' = wins, \A l \in Loop : ~Updates(l)
    PROVE  CountsKept
<1>a. hnd \in [Loop -> HandlerState]
  BY DEF TypeInv, HandlerTypes
<1>1. ASSUME \A k \in Loop :
                \/ hnd'[k] = hnd[k]
                \/ hnd[k].pc \notin Enters /\ hnd'[k].pc \notin Enters
      PROVE  CountsKept
  <2>1. \A pcs \in SUBSET Enters : Entering(pcs)' = Entering(pcs)
    BY <1>1 DEF Entering
  <2>2. ASSUME NEW u
        PROVE  WonInDb(u)' = WonInDb(u) /\ LostInDb(u)' = LostInDb(u)
    BY <1>1 DEF WonInDb, LostInDb, Entering, Enters
  <2>3. QED
    BY <2>1, <2>2 DEF CountsKept
<1>2. CASE UNCHANGED hnd
  BY <1>1, <1>2
<1>3. ASSUME NEW l \in Loop, hnd[l].pc \notin Enters,
             Return(l) \/ \E pc : pc \notin Enters /\ Goto(l, pc)
      PROVE  CountsKept
  <2>1. \A k \in Loop : \/ hnd'[k] = hnd[k]
                        \/ k = l /\ hnd'[k].pc \notin Enters
    BY <1>3, <1>a DEF Return, Goto, NoHandler, HandlerState, Enters
  <2>2. QED
    BY <2>1, <1>1, <1>3
<1>4. ASSUME NEW l \in Loop, LockPool(l) PROVE CountsKept
  <2>1. \A k \in Loop : \/ hnd'[k] = hnd[k]
                        \/ hnd[k].pc = "begin" /\ hnd'[k].pc = "pool"
    BY <1>4, <1>a DEF LockPool, HandlerState
  <2>2. QED
    BY <2>1, <1>1 DEF Enters
<1>5. ASSUME NEW l \in Loop, addUser(l) \/ removeFromPool(l) PROVE CountsKept
  <2>1. PICK ok : Unlock(l, ok)
    BY <1>5 DEF addUser, removeFromPool
  <2>2. hnd[l].pc = "pool"
    BY <1>5 DEF addUser, removeFromPool
  <2>3. \A k \in Loop : \/ hnd'[k] = hnd[k]
                        \/ hnd[k].pc = "pool" /\ hnd'[k].pc = "answer"
    BY <2>1, <2>2, <1>a DEF Unlock, HandlerState
  <2>4. QED
    BY <2>3, <1>1 DEF Enters
<1>6. ASSUME NEW l \in Loop, FindSender(l) \/ FindOther(l) \/ FindPeer(l)
      PROVE  CountsKept
  <2>1. CASE FindSender(l)
    <3>1. \A k \in Loop : \/ hnd'[k] = hnd[k]
                          \/ hnd[k].pc = "begin" /\ hnd'[k].pc = "sender"
      BY <2>1, <1>a DEF FindSender, At, HandlerState
    <3>2. QED
      BY <3>1, <1>1 DEF Enters
  <2>2. CASE FindOther(l)
    <3>1. \A k \in Loop : \/ hnd'[k] = hnd[k]
                          \/ hnd[k].pc = "sender" /\ hnd'[k].pc = "other"
      BY <2>2, <1>a DEF FindOther, At, HandlerState
    <3>2. QED
      BY <3>1, <1>1 DEF Enters
  <2>3. CASE FindPeer(l)
    <3>1. \A k \in Loop : \/ hnd'[k] = hnd[k]
                          \/ hnd[k].pc = "other" /\ hnd'[k].pc = "peer"
      BY <2>3, <1>a DEF FindPeer, At, HandlerState
    <3>2. QED
      BY <3>1, <1>1 DEF Enters
  <2>4. QED
    BY <1>6, <2>1, <2>2, <2>3
<1>7. ASSUME NEW l \in Loop,
             onChat(l) \/ TellMove(l) \/ TellLoser(l) \/ ExitDone(l) \/ MatchAck(l)
      PROVE  CountsKept
  <2>1. Return(l) /\ hnd[l].pc \in {"peer", "moved", "tellLose", "left", "answer"}
    BY <1>7 DEF onChat, TellMove, TellLoser, ExitDone, MatchAck, At, Return
  <2>2. QED
    BY <2>1, <1>3 DEF Enters
<1>8. ASSUME NEW l \in Loop, TellWinner(l) \/ ExitRoom(l) PROVE CountsKept
  <2>1. /\ hnd[l].pc \in {"tellWin", "sender"}
        /\ Return(l) \/ Goto(l, "left") \/ Goto(l, "tellLose")
    BY <1>8 DEF TellWinner, ExitRoom, At
  <2>2. QED
    BY <2>1, <1>3 DEF Enters
<1>9. ASSUME NEW l \in Loop, handChess(l) PROVE CountsKept
  <2>1. wins \in Nat
    BY GameAssumption DEF TypeInv, OtherTypes
  <2>2. hnd[l].pc = "peer" /\ Goto(l, "moved")
    BY <1>9, <2>1 DEF handChess, At
  <2>3. QED
    BY <2>2, <1>3 DEF Enters
<1>10. ASSUME NEW c \in Conn, NEW r \in Request, Begin(c, r) PROVE CountsKept
  <2> DEFINE h == [NoHandler EXCEPT !.pc = "begin", !.req = r, !.conn = c,
                                    !.user = ClientUser(c)]
  <2>1. hnd[LoopOf[c]] = NoHandler /\ hnd' = [hnd EXCEPT ![LoopOf[c]] = h]
    BY <1>10 DEF Begin, Handle, LoopIdle
  <2>2. h.pc = "begin" /\ NoHandler.pc = "none"
    BY DEF NoHandler
  <2> HIDE DEF h
  <2>3. \A k \in Loop : \/ hnd'[k] = hnd[k]
                        \/ hnd[k].pc = "none" /\ hnd'[k].pc = "begin"
    BY <2>1, <2>2, <1>a
  <2>4. QED
    BY <2>3, <1>1 DEF Enters
<1>10a. ASSUME NEW c \in Conn, NEW r \in Request, NEW u \in User,
               ForeignRequest(c, r, u)
        PROVE  CountsKept
  <2>1. /\ hnd[LoopOf[c]] = NoHandler
        /\ hnd' = [hnd EXCEPT ![LoopOf[c]] =
                      [NoHandler EXCEPT !.pc = "begin", !.req = r, !.conn = c,
                                        !.user = u]]
    BY <1>10a DEF ForeignRequest, Handle, LoopIdle
  <2>2. \A k \in Loop : \/ hnd'[k] = hnd[k]
                        \/ hnd[k].pc = "none" /\ hnd'[k].pc = "begin"
    BY <2>1, <1>a DEF NoHandler
  <2>3. QED
    BY <2>2, <1>1 DEF Enters
<1>11. QED
  BY ZenonT(30), <1>2, <1>4, <1>5, <1>6, <1>7, <1>8, <1>9, <1>10, <1>10a, WhoWrites
     DEF Updates

-----------------------------------------------------------------------------
(* Who is online, and with how many points.                                *)

\* Steps that neither score nor log anybody in leave all points as they are.
LEMMA PointsKept ==
    ASSUME TypeInv, GameNext,
           \A l \in Loop : ~winGame(l) /\ ~loseGame(l) /\ ~GameLoginAdd(l)
    PROVE  \A o \in Obj : info'[o].points = info[o].points
<1>a. info \in Seq(InfoEntry) /\ Len(info) = Len(heap) /\ Obj = 1..Len(info)
  BY DEF TypeInv, InfoTypes, Obj
<1>1. ASSUME NEW o, NEW st \in {"online", "matching", "gaming"},
             info' = [info EXCEPT ![o].state = st], o \in Obj
      PROVE  \A p \in Obj : info'[p].points = info[p].points
  BY <1>1, <1>a, SetState
<1>2. CASE UNCHANGED info
  BY <1>2
<1>3. ASSUME NEW l \in Loop, addUser(l) \/ removeFromPool(l)
      PROVE  \A p \in Obj : info'[p].points = info[p].points
  <2>1. hnd[l].obj \in Obj
    <3>1. hnd[l].obj # NoObj
      BY <1>3 DEF addUser, removeFromPool
    <3>2. hnd[l].obj \in Nat /\ hnd[l].obj <= Len(heap)
      BY DEF TypeInv, HandlerTypes, HandlerState
    <3>3. QED
      BY <3>1, <3>2, Ground DEF Obj, NoObj
  <2>2. \/ UNCHANGED info
        \/ info' = [info EXCEPT ![hnd[l].obj].state = "matching"]
        \/ info' = [info EXCEPT ![hnd[l].obj].state = "online"]
    BY <1>3 DEF addUser, removeFromPool
  <2>3. QED
    BY <2>1, <2>2, <1>1
<1>4. CASE MatcherDecide
  <2>1. mt.o1 \in 0..Len(heap) /\ mt.o2 \in 0..Len(heap)
    BY Ground DEF TypeInv, MatcherTypes, MatcherState
  <2>2. \/ UNCHANGED info
        \/ mt.o1 # NoObj /\ info' = [info EXCEPT ![mt.o1].state = "online"]
        \/ mt.o2 # NoObj /\ info' = [info EXCEPT ![mt.o2].state = "online"]
    BY <1>4 DEF MatcherDecide
  <2>3. QED
    BY <2>1, <2>2, <1>1 DEF Obj, NoObj
<1>5. CASE MatcherSetGaming
  <2>1. CASE UNCHANGED info
    BY <2>1
  <2>2. CASE info' = [o \in DOMAIN info |->
                        IF o \in {mt.o1, mt.o2}
                        THEN [info[o] EXCEPT !.state = "gaming"] ELSE info[o]]
    BY <2>2, <1>a, SetGaming
  <2>3. QED
    BY <1>5, <2>1, <2>2 DEF MatcherSetGaming
<1>6. ASSUME NEW l \in Loop, ExitDone(l)
      PROVE  \A p \in Obj : info'[p].points = info[p].points
  <2>1. PICK o \in RacyFind(leaver.user) :
           info' = IF o = NoObj THEN info ELSE [info EXCEPT ![o].state = "online"]
    BY <1>6 DEF ExitDone, setUserState
  <2>2. leaver.user \in User \cup {NoUser}
    BY DEF TypeInv, RoomsTypeOK
  <2>3. o = NoObj \/ o \in Obj
    <3>1. o \in RacyFind(leaver.user)
      BY <2>1
    <3>2. \/ o = NoObj
          \/ leaver.user \in User /\ o = userObj[leaver.user]
      BY <3>1, <2>2 DEF RacyFind
    <3>3. \A u \in User : userObj[u] \in 0..Len(heap)
      BY Ground
    <3>4. QED
      BY <3>2, <3>3, Ground DEF Obj, NoObj
  <2>4. QED
    BY <2>1, <2>3, <1>1
<1>7. QED
  BY <1>2, <1>3, <1>4, <1>5, <1>6, WhoWrites

\* Only the end of a login makes anybody online, or gives him another object.
LEMMA OnlineKept ==
    ASSUME TypeInv, GameNext, NEW u \in User, Online(u)',
           \A l \in Loop : ~GameLoginAdd(l)
    PROVE  Online(u) /\ userObj'[u] = userObj[u]
<1>a. /\ userConn \in [User -> Conn \cup {NoConn}]
      /\ userObj \in [User -> Nat]
  BY Ground DEF SessionsTypeOK
<1>b. userConn'[u] # NoConn
  BY DEF Online
<1>1. CASE UNCHANGED <<userConn, userObj>>
  BY <1>1, <1>b DEF Online
<1>2. ASSUME NEW l \in Loop, removeOnlineUser(l)
      PROVE  Online(u) /\ userObj'[u] = userObj[u]
  <2>1. CASE UNCHANGED <<userConn, userObj>>
    BY <2>1, <1>b DEF Online
  <2>2. CASE EraseEntries(io[l].user, userConn[io[l].user])
    <3>1. /\ userConn' = [userConn EXCEPT ![io[l].user] = NoConn]
          /\ userObj' = [userObj EXCEPT ![io[l].user] = NoObj]
      BY <2>2 DEF EraseEntries
    <3>2. u # io[l].user
      BY <3>1, <1>a, <1>b
    <3>3. QED
      BY <3>1, <3>2, <1>a, <1>b DEF Online
  <2>3. QED
    BY <1>2, <2>1, <2>2 DEF removeOnlineUser
<1>3. ASSUME NEW l \in Loop, SessionOnly(l)
      PROVE  removeOnlineUser(l) \/ UNCHANGED <<userConn, userObj>>
  BY <1>3 DEF SessionOnly, LoginRefused, LockForAdd, CloseLookup, LockForRemove
<1>4. QED
  BY <1>1, <1>2, <1>3, WhoWrites

\* A step that leaves counts, database and wins alone and logs nobody in.
LEMMA QuietPoints ==
    ASSUME Countable, TypeInv, PointsInv, GameNext, wins' = wins,
           \A l \in Loop : ~Updates(l) /\ ~GameLoginAdd(l)
    PROVE  PointsSound'
<1>1. CountsKept
  BY CountsStay
<1>2. db' = db
  BY WhoWrites DEF Updates
<1>3. ASSUME NEW u \in User, Online(u)'
      PROVE  Online(u) /\ InMemory(u)' = InMemory(u)
  <2>1. Online(u) /\ userObj'[u] = userObj[u]
    BY <1>3, OnlineKept
  <2>2. userObj[u] \in Obj
    BY <2>1, OnlineKnown
  <2>3. \A o \in Obj : info'[o].points = info[o].points
    BY PointsKept DEF Updates
  <2>4. QED
    BY <2>1, <2>2, <2>3 DEF InMemory
<1>4. ASSUME NEW u \in User, Online(u)' PROVE Balanced(u)'
  <2>1. Balanced(u)
    BY <1>3, <1>4 DEF PointsInv, PointsSound
  <2>2. LostInDb(u)' = LostInDb(u) /\ WonInDb(u)' = WonInDb(u)
    BY <1>1 DEF CountsKept
  <2>3. InMemory(u)' = InMemory(u)
    BY <1>3, <1>4
  <2>4. QED
    BY <2>1, <2>2, <2>3, <1>2 DEF Balanced
<1>5. /\ Entering(Enters)' = Entering(Enters)
      /\ ToDb' = ToDb /\ ToWin' = ToWin /\ ToLose' = ToLose
  BY <1>1 DEF CountsKept, Enters, ToDb, ToWin, ToLose
<1>6. Covered
  BY DEF PointsInv, PointsSound
<1>7. Covered'
  BY <1>2, <1>3, <1>5, <1>6 DEF Covered
<1>8. QED
  BY <1>4, <1>5, <1>7 DEF PointsInv, PointsSound

-----------------------------------------------------------------------------
(* The steps that enter a win.                                             *)

LEMMA Tallies ==
    ASSUME TypeInv, PointsInv, NEW l \in Loop, NEW pc, Goto(l, pc)
    PROVE  /\ IsFiniteSet(Entering(Enters)')
           /\ ToDb \in Nat /\ ToWin \in Nat /\ ToLose \in Nat
           /\ ToDb' \in Nat /\ ToDb' <= ToWin' /\ ToWin' <= ToLose'
           /\ ToDb' = ToDb + (IF pc \in {"dbWin", "dbLose"} THEN 1 ELSE 0)
                        - (IF hnd[l].pc \in {"dbWin", "dbLose"} THEN 1 ELSE 0)
           /\ ToWin' = ToWin
                         + (IF pc \in {"dbWin", "dbLose", "win"} THEN 1 ELSE 0)
                         - (IF hnd[l].pc \in {"dbWin", "dbLose", "win"}
                            THEN 1 ELSE 0)
           /\ ToLose' = ToLose + (IF pc \in Enters THEN 1 ELSE 0)
                          - (IF hnd[l].pc \in Enters THEN 1 ELSE 0)
<1> DEFINE A == {"dbWin", "dbLose"}
           B == {"dbWin", "dbLose", "win"}
<1>1. A \in SUBSET Enters /\ B \in SUBSET Enters /\ Enters \in SUBSET Enters
      /\ A \subseteq B
  BY DEF Enters
<1>2. ToDb = Cardinality(Entering(A)) /\ ToWin = Cardinality(Entering(B))
      /\ ToLose = Cardinality(Entering(Enters))
  BY DEF ToDb, ToWin, ToLose
<1>3. ToDb' = Cardinality(Entering(A)') /\ ToWin' = Cardinality(Entering(B)')
      /\ ToLose' = Cardinality(Entering(Enters)')
  BY DEF ToDb, ToWin, ToLose
<1> HIDE DEF A, B
<1>4. /\ IsFiniteSet(Entering(Enters)')
      /\ \A pcs \in SUBSET Enters :
            Cardinality(Entering(pcs)') =
               Cardinality(Entering(pcs)) + (IF pc \in pcs THEN 1 ELSE 0)
                  - (IF hnd[l].pc \in pcs THEN 1 ELSE 0)
  BY MoveCounts
<1>5. \A pcs \in SUBSET Enters : Cardinality(Entering(pcs)) \in Nat
  BY Finite
<1>6. /\ Entering(A)' \in SUBSET Entering(B)'
      /\ Entering(B)' \in SUBSET Entering(Enters)'
  BY <1>1 DEF Entering
<1>7. /\ IsFiniteSet(Entering(B)') /\ IsFiniteSet(Entering(A)')
      /\ Cardinality(Entering(B)') <= Cardinality(Entering(Enters)')
      /\ Cardinality(Entering(A)') <= Cardinality(Entering(B)')
  <2>1. IsFiniteSet(Entering(B)')
        /\ Cardinality(Entering(B)') <= Cardinality(Entering(Enters)')
    BY <1>4, <1>6, FS_Subset
  <2>2. IsFiniteSet(Entering(A)')
        /\ Cardinality(Entering(A)') <= Cardinality(Entering(B)')
    BY <2>1, <1>6, FS_Subset
  <2>3. QED
    BY <2>1, <2>2
<1>8. Cardinality(Entering(A)') \in Nat
  BY <1>7, FS_CardinalityType
<1>9. ToDb \in Nat /\ ToWin \in Nat /\ ToLose \in Nat
  BY <1>1, <1>2, <1>5
<1>10. /\ ToDb' = ToDb + (IF pc \in A THEN 1 ELSE 0)
                     - (IF hnd[l].pc \in A THEN 1 ELSE 0)
       /\ ToWin' = ToWin + (IF pc \in B THEN 1 ELSE 0)
                      - (IF hnd[l].pc \in B THEN 1 ELSE 0)
       /\ ToLose' = ToLose + (IF pc \in Enters THEN 1 ELSE 0)
                       - (IF hnd[l].pc \in Enters THEN 1 ELSE 0)
  BY <1>1, <1>2, <1>3, <1>4
<1>11. ToDb' \in Nat /\ ToDb' <= ToWin' /\ ToWin' <= ToLose'
  BY <1>3, <1>7, <1>8
<1>12. QED
  BY <1>4, <1>9, <1>10, <1>11 DEF A, B

\* What every entering step starts from.
LEMMA PointsGround ==
    ASSUME Countable, TypeInv, PointsInv
    PROVE  /\ wins \in Nat /\ MaxWins \in Nat /\ wins <= MaxWins
           /\ \A u \in User : db[u] \in Nat /\ InitPoints[u] \in Nat
           /\ \A u \in User : /\ Cardinality(WonInDb(u)) \in Nat
                              /\ Cardinality(LostInDb(u)) \in Nat
           /\ PointWidth \in Nat
           /\ \A u \in User : /\ InitPoints[u] + 10 * MaxWins < PointWidth
                              /\ InitPoints[u] >= 5 * MaxWins
           /\ \A u \in User : db[u] >= InitPoints[u] - 5 * (wins - ToDb)
           /\ \A u \in User : Online(u) =>
                 /\ InMemory(u) \in Nat /\ InMemory(u) < PointWidth
                 /\ "fail" \notin DbMay =>
                       db[u] + 5 * Cardinality(LostInDb(u))
                          = InMemory(u) + 10 * Cardinality(WonInDb(u))
                 /\ InMemory(u) >= InitPoints[u] - 5 * (wins - ToLose)
                 /\ InMemory(u) <= InitPoints[u] + 10 * (wins - ToWin)
<1>1. wins \in Nat /\ MaxWins \in Nat /\ wins <= MaxWins
  BY GameAssumption DEF TypeInv, OtherTypes
<1>2. \A u \in User : db[u] \in Nat /\ InitPoints[u] \in Nat
  BY InitPointsAssumption DEF TypeInv, OtherTypes
<1>3. /\ PointWidth \in Nat
      /\ \A u \in User : /\ InitPoints[u] + 10 * MaxWins < PointWidth
                         /\ InitPoints[u] >= 5 * MaxWins
  BY GameAssumption DEF Countable, WinPoints, LosePoints
<1>4. \A u \in User : /\ Cardinality(WonInDb(u)) \in Nat
                      /\ Cardinality(LostInDb(u)) \in Nat
  BY Finite
<1>5. \A u \in User : db[u] >= InitPoints[u] - 5 * (wins - ToDb)
  BY DEF PointsInv, PointsSound, Covered, LosePoints
<1>6. ASSUME NEW u \in User, Online(u)
      PROVE  /\ "fail" \notin DbMay =>
                   db[u] + 5 * Cardinality(LostInDb(u))
                      = InMemory(u) + 10 * Cardinality(WonInDb(u))
             /\ InMemory(u) >= InitPoints[u] - 5 * (wins - ToLose)
             /\ InMemory(u) <= InitPoints[u] + 10 * (wins - ToWin)
  BY <1>6 DEF PointsInv, PointsSound, Balanced, Covered, LosePoints, WinPoints
<1>7. ASSUME NEW u \in User, Online(u)
      PROVE  InMemory(u) \in Nat /\ InMemory(u) < PointWidth
  <2>1. userObj[u] \in Obj
    BY <1>7, OnlineKnown
  <2>2. /\ info \in Seq(InfoEntry) /\ Len(info) = Len(heap)
        /\ info[userObj[u]].points < PointWidth
    BY <2>1 DEF TypeInv, InfoTypes
  <2>3. info[userObj[u]] \in InfoEntry
    BY <2>1, <2>2, ElementOfSeq DEF Obj
  <2>4. QED
    BY <2>2, <2>3 DEF InMemory, InfoEntry
<1>8. QED
  BY <1>1, <1>2, <1>3, <1>4, <1>5, <1>6, <1>7

\* Scoring adds to the points of one object, that of the user if it is online.
LEMMA ScoreObjects ==
    ASSUME Countable, TypeInv, NEW l \in Loop, NEW pc, NEW next,
           NEW v \in User, NEW delta \in Int,
           Score(l, pc, next, v, delta), NEW p \in Obj
    PROVE  info'[p].points = IF p = userObj[v]
                             THEN (info[p].points + delta) % PointWidth
                             ELSE info[p].points
<1>a. /\ info \in Seq(InfoEntry) /\ Len(info) = Len(heap) /\ Obj = 1..Len(info)
      /\ PointWidth \in Nat \ {0}
  BY GameAssumption DEF TypeInv, InfoTypes, Obj
<1>1. PICK o \in RacyFind(v) :
         info' = IF o = NoObj THEN info
                 ELSE [info EXCEPT ![o].points = (@ + delta) % PointWidth]
  BY DEF Score
<1>2. o = userObj[v] /\ v # NoUser
  <2>1. o \in RacyFind(v)
    BY <1>1
  <2>2. QED
    BY <2>1, ThreadsAssumption DEF RacyFind, Countable
<1>3. CASE o = NoObj
  <2>1. NoObj \notin Obj
    <3>1. Len(heap) \in Nat
      BY <1>a
    <3>2. QED
      BY <3>1 DEF Obj, NoObj
  <2>2. QED
    BY <2>1, <1>1, <1>2, <1>3
<1>4. CASE o # NoObj
  <2>1. Online(v)
    BY <1>2, <1>4, Ground DEF OnlineTogether
  <2>2. o \in Obj
    BY <2>1, <1>2, OnlineKnown
  <2> DEFINE n == (info[o].points + delta) % PointWidth
  <2>3. n \in Nat
    <3>1. info[o] \in InfoEntry
      BY <2>2, <1>a, ElementOfSeq
    <3>2. info[o].points + delta \in Int
      BY <3>1 DEF InfoEntry
    <3>3. \A k \in Int, w \in Nat \ {0} : k % w \in Nat
      OBVIOUS
    <3>4. QED
      BY <3>2, <3>3, <1>a
  <2>4. info' = [info EXCEPT ![o].points = n]
    BY <1>1, <1>4
  <2> HIDE DEF n
  <2>5. \A q \in Obj : info'[q].points = IF q = o THEN n ELSE info[q].points
    BY <2>2, <2>3, <2>4, <1>a, SetPoints
  <2>6. info'[p].points = IF p = o THEN n ELSE info[p].points
    BY <2>5
  <2>7. QED
    BY <2>6, <1>2 DEF n
<1>5. QED
  BY <1>3, <1>4

LEMMA ScoreMemory ==
    ASSUME Countable, TypeInv, NEW l \in Loop, NEW pc, NEW next,
           NEW v \in User, NEW delta \in Int,
           Score(l, pc, next, v, delta), NEW u \in User, Online(u)
    PROVE  InMemory(u)' = IF u = v THEN (InMemory(u) + delta) % PointWidth
                          ELSE InMemory(u)
<1>1. userObj' = userObj
  BY DEF Score, handlerVars, sessionVars
<1>2. userObj[u] \in Obj /\ heap[userObj[u]].user = u
  BY OnlineKnown
<1>3. userObj[u] = userObj[v] => u = v
  <2>1. ASSUME userObj[v] = userObj[u] PROVE Online(v)
    <3>1. Len(heap) \in Nat
      BY DEF TypeInv, InfoTypes
    <3>2. userObj[v] # NoObj
      BY <1>2, <2>1, <3>1 DEF Obj, NoObj
    <3>3. QED
      BY <3>2, Ground DEF OnlineTogether
  <2>2. QED
    BY <1>2, <2>1, OnlineKnown
<1>4. \A p \in Obj : info'[p].points = IF p = userObj[v]
                                        THEN (info[p].points + delta) % PointWidth
                                        ELSE info[p].points
  BY ScoreObjects
<1>5. info'[userObj[u]].points = IF userObj[u] = userObj[v]
                                 THEN (info[userObj[u]].points + delta) % PointWidth
                                 ELSE info[userObj[u]].points
  BY <1>2, <1>4
<1>6. QED
  BY <1>1, <1>3, <1>5 DEF InMemory

LEMMA ScoreNobody ==
    ASSUME Countable, NEW l \in Loop, NEW pc, NEW next, NEW delta,
           Score(l, pc, next, NoUser, delta), NEW u \in User
    PROVE  InMemory(u)' = InMemory(u)
  BY DEF Score, RacyFind, Countable, InMemory, handlerVars, sessionVars

LEMMA HandChessPoints ==
    ASSUME Countable, TypeInv, PointsInv,
           NEW l \in Loop, handChess(l), wins' # wins
    PROVE  PointsSound'
<1>a. /\ wins' = wins + 1 /\ wins < MaxWins /\ hnd[l].pc = "peer"
      /\ Goto(l, "dbWin")
      /\ UNCHANGED <<db, info, userConn, userObj>>
  BY DEF handChess, At, handlerVars, sessionVars
<1>1. /\ IsFiniteSet(Entering(Enters)') /\ ToDb \in Nat /\ ToWin \in Nat
      /\ ToLose \in Nat /\ ToDb' <= ToWin' /\ ToWin' <= ToLose'
      /\ ToDb' = ToDb + 1 /\ ToWin' = ToWin + 1 /\ ToLose' = ToLose + 1
  BY <1>a, Tallies DEF Enters
<1>2. \A u : /\ Cardinality(WonInDb(u)') = Cardinality(WonInDb(u)) + 0 - 0
             /\ Cardinality(LostInDb(u)') = Cardinality(LostInDb(u)) + 0 - 0
  BY <1>a, MoveCounts
<1>3. \A u \in User : Online(u)' = Online(u) /\ InMemory(u)' = InMemory(u)
  BY <1>a DEF Online, InMemory
<1>4. Covered'
  <2>1. ToLose' <= wins'
    <3>1. ToLose <= wins /\ wins \in Nat
      BY PointsGround DEF PointsInv, PointsSound, Covered
    <3>2. QED
      BY <1>1, <1>a, <3>1
  <2>2. \A u \in User : db'[u] >= InitPoints[u] - LosePoints * (wins' - ToDb')
    BY <1>1, <1>a, PointsGround DEF LosePoints
  <2>3. ASSUME NEW u \in User, Online(u)'
        PROVE  /\ InMemory(u)' >= InitPoints[u] - LosePoints * (wins' - ToLose')
               /\ InMemory(u)' <= InitPoints[u] + WinPoints * (wins' - ToWin')
    <3>1. Online(u) /\ InMemory(u)' = InMemory(u)
      BY <1>3, <2>3
    <3>2. /\ InMemory(u) \in Nat /\ InitPoints[u] \in Nat /\ wins \in Nat
          /\ InMemory(u) >= InitPoints[u] - 5 * (wins - ToLose)
          /\ InMemory(u) <= InitPoints[u] + 10 * (wins - ToWin)
      <4>1. Online(u)
        BY <3>1
      <4>2. QED
        BY <4>1, PointsGround
    <3>3. QED
      BY <1>1, <1>a, <3>1, <3>2 DEF LosePoints, WinPoints
  <2>4. QED
    BY <1>1, <2>1, <2>2, <2>3 DEF Covered
<1>5. ASSUME NEW u \in User, Online(u)' PROVE Balanced(u)'
  <2>1. /\ Balanced(u) /\ InMemory(u)' = InMemory(u) /\ db'[u] = db[u]
        /\ Cardinality(WonInDb(u)) \in Nat /\ Cardinality(LostInDb(u)) \in Nat
    BY <1>3, <1>5, <1>a, PointsGround DEF PointsInv, PointsSound
  <2>2. /\ Cardinality(WonInDb(u)') = Cardinality(WonInDb(u))
        /\ Cardinality(LostInDb(u)') = Cardinality(LostInDb(u))
    BY <1>2, <2>1
  <2>3. QED
    BY <2>1, <2>2 DEF Balanced
<1>6. QED
  BY <1>1, <1>4, <1>5 DEF PointsSound

LEMMA DbWinPoints ==
    ASSUME Countable, TypeInv, PointsInv, NEW l \in Loop, DbWin(l)
    PROVE  PointsSound'
<1> DEFINE w == hnd[l].user
<1>a. /\ hnd[l].pc = "dbWin" /\ Goto(l, "dbLose") /\ w \in User \cup {NoUser}
      /\ \/ db' = IF w = NoUser THEN db ELSE [db EXCEPT ![w] = db[w] + 10]
         \/ "fail" \in DbMay /\ db' = db
      /\ UNCHANGED <<wins, info, userConn, userObj>>
  BY DEF DbWin, DbUpdate, At, handlerVars, sessionVars, Countable, WinPoints,
     TypeInv, HandlerTypes, HandlerState
<1>1. /\ IsFiniteSet(Entering(Enters)') /\ ToDb \in Nat /\ ToWin \in Nat
      /\ ToLose \in Nat /\ ToDb' <= ToWin' /\ ToWin' <= ToLose'
      /\ ToDb' = ToDb /\ ToWin' = ToWin /\ ToLose' = ToLose
  BY <1>a, Tallies DEF Enters
<1>2. \A u : /\ Cardinality(WonInDb(u)')
                  = Cardinality(WonInDb(u)) + (IF w = u THEN 1 ELSE 0) - 0
             /\ Cardinality(LostInDb(u)') = Cardinality(LostInDb(u)) + 0 - 0
  BY <1>a, MoveCounts
<1>3. \A u \in User : Online(u)' = Online(u) /\ InMemory(u)' = InMemory(u)
  BY <1>a DEF Online, InMemory
<1> HIDE DEF w
<1>4. \A u \in User : \/ db'[u] = IF w = u THEN db[u] + 10 ELSE db[u]
                      \/ "fail" \in DbMay /\ db'[u] = db[u]
  <2>1. db \in [User -> Nat] /\ NoUser \notin User
    BY ThreadsAssumption DEF TypeInv, OtherTypes
  <2>2. QED
    BY <2>1, <1>a
<1>5. Covered'
  <2>1. ToLose' <= wins'
    <3>1. ToLose <= wins /\ wins \in Nat
      BY PointsGround DEF PointsInv, PointsSound, Covered
    <3>2. QED
      BY <1>1, <1>a, <3>1
  <2>2. \A u \in User : db'[u] >= InitPoints[u] - LosePoints * (wins' - ToDb')
    BY <1>1, <1>4, <1>a, PointsGround DEF LosePoints
  <2>3. ASSUME NEW u \in User, Online(u)'
        PROVE  /\ InMemory(u)' >= InitPoints[u] - LosePoints * (wins' - ToLose')
               /\ InMemory(u)' <= InitPoints[u] + WinPoints * (wins' - ToWin')
    <3>1. Online(u) /\ InMemory(u)' = InMemory(u)
      BY <1>3, <2>3
    <3>2. /\ InMemory(u) \in Nat /\ InitPoints[u] \in Nat /\ wins \in Nat
          /\ InMemory(u) >= InitPoints[u] - 5 * (wins - ToLose)
          /\ InMemory(u) <= InitPoints[u] + 10 * (wins - ToWin)
      <4>1. Online(u)
        BY <3>1
      <4>2. QED
        BY <4>1, PointsGround
    <3>3. QED
      BY <1>1, <1>a, <3>1, <3>2 DEF LosePoints, WinPoints
  <2>4. QED
    BY <1>1, <2>1, <2>2, <2>3 DEF Covered
<1>6. ASSUME NEW u \in User, Online(u)' PROVE Balanced(u)'
  <2>1. /\ Online(u) /\ Cardinality(WonInDb(u)) \in Nat
        /\ Cardinality(LostInDb(u)) \in Nat
        /\ "fail" \notin DbMay =>
              db[u] + 5 * Cardinality(LostInDb(u))
                 = InMemory(u) + 10 * Cardinality(WonInDb(u))
        /\ InMemory(u) \in Nat /\ db[u] \in Nat
    BY <1>3, <1>6, PointsGround
  <2> QED
    BY <1>2, <1>3, <1>4, <2>1 DEF Balanced, LosePoints, WinPoints
<1>7. QED
  BY <1>1, <1>5, <1>6 DEF PointsSound

LEMMA DbLosePoints ==
    ASSUME Countable, TypeInv, PointsInv, NEW l \in Loop, DbLose(l)
    PROVE  PointsSound'
<1> DEFINE w == hnd[l].other
<1>a. /\ hnd[l].pc = "dbLose" /\ Goto(l, "win") /\ w \in User \cup {NoUser}
      /\ \/ db' = IF w = NoUser THEN db ELSE [db EXCEPT ![w] = Lower(db[w])]
         \/ "fail" \in DbMay /\ db' = db
      /\ UNCHANGED <<wins, info, userConn, userObj>>
  BY DEF DbLose, DbUpdate, At, handlerVars, sessionVars, Countable,
     TypeInv, HandlerTypes, HandlerState
<1>1. /\ IsFiniteSet(Entering(Enters)') /\ ToDb \in Nat /\ ToWin \in Nat
      /\ ToLose \in Nat /\ ToDb' \in Nat /\ ToDb' <= ToWin' /\ ToWin' <= ToLose'
      /\ ToDb' = ToDb - 1 /\ ToWin' = ToWin /\ ToLose' = ToLose
  BY <1>a, Tallies DEF Enters
<1>2. \A u : /\ Cardinality(WonInDb(u)')
                  = Cardinality(WonInDb(u)) + (IF hnd[l].user = u THEN 1 ELSE 0)
                       - (IF hnd[l].user = u THEN 1 ELSE 0)
             /\ Cardinality(LostInDb(u)')
                  = Cardinality(LostInDb(u)) + (IF w = u THEN 1 ELSE 0) - 0
  BY <1>a, MoveCounts
<1>3. \A u \in User : Online(u)' = Online(u) /\ InMemory(u)' = InMemory(u)
  BY <1>a DEF Online, InMemory
<1> HIDE DEF w
<1>4. \A u \in User : \/ db'[u] = IF w = u THEN db[u] - 5 ELSE db[u]
                      \/ "fail" \in DbMay /\ db'[u] = db[u]
  <2>1. db \in [User -> Nat] /\ NoUser \notin User
    BY ThreadsAssumption DEF TypeInv, OtherTypes
  <2>2. \A u \in User : \/ db'[u] = IF w = u THEN Lower(db[u]) ELSE db[u]
                        \/ "fail" \in DbMay /\ db'[u] = db[u]
    BY <2>1, <1>a
  <2>3. \A u \in User : db[u] \in Nat /\ db[u] >= 5
    BY <1>1, PointsGround
  <2>4. \A n \in Nat : n >= 5 => Lower(n) = n - 5
    BY DEF Lower, LosePoints
  <2>5. QED
    BY <2>2, <2>3, <2>4
<1>5. Covered'
  <2>1. ToLose' <= wins'
    <3>1. ToLose <= wins /\ wins \in Nat
      BY PointsGround DEF PointsInv, PointsSound, Covered
    <3>2. QED
      BY <1>1, <1>a, <3>1
  <2>2. \A u \in User : db'[u] >= InitPoints[u] - LosePoints * (wins' - ToDb')
    BY <1>1, <1>4, <1>a, PointsGround DEF LosePoints
  <2>3. ASSUME NEW u \in User, Online(u)'
        PROVE  /\ InMemory(u)' >= InitPoints[u] - LosePoints * (wins' - ToLose')
               /\ InMemory(u)' <= InitPoints[u] + WinPoints * (wins' - ToWin')
    <3>1. Online(u) /\ InMemory(u)' = InMemory(u)
      BY <1>3, <2>3
    <3>2. /\ InMemory(u) \in Nat /\ InitPoints[u] \in Nat /\ wins \in Nat
          /\ InMemory(u) >= InitPoints[u] - 5 * (wins - ToLose)
          /\ InMemory(u) <= InitPoints[u] + 10 * (wins - ToWin)
      <4>1. Online(u)
        BY <3>1
      <4>2. QED
        BY <4>1, PointsGround
    <3>3. QED
      BY <1>1, <1>a, <3>1, <3>2 DEF LosePoints, WinPoints
  <2>4. QED
    BY <1>1, <2>1, <2>2, <2>3 DEF Covered
<1>6. ASSUME NEW u \in User, Online(u)' PROVE Balanced(u)'
  <2>1. /\ Online(u) /\ Cardinality(WonInDb(u)) \in Nat
        /\ Cardinality(LostInDb(u)) \in Nat
        /\ "fail" \notin DbMay =>
              db[u] + 5 * Cardinality(LostInDb(u))
                 = InMemory(u) + 10 * Cardinality(WonInDb(u))
        /\ InMemory(u) \in Nat /\ db[u] \in Nat
    BY <1>3, <1>6, PointsGround
  <2>2. InMemory(u)' = InMemory(u)
    BY <1>3, <2>1
  <2>3. Cardinality(WonInDb(u)') = Cardinality(WonInDb(u))
    BY <1>2, <2>1
  <2>4. ASSUME "fail" \notin DbMay
        PROVE  /\ db'[u] = IF w = u THEN db[u] - 5 ELSE db[u]
               /\ Cardinality(LostInDb(u)')
                     = IF w = u THEN Cardinality(LostInDb(u)) + 1
                       ELSE Cardinality(LostInDb(u))
    BY <1>2, <1>4, <2>1, <2>4
  <2> DEFINE won == Cardinality(WonInDb(u))
             lost == Cardinality(LostInDb(u))
             m == InMemory(u)
  <2>5. ASSUME "fail" \notin DbMay
        PROVE  db'[u] + 5 * Cardinality(LostInDb(u)')
                  = InMemory(u)' + 10 * Cardinality(WonInDb(u)')
    <3>1. /\ won \in Nat /\ lost \in Nat /\ m \in Nat /\ db[u] \in Nat
          /\ db[u] + 5 * lost = m + 10 * won
          /\ InMemory(u)' = m /\ Cardinality(WonInDb(u)') = won
      BY <2>1, <2>2, <2>3, <2>5
    <3>2. /\ db'[u] = IF w = u THEN db[u] - 5 ELSE db[u]
          /\ Cardinality(LostInDb(u)') = IF w = u THEN lost + 1 ELSE lost
      BY <2>4, <2>5
    <3> HIDE DEF won, lost, m
    <3>3. QED
      BY <3>1, <3>2
  <2> QED
    BY <2>5 DEF Balanced, LosePoints, WinPoints
<1>7. QED
  BY <1>1, <1>5, <1>6 DEF PointsSound

LEMMA WinGamePoints ==
    ASSUME Countable, TypeInv, PointsInv, NEW l \in Loop, winGame(l)
    PROVE  PointsSound'
<1> DEFINE w == hnd[l].user
<1>s. Score(l, "win", "lose", w, 10)
  BY DEF winGame, WinPoints
<1>v. PICK v : v = w
  OBVIOUS
<1>t. Score(l, "win", "lose", v, 10)
  BY <1>s, <1>v DEF Score
<1>a. /\ hnd[l].pc = "win" /\ Goto(l, "lose")
      /\ UNCHANGED <<wins, db, userConn, userObj>>
  BY <1>s DEF Score, At, handlerVars, sessionVars
<1>u. w \in User \cup {NoUser}
  BY DEF TypeInv, HandlerTypes, HandlerState
<1>1. /\ IsFiniteSet(Entering(Enters)') /\ ToDb \in Nat /\ ToWin \in Nat
      /\ ToLose \in Nat /\ ToDb' \in Nat /\ ToDb' <= ToWin' /\ ToWin' <= ToLose'
      /\ ToDb' = ToDb /\ ToWin' = ToWin - 1 /\ ToLose' = ToLose
  BY <1>a, Tallies DEF Enters
<1>2. \A u : /\ Cardinality(WonInDb(u)')
                  = Cardinality(WonInDb(u)) + 0 - (IF w = u THEN 1 ELSE 0)
             /\ Cardinality(LostInDb(u)')
                  = Cardinality(LostInDb(u))
                       + (IF hnd[l].other = u THEN 1 ELSE 0)
                       - (IF hnd[l].other = u THEN 1 ELSE 0)
  BY <1>a, MoveCounts
<1>3. \A u \in User : Online(u)' = Online(u)
  BY <1>a DEF Online
<1> HIDE DEF w
<1>4. ASSUME NEW u \in User, Online(u)
      PROVE  InMemory(u)' = IF w = u THEN InMemory(u) + 10 ELSE InMemory(u)
  <2>0. 10 \in Int
    OBVIOUS
  <2>1. InMemory(u)' = IF u = w THEN (InMemory(u) + 10) % PointWidth
                       ELSE InMemory(u)
    <3>1. v \in User \cup {NoUser} /\ Online(u) /\ 10 \in Int
      BY <2>0, <1>4, <1>u, <1>v
    <3>2. CASE v \in User
      <4>1. InMemory(u)' = IF u = v THEN (InMemory(u) + 10) % PointWidth
                           ELSE InMemory(u)
        BY <3>1, <3>2, <1>t, ScoreMemory
      <4>2. QED
        BY <4>1, <1>v
    <3>3. CASE v = NoUser
      <4>1. InMemory(u)' = InMemory(u)
        BY <3>3, <1>t, ScoreNobody
      <4>2. QED
        BY <4>1, <3>3, <1>v, ThreadsAssumption
    <3>4. QED
      BY <3>1, <3>2, <3>3
  <2>2. /\ InMemory(u) \in Nat /\ PointWidth \in Nat
        /\ InMemory(u) + 10 < PointWidth
    <3>1. /\ InMemory(u) \in Nat /\ PointWidth \in Nat /\ InitPoints[u] \in Nat
          /\ InMemory(u) <= InitPoints[u] + 10 * (wins - ToWin)
          /\ InitPoints[u] + 10 * MaxWins < PointWidth
          /\ wins \in Nat /\ MaxWins \in Nat /\ wins <= MaxWins
      BY <1>4, PointsGround
    <3>2. ToWin >= 1
      BY <1>1
    <3>3. QED
      BY <1>1, <3>1, <3>2
  <2>3. \A n, k \in Nat : n < k => n % k = n
    OBVIOUS
  <2> DEFINE n == InMemory(u) + 10
  <2>4. n \in Nat /\ n < PointWidth
    BY <2>2
  <2> HIDE DEF n
  <2>5. n % PointWidth = n
    BY <2>2, <2>3, <2>4
  <2>6. QED
    BY <2>1, <2>5 DEF n
<1>5. Covered'
  <2>1. ToLose' <= wins'
    <3>1. ToLose <= wins /\ wins \in Nat
      BY PointsGround DEF PointsInv, PointsSound, Covered
    <3>2. QED
      BY <1>1, <1>a, <3>1
  <2>2. \A u \in User : db'[u] >= InitPoints[u] - LosePoints * (wins' - ToDb')
    BY <1>1, <1>a, PointsGround DEF LosePoints
  <2>3. ASSUME NEW u \in User, Online(u)'
        PROVE  /\ InMemory(u)' >= InitPoints[u] - LosePoints * (wins' - ToLose')
               /\ InMemory(u)' <= InitPoints[u] + WinPoints * (wins' - ToWin')
    <3>1. Online(u) /\ InMemory(u)' = IF w = u THEN InMemory(u) + 10 ELSE InMemory(u)
      BY <1>3, <1>4, <2>3
    <3>2. /\ InMemory(u) \in Nat /\ InitPoints[u] \in Nat /\ wins \in Nat
          /\ InMemory(u) >= InitPoints[u] - 5 * (wins - ToLose)
          /\ InMemory(u) <= InitPoints[u] + 10 * (wins - ToWin)
      <4>1. Online(u)
        BY <3>1
      <4>2. QED
        BY <4>1, PointsGround
    <3>3. QED
      BY <1>1, <1>a, <3>1, <3>2 DEF LosePoints, WinPoints
  <2>4. QED
    BY <1>1, <2>1, <2>2, <2>3 DEF Covered
<1>6. ASSUME NEW u \in User, Online(u)' PROVE Balanced(u)'
  <2>1. /\ Online(u) /\ Cardinality(WonInDb(u)) \in Nat
        /\ Cardinality(LostInDb(u)) \in Nat
        /\ "fail" \notin DbMay =>
              db[u] + 5 * Cardinality(LostInDb(u))
                 = InMemory(u) + 10 * Cardinality(WonInDb(u))
        /\ InMemory(u) \in Nat /\ db[u] \in Nat
    BY <1>3, <1>6, PointsGround
  <2>2. InMemory(u)' = (IF w = u THEN InMemory(u) + 10 ELSE InMemory(u))
    BY <1>4, <2>1
  <2>3. db'[u] = db[u]
    BY <1>a
  <2> QED
    BY <1>2, <2>1, <2>2, <2>3 DEF Balanced, LosePoints, WinPoints
<1>7. QED
  BY <1>1, <1>5, <1>6 DEF PointsSound

\* A loss costs 5 points: nobody has fewer when his turn comes.
LEMMA LoserPays ==
    ASSUME Countable, TypeInv, PointsInv, NEW l \in Loop, loseGame(l),
           NEW u \in User, Online(u)
    PROVE  /\ InMemory(u)' = IF hnd[l].other = u THEN InMemory(u) - 5 ELSE InMemory(u)
           /\ InMemory(u) \in Nat
<1> DEFINE w == hnd[l].other
<1>s. Score(l, "lose", "tellWin", w, PointWidth - 5)
  BY DEF loseGame, LosePoints
<1>v. PICK v : v = w
  OBVIOUS
<1>d. PICK d \in Int : d = PointWidth - 5
  BY GameAssumption
<1>t. Score(l, "lose", "tellWin", v, d)
  BY <1>s, <1>v, <1>d DEF Score
<1>a. hnd[l].pc = "lose" /\ Goto(l, "tellWin")
  BY <1>s DEF Score, At
<1>u. w \in User \cup {NoUser}
  BY DEF TypeInv, HandlerTypes, HandlerState
<1>1. ToLose \in Nat /\ ToLose' \in Nat /\ ToLose' = ToLose - 1
  <2>1. /\ ToLose \in Nat /\ ToDb' \in Nat /\ ToDb' <= ToWin' /\ ToWin' <= ToLose'
        /\ ToLose' = ToLose - 1
    BY <1>a, Tallies DEF Enters
  <2>2. ToWin' \in Int
    <3>1. ToWin \in Nat /\ ToWin' = ToWin
      BY <1>a, Tallies DEF Enters
    <3>2. QED
      BY <3>1
  <2>3. QED
    BY <2>1, <2>2
<1> HIDE DEF w
<1>4. InMemory(u)' = IF w = u THEN InMemory(u) - 5 ELSE InMemory(u)
  <2>1. PointWidth - 5 \in Int
    BY GameAssumption
  <2>2. InMemory(u)' = IF u = w THEN (InMemory(u) + (PointWidth - 5)) % PointWidth
                       ELSE InMemory(u)
    <3>1. v \in User \cup {NoUser} /\ Online(u) /\ PointWidth - 5 \in Int
      BY <2>1, <1>u, <1>v
    <3>2. CASE v \in User
      <4>1. InMemory(u)' = IF u = v THEN (InMemory(u) + d) % PointWidth
                           ELSE InMemory(u)
        <5>1. d \in Int /\ Online(u)
          BY <1>d, <3>1
        <5>2. QED
          BY <5>1, <3>2, <1>t, ScoreMemory
      <4>2. QED
        BY <4>1, <1>v, <1>d
    <3>3. CASE v = NoUser
      <4>1. InMemory(u)' = InMemory(u)
        BY <3>3, <1>t, ScoreNobody
      <4>2. QED
        BY <4>1, <3>3, <1>v, ThreadsAssumption
    <3>4. QED
      BY <3>1, <3>2, <3>3
  <2>3. /\ InMemory(u) \in Nat /\ PointWidth \in Nat
        /\ InMemory(u) < PointWidth /\ InMemory(u) >= 5
    <3>1. /\ InMemory(u) \in Nat /\ PointWidth \in Nat /\ InitPoints[u] \in Nat
          /\ InMemory(u) < PointWidth
          /\ InMemory(u) >= InitPoints[u] - 5 * (wins - ToLose)
          /\ InitPoints[u] >= 5 * MaxWins
          /\ wins \in Nat /\ MaxWins \in Nat /\ wins <= MaxWins
      BY PointsGround
    <3>2. ToLose >= 1
      BY <1>1
    <3>3. QED
      BY <1>1, <3>1, <3>2
  <2>4. \A n, k \in Nat : n < k => (n + k) % k = n
    OBVIOUS
  <2> DEFINE n == InMemory(u) - 5
  <2>5. n \in Nat /\ n < PointWidth
        /\ InMemory(u) + (PointWidth - 5) = n + PointWidth
    BY <2>3
  <2> HIDE DEF n
  <2>6. (n + PointWidth) % PointWidth = n
    BY <2>3, <2>4, <2>5
  <2>7. QED
    BY <2>2, <2>5, <2>6 DEF n
<1>5. QED
  BY <1>4, PointsGround DEF w

LEMMA LoseGamePoints ==
    ASSUME Countable, TypeInv, PointsInv, NEW l \in Loop, loseGame(l)
    PROVE  PointsSound'
<1> DEFINE w == hnd[l].other
<1>s. Score(l, "lose", "tellWin", w, PointWidth - 5)
  BY DEF loseGame, LosePoints
<1>a. /\ hnd[l].pc = "lose" /\ Goto(l, "tellWin")
      /\ UNCHANGED <<wins, db, userConn, userObj>>
  BY <1>s DEF Score, At, handlerVars, sessionVars
<1>1. /\ IsFiniteSet(Entering(Enters)') /\ ToDb \in Nat /\ ToWin \in Nat
      /\ ToLose \in Nat /\ ToDb' \in Nat /\ ToDb' <= ToWin' /\ ToWin' <= ToLose'
      /\ ToDb' = ToDb /\ ToWin' = ToWin /\ ToLose' = ToLose - 1
  BY <1>a, Tallies DEF Enters
<1>2. \A u : /\ Cardinality(WonInDb(u)') = Cardinality(WonInDb(u)) + 0 - 0
             /\ Cardinality(LostInDb(u)')
                  = Cardinality(LostInDb(u)) + 0 - (IF w = u THEN 1 ELSE 0)
  BY <1>a, MoveCounts
<1>3. \A u \in User : Online(u)' = Online(u)
  BY <1>a DEF Online
<1> HIDE DEF w
<1>4. ASSUME NEW u \in User, Online(u)
      PROVE  InMemory(u)' = IF w = u THEN InMemory(u) - 5 ELSE InMemory(u)
  BY <1>4, LoserPays DEF w
<1>5. Covered'
  <2>1. ToLose' <= wins'
    <3>1. ToLose <= wins /\ wins \in Nat
      BY PointsGround DEF PointsInv, PointsSound, Covered
    <3>2. QED
      BY <1>1, <1>a, <3>1
  <2>2. \A u \in User : db'[u] >= InitPoints[u] - LosePoints * (wins' - ToDb')
    BY <1>1, <1>a, PointsGround DEF LosePoints
  <2>3. ASSUME NEW u \in User, Online(u)'
        PROVE  /\ InMemory(u)' >= InitPoints[u] - LosePoints * (wins' - ToLose')
               /\ InMemory(u)' <= InitPoints[u] + WinPoints * (wins' - ToWin')
    <3>1. Online(u) /\ InMemory(u)' = IF w = u THEN InMemory(u) - 5 ELSE InMemory(u)
      BY <1>3, <1>4, <2>3
    <3>2. /\ InMemory(u) \in Nat /\ InitPoints[u] \in Nat /\ wins \in Nat
          /\ InMemory(u) >= InitPoints[u] - 5 * (wins - ToLose)
          /\ InMemory(u) <= InitPoints[u] + 10 * (wins - ToWin)
      <4>1. Online(u)
        BY <3>1
      <4>2. QED
        BY <4>1, PointsGround
    <3>3. QED
      BY <1>1, <1>a, <3>1, <3>2 DEF LosePoints, WinPoints
  <2>4. QED
    BY <1>1, <2>1, <2>2, <2>3 DEF Covered
<1>6. ASSUME NEW u \in User, Online(u)' PROVE Balanced(u)'
  <2>1. /\ Online(u) /\ Cardinality(WonInDb(u)) \in Nat
        /\ Cardinality(LostInDb(u)) \in Nat
        /\ "fail" \notin DbMay =>
              db[u] + 5 * Cardinality(LostInDb(u))
                 = InMemory(u) + 10 * Cardinality(WonInDb(u))
        /\ InMemory(u) \in Nat /\ db[u] \in Nat
    BY <1>3, <1>6, PointsGround
  <2>2. InMemory(u)' = (IF w = u THEN InMemory(u) - 5 ELSE InMemory(u))
    BY <1>4, <2>1
  <2>3. db'[u] = db[u]
    BY <1>a
  <2> QED
    BY <1>2, <2>1, <2>2, <2>3 DEF Balanced, LosePoints, WinPoints
<1>7. QED
  BY <1>1, <1>5, <1>6 DEF PointsSound

\* A login reads the row that nobody has written yet.
LEMMA LoginPoints ==
    ASSUME Countable, TypeInv, PointsInv, GameNext, NEW l \in Loop,
           GameLoginAdd(l)
    PROVE  PointsSound'
<1>w. PICK w : w = io[l].user
  OBVIOUS
<1>a. /\ io[l].pc = "add" /\ hnd' = hnd /\ db' = db /\ wins' = wins
      /\ userConn' = [userConn EXCEPT ![w] = io[l].conn]
      /\ userObj' = [userObj EXCEPT ![w] = Len(heap) + 1]
      /\ info' = Append(info, [state |-> "online",
                               points |-> row[l] % PointWidth])
  BY <1>w DEF GameLoginAdd, LoginAdd, addOnlineUser, InsertEntries
<1>b. /\ info \in Seq(InfoEntry) /\ Len(info) = Len(heap)
      /\ userConn \in [User -> Conn \cup {NoConn}]
      /\ userObj \in [User -> Nat] /\ w \in User
  BY <1>a, <1>w, Ground DEF TypeInv, InfoTypes, SessionsTypeOK, CallbackKnows
<1>1. ~Known(w) /\ row[l] = InitPoints[w] /\ db[w] = InitPoints[w]
  BY <1>a, <1>b, <1>w DEF PointsInv, LoginsFresh
<1>2. WonInDb(w) = {} /\ LostInDb(w) = {}
  <2>1. \A k \in Loop : (Unfound(k) \/ hnd[k].user # w) /\ hnd[k].other # w
    BY <1>1, <1>b, ThreadsAssumption DEF PointsInv, NamesKnown, Names
  <2>2. QED
    BY <2>1 DEF WonInDb, LostInDb, Entering, Unfound
<1>3. row[l] % PointWidth = InitPoints[w]
  <2>1. /\ InitPoints[w] \in Nat /\ PointWidth \in Nat
        /\ InitPoints[w] < PointWidth
    BY <1>b, InitPointsAssumption, GameAssumption
  <2>2. \A n, k \in Nat : n < k => n % k = n
    OBVIOUS
  <2>3. QED
    BY <1>1, <2>1, <2>2
<1>4. InMemory(w)' = InitPoints[w]
  <2>1. userObj'[w] = Len(info) + 1
    BY <1>a, <1>b
  <2>2. info'[Len(info) + 1] = [state |-> "online", points |-> InitPoints[w]]
    BY <1>a, <1>b, <1>3
  <2>3. QED
    BY <2>1, <2>2 DEF InMemory
<1>5. ASSUME NEW u \in User, u # w, Online(u)'
      PROVE  Online(u) /\ InMemory(u)' = InMemory(u)
  <2>1. userObj'[u] = userObj[u] /\ Online(u)
    BY <1>5, <1>a, <1>b DEF Online
  <2>2. userObj[u] \in 1..Len(info)
    BY <2>1, <1>b, OnlineKnown DEF Obj
  <2>3. info'[userObj[u]] = info[userObj[u]]
    BY <2>2, <1>a, <1>b
  <2>4. QED
    BY <2>1, <2>3 DEF InMemory
<1>6. /\ Entering(Enters)' = Entering(Enters)
      /\ ToDb' = ToDb /\ ToWin' = ToWin /\ ToLose' = ToLose
      /\ \A u : WonInDb(u)' = WonInDb(u) /\ LostInDb(u)' = LostInDb(u)
  BY <1>a DEF Entering, ToDb, ToWin, ToLose, WonInDb, LostInDb
<1>7. ASSUME NEW u \in User, Online(u)' PROVE Balanced(u)'
  <2>1. CASE u = w
    <3>1. Cardinality(WonInDb(u)') = 0 /\ Cardinality(LostInDb(u)') = 0
      BY <2>1, <1>2, <1>6, FS_EmptySet
    <3>2. db'[u] = InMemory(u)' /\ db'[u] \in Nat
      BY <2>1, <1>1, <1>4, <1>a, PointsGround
    <3>3. QED
      BY <3>1, <3>2 DEF Balanced, LosePoints, WinPoints
  <2>2. CASE u # w
    <3>1. Balanced(u) /\ InMemory(u)' = InMemory(u)
      BY <2>2, <1>5, <1>7 DEF PointsInv, PointsSound
    <3>2. QED
      BY <3>1, <1>6, <1>a DEF Balanced
  <2>3. QED
    BY <2>1, <2>2
<1>8. Covered'
  <2>1. Covered
    BY DEF PointsInv, PointsSound
  <2>2. /\ ToLose <= wins /\ ToWin <= ToLose /\ wins \in Nat /\ MaxWins \in Nat
        /\ ToWin \in Nat /\ ToLose \in Nat
    <3>1. /\ wins \in Nat /\ MaxWins \in Nat
      BY PointsGround
    <3>2. ToWin \in Nat /\ ToLose \in Nat
      BY Finite DEF ToWin, ToLose, Enters
    <3>3. QED
      BY <2>1, <3>1, <3>2 DEF Covered
  <2>3. ASSUME NEW u \in User, Online(u)'
        PROVE  /\ InMemory(u)' >= InitPoints[u] - LosePoints * (wins - ToLose)
               /\ InMemory(u)' <= InitPoints[u] + WinPoints * (wins - ToWin)
    <3>1. CASE u = w
      <4>1. /\ InMemory(u)' = InitPoints[u] /\ InitPoints[u] \in Nat
            /\ InitPoints[u] >= 5 * MaxWins
        BY <3>1, <1>4, InitPointsAssumption DEF Countable, LosePoints
      <4>2. QED
        BY <4>1, <2>2 DEF LosePoints, WinPoints
    <3>2. CASE u # w
      BY <3>2, <2>1, <2>3, <1>5 DEF Covered
    <3>3. QED
      BY <3>1, <3>2
  <2>4. QED
    BY <2>1, <2>3, <1>6, <1>a DEF Covered
<1>9. QED
  BY <1>6, <1>7, <1>8 DEF PointsInv, PointsSound

LEMMA PointsStep ==
    ASSUME Countable, TypeInv, PointsInv, [GameNext]_allVars
    PROVE  PointsInv'
<1>1. ASSUME GameNext PROVE PointsInv'
  <2>1. ExclusiveInv'
    BY <1>1, Lifted, ExclusiveStep
       DEF Countable, TypeInv, SessionsSound, PointsInv
  <2>2. NamesKnown'
    BY <1>1, NamesStep
  <2>3. LoginsFresh'
    BY <1>1, LoginsFreshStep
  <2>4. PointsSound'
    <3>1. CASE \E l \in Loop : Updates(l)
      BY <3>1, DbWinPoints, DbLosePoints, WinGamePoints, LoseGamePoints
         DEF Updates
    <3>2. CASE \E l \in Loop : GameLoginAdd(l)
      BY <1>1, <3>2, LoginPoints
    <3>3. CASE wins' # wins
      <4>1. PICK l \in Loop : handChess(l)
        BY <1>1, <3>3, WhoWrites
      <4>2. QED
        BY <4>1, <3>3, HandChessPoints
    <3>4. CASE /\ wins' = wins
               /\ \A l \in Loop : ~Updates(l) /\ ~GameLoginAdd(l)
      BY <1>1, <3>4, QuietPoints
    <3>5. QED
      BY <3>1, <3>2, <3>3, <3>4
  <2>5. QED
    BY <2>1, <2>2, <2>3, <2>4 DEF PointsInv
<1>2. ASSUME UNCHANGED allVars PROVE PointsInv'
  <2>1. UNCHANGED <<link, conns, connLock, userConn, connUser, userObj, userLock,
                    heap, io, hnd, pool, mt, rooms, info, row, db, wins>>
    BY <1>2 DEF allVars, sessionVars, roomVars, matchVars, gameVars
  <2>2. ExclusiveInv'
    BY <2>1, ExclusiveStep
       DEF Countable, TypeInv, SessionsSound, PointsInv, sessionVars
  <2>3. NamesKnown'
    BY <2>1 DEF PointsInv, NamesKnown, Unfound, Names, Known, Obj, Players
  <2>4. LoginsFresh'
    BY <2>1 DEF PointsInv, LoginsFresh, Known, Obj
  <2>5. PointsSound'
    BY <2>1 DEF PointsInv, PointsSound, Balanced, Covered, Online, InMemory,
       Entering, ToDb, ToWin, ToLose, WonInDb, LostInDb
  <2>6. QED
    BY <2>2, <2>3, <2>4, <2>5 DEF PointsInv
<1>3. QED
  BY <1>1, <1>2

\* Who is online and not in a game that is being scored has as many points in
\* memory as in the database.  UserDB and UserManager are changed one after the
\* other, winner and loser one after the other, by loops that may do so for
\* different games at the same time, and loseGame of the two differ: the one
\* stops at 0, the other subtracts from an unsigned number.
THEOREM PointsStayEqual ==
    ASSUME Countable, "fail" \notin DbMay
    PROVE  GameSpec => []PointsAgree
<1>1. TypeInv /\ PointsInv => PointsAgree
  <2> SUFFICES ASSUME TypeInv, PointsInv, NEW u \in User, Online(u), ~Scoring(u)
               PROVE  info[userObj[u]].points = db[u]
    BY DEF PointsAgree
  <2>1. WonInDb(u) = {} /\ LostInDb(u) = {}
    BY DEF Scoring, WonInDb, LostInDb, Entering
  <2>2. Cardinality(WonInDb(u)) = 0 /\ Cardinality(LostInDb(u)) = 0
    BY <2>1, FS_EmptySet
  <2>3. /\ db[u] \in Nat /\ InMemory(u) \in Nat
        /\ db[u] + 5 * Cardinality(LostInDb(u))
              = InMemory(u) + 10 * Cardinality(WonInDb(u))
    BY PointsGround
  <2>4. QED
    BY <2>2, <2>3 DEF InMemory
<1>2. GameInit => TypeInv /\ PointsInv
  BY TypeInit, PointsInit
<1>3. TypeInv /\ PointsInv /\ [GameNext]_allVars => (TypeInv /\ PointsInv)'
  BY TypeStep, PointsStep
<1>4. QED
  BY <1>1, <1>2, <1>3, PTL DEF GameSpec

\* No loss leaves a player with more points than before it: what GameAtZero.cfg
\* finds takes a player with fewer than 5 points for each loss to come.
THEOREM LosingCosts ==
    ASSUME Countable
    PROVE  GameSpec => LosingCostsPoints
<1> DEFINE Costs == \A l \in Loop : loseGame(l) => \A o \in 1..Len(info) :
                        info'[o].points <= info[o].points
<1>1. ASSUME TypeInv, PointsInv, NEW l \in Loop, loseGame(l), NEW o \in 1..Len(info)
      PROVE  info'[o].points <= info[o].points
  <2>1. /\ info \in Seq(InfoEntry) /\ Len(info) = Len(heap) /\ Obj = 1..Len(info)
        /\ hnd[l].other \in User \cup {NoUser}
    BY <1>1 DEF TypeInv, InfoTypes, Obj, HandlerTypes, HandlerState
  <2>2. info[o].points \in Nat
    <3>1. info[o] \in InfoEntry
      BY <2>1, ElementOfSeq
    <3>2. QED
      BY <3>1 DEF InfoEntry
  <2>3. PICK v \in User \cup {NoUser}, d \in Int :
          v = hnd[l].other /\ d = PointWidth - LosePoints
    BY <2>1, GameAssumption DEF LosePoints
  <2>4. Score(l, "lose", "tellWin", v, d)
    BY <1>1, <2>3 DEF loseGame, Score
  <2>5. CASE v = NoUser
    <3>1. info' = info
      BY <2>4, <2>5 DEF Score, RacyFind
    <3>2. QED
      BY <2>2, <3>1
  <2>6. CASE v \in User
    <3>1. info'[o].points = IF o = userObj[v] THEN (info[o].points + d) % PointWidth
                            ELSE info[o].points
      BY <1>1, <2>1, <2>4, <2>6, ScoreObjects
    <3>2. CASE o # userObj[v]
      BY <2>2, <3>1, <3>2
    <3>3. CASE o = userObj[v]
      <4>1. Online(v)
        <5>1. o # NoObj
          BY <2>1 DEF NoObj
        <5>2. QED
          BY <1>1, <2>6, <3>3, <5>1, Ground DEF OnlineTogether
      <4>2. InMemory(v)' = InMemory(v) - 5
        BY <1>1, <2>3, <2>6, <4>1, LoserPays
      <4>3. userObj' = userObj
        BY <2>4 DEF Score, handlerVars, sessionVars
      <4>4. info'[o].points = info[o].points - 5
        BY <3>3, <4>2, <4>3 DEF InMemory
      <4>5. QED
        BY <2>2, <4>4
    <3>4. QED
      BY <3>2, <3>3
  <2>7. QED
    BY <2>5, <2>6
<1>2. TypeInv /\ PointsInv => [Costs]_allVars
  BY <1>1
<1>3. GameInit => TypeInv /\ PointsInv
  BY TypeInit, PointsInit
<1>4. TypeInv /\ PointsInv /\ [GameNext]_allVars => (TypeInv /\ PointsInv)'
  BY TypeStep, PointsStep
<1>5. GameSpec => [][Costs]_allVars
  BY <1>2, <1>3, <1>4, PTL DEF GameSpec
<1>6. QED
  BY <1>5 DEF LosingCostsPoints
=============================================================================
