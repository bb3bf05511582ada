------------------------------- MODULE Rooms --------------------------------
(***************************************************************************)
(* GameRoomManager: the rooms, which room a user is in, and the exit of a  *)
(* user from a room.  createRoom and the lookups are one critical section  *)
(* of m_mutex each; removeUser holds it over its call to                   *)
(* UserManager::setUserState, so it is two steps.                          *)
(*                                                                         *)
(* The constructor of GameRoomInfo leaves _roomCount unset: a new room     *)
(* starts with any of InitialCounts, the values the heap may hold there.   *)
(* passiveRemoveRoom locks m_mutex again in the thread that already holds  *)
(* it (removeUser is its only caller); the mutex is not recursive, so the  *)
(* thread waits for itself: "relock" has no way out.                       *)
(***************************************************************************)
EXTENDS Threads, Naturals, Sequences

CONSTANTS
    InitialCounts,   \* values an unset _roomCount may have
    CountWidth,      \* _roomCount is CountWidth-valued: 2^32 in the code
    MaxRooms         \* bound on the rooms a behaviour creates

ASSUME RoomsAssumption ==
    /\ CountWidth \in Nat \ {0}
    /\ InitialCounts \subseteq 0..(CountWidth - 1) /\ InitialCounts # {}
    /\ MaxRooms \in Nat

VARIABLES
    rooms,       \* GameRoomInfo objects, in order of their room id
    roomOf,      \* m_userId2Room: a room id, or NoRoom
    roomIds,     \* the keys of m_roomId2Room
    roomLock,    \* the thread that holds m_mutex over two steps
    leaver       \* where its removeUser stands

roomVars == <<rooms, roomOf, roomIds, roomLock, leaver>>

NoRoom == 0
NoLeaver == [pc |-> "none", user |-> NoUser]

RoomsTypeOK ==
    /\ rooms \in Seq([white : User, black : User, count : 0..(CountWidth - 1)])
    /\ roomOf \in [User -> 0..Len(rooms)]
    /\ roomIds \subseteq 1..Len(rooms)
    /\ roomLock \in Loop \cup {NoThread}
    /\ leaver \in [pc : {"none", "state", "relock"}, user : User \cup {NoUser}]

RoomsInit ==
    /\ rooms = <<>>
    /\ roomOf = [u \in User |-> NoRoom]
    /\ roomIds = {}
    /\ roomLock = NoThread
    /\ leaver = NoLeaver

RoomMapsFree == roomLock = NoThread

Players(r) == {rooms[r].white, rooms[r].black}
getOtherId(r, u) == IF u = rooms[r].white THEN rooms[r].black ELSE rooms[r].white
getUserIdFromOtherId(u) ==
    IF u = NoUser THEN NoUser
    ELSE IF roomOf[u] = NoRoom THEN NoUser ELSE getOtherId(roomOf[u], u)

\* Both users are filed under room r.  Mutant: only the first.
FileBoth_First(u1, u2, r) == roomOf' = [roomOf EXCEPT ![u1] = r]
FileBoth(u1, u2, r) == roomOf' = [roomOf EXCEPT ![u1] = r, ![u2] = r]

createRoom(u1, u2) ==
    /\ RoomMapsFree
    /\ Len(rooms) < MaxRooms
    /\ \E n \in InitialCounts :
          rooms' = Append(rooms, [white |-> u1, black |-> u2, count |-> n])
    /\ FileBoth(u1, u2, Len(rooms) + 1)
    /\ roomIds' = roomIds \cup {Len(rooms) + 1}
    /\ UNCHANGED <<roomLock, leaver>>

\* --_roomCount on an unsigned number.
subCount(n) == (n + CountWidth - 1) % CountWidth

\* removeUser of a user that is in no room returns at once.
removeUserAbsent(u) ==
    /\ RoomMapsFree
    /\ u = NoUser \/ roomOf[u] = NoRoom
    /\ UNCHANGED roomVars

\* The user leaves the map and the (unsigned) count goes down; at zero the
\* thread calls passiveRemoveRoom and never returns from it.
removeUser(l, u) ==
    LET r == roomOf[u]
        n == subCount(rooms[r].count)
    IN  /\ RoomMapsFree
        /\ u # NoUser /\ r # NoRoom
        /\ rooms' = [rooms EXCEPT ![r].count = n]
        /\ roomOf' = [roomOf EXCEPT ![u] = NoRoom]
        /\ roomLock' = l
        /\ leaver' = [pc |-> IF n = 0 THEN "relock" ELSE "state", user |-> u]
        /\ UNCHANGED roomIds

\* removeUser returns, after setUserState(userId, ONLINE).
removeUserDone(l) ==
    /\ roomLock = l /\ leaver.pc = "state"
    /\ roomLock' = NoThread
    /\ leaver' = NoLeaver
    /\ UNCHANGED <<rooms, roomOf, roomIds>>

RoomsNext ==
    \/ \E u1, u2 \in User : u1 # u2 /\ createRoom(u1, u2)
    \/ \E l \in Loop, u \in User : removeUser(l, u)
    \/ \E l \in Loop : removeUserDone(l)

RoomsSpec == /\ RoomsInit /\ [][RoomsNext]_roomVars
             /\ \A l \in Loop : WF_roomVars(removeUserDone(l))

-----------------------------------------------------------------------------
\* "Passive removal of a room, triggered when nobody is in it"
\* (GameRoomManager.h:19): a room both players left goes away.
EmptyRoomsGoAway ==
    \A r \in 1..MaxRooms :
        (r \in roomIds /\ \A u \in User : roomOf[u] # r) ~> r \notin roomIds
=============================================================================
