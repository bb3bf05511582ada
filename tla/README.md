# GomukuServer: specification and verification

TLA+ modules for GomukuServer, a Gomoku (five in a row) game server in C++:
an event-driven network library (`MyMuduo/`), a MySQL connection pool
(`MysqlConnectionPool/`) and the server itself (`GameServer/`).  All paths below
are relative to `src/GomukuServer/`.  About 4400 lines are the program's own;
`build/` is generated.  The repository has no tests, so what the program should
do is read from its code, its comments and the way its parts use each other.

Contents

1. The system: components, state, operations, interaction
2. What is hard about it
3. What makes each component correct
4. Modules, and how they correspond to the code
5. Runs: what each one checks, its bounds, what it shows
6. Counterexamples
7. Fairness
8. Proofs
9. What is left out, and why
10. Plan

To check a run: `tlc -config GameTwo.cfg MCGameServer`; to check the proofs:
`tlapm SessionsProofs.tla`, and so for `GameTypes` and every module named
`...Proofs` (the largest, `GameProofs`, takes about a quarter of an hour).

## 1. The system

Threads: the main loop (accepts connections), three IO loops
(`GameServer/net/GameServer.cc:20`), the match thread of `MatchPool`, and the
producer and the scanner thread of the MySQL pool.  Every connection belongs to
one IO loop for life.

| Component | State | Operations |
|---|---|---|
| `EventLoop`, `EventLoopThread` | `_pendingFunctors_`, `_callingPendingFunctors_`, `_quit_`, the eventfd | `loop`, `quit`, `runInLoop`, `queueInLoop`, `wakeup`, `doPendingFunctor`, `startLoop` |
| `EPollPoller`, `Poller`, `Channel` | `_channelmap_`, the event list, `_events_` and `_index_` of a channel | `poll`, `updateChannel`, `removeChannel`, `HandlerEvent` |
| `TcpServer`, `Acceptor`, `EventLoopThreadPool` | the connection maps, the listening socket, `_next_` | `start`, `listen`, `handlerRead`, `newConnection`, `getNextLoop`, `removeConnection` |
| `TcpConnection` | `_state_`, `_outputBuffer_` | `send`, `sendInLoop`, `handleRead`, `handleWrite`, `handlerClose`, `shutdown`, `connectEstablished`, `connectDestroyed` |
| `Buffer` | vector, `_readerIndex_`, `_writerIndex_` | `append`, `retrieve`, `retrieveAll`, `readfd` |
| `TimerWheel` | `_wheel_`, `_tick_`, `_weak_ptr_map_` | `TimerTaskAdd`, `TimerTaskRefresh`, `TimerTaskCancel`, `OnTime`, `WheelRunOne` |
| `Socket`, `InetAddress`, `Thread` | a descriptor | wrappers of system calls |
| `ProtocolDispatcher` | `m_handlerMap`, filled before start | `dispatch`: frames out of the input buffer |
| `ConnManager` | `m_conns` | `addConn`, `removeConn` |
| `UserManager` | `m_UserId2Conn`, `m_Conn2UserId`, `m_UserId2User` | `addOnlineUser`, `removeOnlineUser`, getters, `setUserState`, `winGame`, `loseGame` |
| `UserHandler`, `UserDB` | the database | `onLogin`, `onRegister` |
| `MatchPool`, `MatchHandler` | `m_matchPool`: a list per tier | `addUser`, `removeUser`, `matchThread`; `onMatch`, `onCancelMatch` |
| `GameRoomManager` | `m_roomId2Room`, `m_userId2Room` | `createRoom`, `removeUser`, `passiveRemoveRoom`, lookups |
| `GameRoomInfo` | `_board`, `_roomCount` | `handleChess`, `checkWin`, `five`, `subCount` |
| `GameRoomHandler` | none of its own | `onChess`, `onChat`, `onExitRoom` |
| `MysqlConnectionPool` | `_connectionQue`, `_connectionCnt` | `getMysqlConnection` and the deleter, producer, scanner |

How they interact.  The main loop accepts a client, gives its connection the next
IO loop and queues `connectEstablished` there.  Bytes reach a loop through `TcpConnection::handleRead`, are
framed by `ProtocolDispatcher::dispatch` and handed to a handler, which runs to
its end in the loop of the connection.  Handlers of different loops share the
managers; each manager has one mutex.  `MatchPool`'s thread waits on a condition
variable, pairs users, and calls `UserManager`, `GameRoomManager` and
`TcpConnection::send`, which from a foreign thread becomes a functor in the
loop's `_pendingFunctors_`.  When a connection closes, `handlerClose` hands it
to the main loop, which takes it out of its map and hands `connectDestroyed`
back to the IO loop; the callback of a connection that is down calls
`ConnManager::removeConn`, which (still holding its mutex) empties
`UserManager`.

## 2. What is hard about it

`PROJECT.json` lists forty hazards, each at its line.  In short:

* **Interleaved handlers.**  A handler looks up a user, a connection or a room
  under a mutex and uses it after the mutex is released: the match thread
  does so with connections and `UserInfo` pointers, `onChess` with rooms.
* **Unlocked searches.**  `setUserState`, `winGame` and `loseGame` search
  `m_UserId2User` without `UserManager`'s mutex (`manager/UserManager.cc:82`).
* **A mutex taken twice** by one thread: `passiveRemoveRoom` under `removeUser`.
* **Uninitialized data**: `_roomCount` of a new room.
* **Messages out of order**: "you are matched" travels through a queue, the
  answer to a cancel is written at once.
* **Disconnects** at every point: while a user waits in the pool, is being
  paired, or plays.
* **Write paths**: partial writes, writes to a peer that is gone, a shutdown
  with output queued, functors bound to a bare `this`.
* **Framing**: reads end anywhere.
* **Resources at their limit**: the MySQL pool at `maxSize`, its timeout and
  two roles on one condition variable; no descriptor left for `accept`; an event
  list with room for fewer channels than are ready.
* **Descriptors that are reused** while functors, lists of active channels and a
  poller's map may still name the connection that had them.
* **Boundaries**: unsigned points below zero, edges of the board, a timeout as
  long as the timer wheel, indices of the buffer.
* **Requests before a login or with the id of somebody else**: `onMatch` and
  `onCancelMatch` look neither at the connection nor at the id.
* **A missing resource that is used all the same**: a null connection of the MySQL
  pool, a null `UserInfo`.

## 3. What makes each component correct

* Sessions: a session is in all the maps or in none; it ends with its connection,
  and only then; callbacks end.
* Rooms and matchmaking: a user is in the pool at most once and exactly while it
  is searching; a pair is eventually taken; whoever plays has a room; what
  clients were told is true and in an order they can follow; while nobody hangs up
  the match thread finds both players it has taken.
* Game: a move, chat or exit concerns the room of its sender; memory and
  database agree on points; the winner is the one with five in a row.
* EventLoop: functors run in order, once, soon; `quit` is obeyed.
* TcpConnection: output leaves in order and completely; it is watched for while
  there is some; the write side is shut down after the last byte; a peer's error
  stays its own.
* TcpServer, EPollPoller, Channel: what a channel says of itself is what epoll has;
  nothing names a connection that is gone; descriptors come back, and clients
  that wait are accepted.
* Buffer: a byte queue.  Dispatcher: each complete frame is handled, exactly
  once, in order.
* TimerWheel: a task ends at its time, a silent connection is shut down, a live
  or destroyed one is not.
* MysqlConnectionPool: a connection has one user; none is lost, so the queue is
  empty only while enough are in use; a call returns when queries end, unless
  others take connections before it for ever.

## 4. Modules

```
Threads --+-- Sessions ----+-- Matchmaking ---- GameServer        Board
          |      |         |        |            |     |         |     |
          |  MCSessions    |  MCMatchmaking      | MCGameServer  | MCBoard
          |      |         |                     |               |
          |      |         |                 GameTypes      BoardProofs
          |  SessionsProofs|                 |       |
          |      |         |                 |   GameProofs
          |      +---------|-----------------+
          +-- Rooms -------+

TaskQueue <= EventLoop       ByteQueue <= Dispatcher      (<= : is implemented by)
                 |                            |
                 |           Buffer ----------+
                 |             |              |
                 |        TcpConnection       |
                 |             |              |
             LoopProofs        +-- StreamProofs
                 |
             TimerWheel        TcpServer          MysqlPool
                                   |                  |
                              ServerProofs       PoolProofs
```

A module of proofs extends the modules whose theorems it proves: LoopProofs those
of EventLoop and TimerWheel, StreamProofs those of Buffer, Dispatcher and
TcpConnection, GameTypes and GameProofs those of GameServer (and with it of Rooms
and Matchmaking), whose steps contain those of Sessions.

`PROJECT.json` ("map") gives for every definition the lines it stands for.

**Threads** declares the loops, the match thread and the users.

**Sessions** models `ConnManager`, the maps of `UserManager`, `onLogin` and the
connection callback (`GameServer.cc`).  Each loop has a program counter (`io`); a step is one
critical section.  Two locks are variables because they are held across a further
step: `connLock` (`removeConn` calls `UserManager` under it) and `userLock`, which
the writers take in one step and use in the next so that the unlocked searches of
GameServer can fall in between.  Elsewhere the acquisition of a lock is merged
with the first access under it, which is sound because the critical section
is a leaf: it takes no other lock and touches nothing that is not behind it.
`removeOnlineUser` reads an iterator it has just erased
(`manager/UserManager.cc:28-29`); the build's freed node keeps its fields, so the
outcome is the one intended, and the step has just that outcome.  The constant
`Logins` says what clients do: `"any"` (log in when they like), `"exclusive"`
(a connection logs in once, a user only when it is not online), `"once"` (each
user logs in once).

**Rooms** models `GameRoomManager` and `_roomCount`.  A room is created with any
count of `InitialCounts`, since the constructor sets none.  `removeUser` is two
steps, as it calls `setUserState` under its mutex; a third program point,
`relock`, is the wait of a thread for the mutex it holds.

**Matchmaking** composes the two with `MatchPool` and `MatchHandler`.  `mt` is the
match thread (the variables of its loop and where it stands), `hnd` the handler
of each loop, `pending` the messages queued for it, of which `batch` are those the
loop has swapped out in `doPendingFunctor` and writes one a step.  A client has a view
(`client`) built from the messages it got, and asks only for what that view
allows, for its own user id, one request at a time.  On the connections in
`Strangers` a start or a cancel may also come before the login, with any user id
(`ForeignRequest`).  (Requests of a game room need no such variant: their handlers
take the sender from the connection, not from the message.)  A dereferenced null
`UserInfo` ends the process (`crashed`).

**GameServer** adds moves, chat, leaving a room, points in memory (`info`) and in
the database (`db`), and the unlocked searches: `RaceMay` lists the bad outcomes
a run allows them.  `DbMay` lists what the database may do: `"fail"`, an UPDATE that
is lost, and `"null"`, a call of `getMysqlConnection` that returns nullptr, which all
three callers dereference (`NullConnection`).  A login puts the points its query found into `info` (`row`
keeps them in between); points in memory are modulo `PointWidth`.

**Board** models `handleChess`, `checkWin` and `five`.  Clients take turns and use
empty squares (neither is looked at by the room: `isValidPosition` has no
caller).  The reference definition is "five adjacent stones of one colour that
contain the last one"; six in a row is no win in the code and in `WinIsRowOfFive`
neither.  Who starts is not specified by the code and arbitrary here.

**TaskQueue / EventLoop.**  TaskQueue is the promise: tasks run in the order in
which they were queued, each once.  EventLoop is one loop with its thread, other
threads that queue functors, functors and callbacks that queue more, the eventfd
as a flag, and the owner that starts it and makes it quit.

**Buffer** has no state: a buffer is a record (the vector with its two indices),
and `append`, `makePlace` with its move to the front, `retrieve`, `retrieveAll` and
`readfd` with its overflow area are operators on it.  Dispatcher and TcpConnection
keep such records, so each of their steps includes what it does to the vector.

**ByteQueue / Dispatcher.**  ByteQueue is the promise: bytes come out in the order in
which they went in, none lost, none twice.  Dispatcher models `handleRead` with
`dispatch`: the n-th byte of the stream has the value n, `given` are the bytes that
have left the buffer.  `handled` records which frame each handled message was (or
that it was mixed together from two, with bytes that an earlier frame left in the
vector).  `gentle` is history: so far every read ended at the end of a frame or
within its header.

**TcpConnection** models one connection from `newConnection` to its destructor,
with its loop, the main loop, the senders, the socket and the peer.

**TcpServer** models how clients get a descriptor, a connection and a loop, and how
all of it is given back: the accepting main loop, `getNextLoop`, the poller of every
loop (`watch` is what epoll has, `room` the size of the event list, `active` the
channels a poll returned), the channels' `_events_` and `_index_`, the functors
`connectEstablished`, `removeConnectionInLoop` and `connectDestroyed`, and everybody
who holds a connection: the maps of the server, the managers, queued functors, a
functor that ran in a batch that has not ended, a handler of another thread.  When
the last of them lets go the descriptor is closed, in whatever thread that is
(`Descriptors`).  A close empties `UserManager` by user id, so the maps may keep a
connection that is closed when its user has logged in on another one, or another
user on it (`manager/UserManager.cc:16`, `:22-33`): such connections are in
`Lingering` and stay in `held` until `Forget`, which may never come.  A failed `epoll_ctl` ADD or MOD ends the process (`fatal`).  The two
models of a connection divide the work: TcpConnection has its data, TcpServer its
channel and its life.

**TimerWheel** models the wheel and the inactive release that uses it; `OnTime`
and each of the steps it makes are steps of their own, during which the loop does
nothing else.

**MysqlPool** models the constructor, the consumers, the producer and the scanner.
Without its `Mysql.ini` the constructor returns at once (`configured`): there are no
connections and no threads, and every call times out.  What `connect()` returns is
ignored by the code, so a connection is pooled whether or not it reached the
database; its queries fail, which is `DbMay` of GameServer.

## 5. Runs

All configurations say `CHECK_DEADLOCK FALSE`: clients may stop asking, the
process may end, and the counters that bound a behaviour run out.  That nobody
waits for ever is stated by the liveness properties `CallbacksEnd`,
`RequestsAnswered`, `CallsReturn`, `EveryFunctorRuns` and `FdsComeBack`.

| Run | States | Shows |
|---|---|---|
| `SessionsExclusive` | 4,083 | a session is in all three maps and in its `UserInfo`, or in none of them (`SessionWhole`); locks exclude (`LocksHeld`); after a close has been handled nobody is online through the connection (`CloseRemovesPlayer`); callbacks end (`CallbacksEnd`) |
| `MatchTwo` | 87,042 | while nobody hangs up the match thread finds the connection and the `UserInfo` of both it has taken (`PairIsOnline`); two users in one tier are taken from the pool (`PairsAreTaken`); requests are answered (`RequestsAnswered`) |
| `MatchDropped` | violation | a user that disconnects in the pool gets a room (`RoomOnlyWhenNobodyDropped`), see 6 |
| `GameTwo` | 671,252 | points in memory and in the database agree whenever no update of them is under way (`PointsAgree`) |
| `GameAgain` | 578,196 | whoever plays has a room (`GamingHasRoom`); a search from the lobby is accepted (`StartAccepted`); nobody is queued twice (`QueuedOnce`); who is "matching" is in the pool or being paired (`MatchingIsQueued`); clients get messages in an order they understand (`ClientsNotConfused`); whoever was told of a room has it (`ToldMeansRoom`) |
| `LoopQueue` | 2,873 | functors run in order, once (`Implements`); none waits for epoll's ten seconds (`NoFunctorStranded`); each runs (`EveryFunctorRuns`); a running loop quits (`QuitStopsRunningLoop`) |
| `PoolAny` | 46,000 | a connection has one user (`ConnectionsAreExclusive`); the queue of a pool that has started is empty only while at least `InitSize` connections are in use, whatever the scanner deleted and whoever timed out (`ShortOnlyWhenInUse`); the head of the queue is the oldest, on which the scanner relies (`HeadIsOldest`); a call returns unless others take connections for ever (`CallsReturn`) |
| `DispatchAnywhere` | 7,017 | no frame is skipped or handled twice (`NoneSkipped`); what has arrived is handled as long as reads end gently (`ArrivedIsHandled`); the input buffer implements ByteQueue (`BufferIsQueue`) |
| `WheelTimes` | 42,524 | a task ends at the right step of the wheel (`TaskEndsOnTime`); a destroyed connection is not shut down (`NoShutdownAfterDestroy`); a silent one is (`SilentIsShutDown`) |
| `TcpClose` | 52,380 | output is in order (`OutputInOrder`); EPOLLOUT is asked for exactly when it is needed (`OutputIsWatched`); shutdown after flush (`FlushedBeforeShutdown`) |
| `ServerReuse` | 53,558 | channels and epoll agree and no `epoll_ctl` fails (`PollerAgrees`); nothing names a connection that is gone (`NothingDangles`); the descriptors of connections that `UserManager` lets go come back (`FdsComeBack`); clients that were refused for want of a descriptor are accepted later (`WaitingAreAccepted`) |
| `BoardLines` | 198,772 | a win is reported exactly for a row of five (`WinIsRowOfFive`) |

Bounds, and why they suffice:

* `SessionsExclusive`: three connections on two loops, two users, three
  `UserInfo` objects (`MaxLogins`).  Two connections share a loop and one does
  not, so callbacks both follow and overlap each other; a user can return on
  another connection.  The run has `Logins = "exclusive"`, as with any logins the
  code breaks `SessionWhole` and `CloseRemovesPlayer`: `addOnlineUser` writes over
  the entries of a second login and leaves the former ones behind.  What this run
  shows for three connections the proofs show for any number.
* `MatchTwo`: two users, each connection on a loop of its own, two rooms, any
  logins (two in all), and requests with foreign or unknown ids on one connection
  (`Strangers`).  A pair needs two; with liveness a third user is out of reach.
* `GameTwo`, `GameAgain`: two users on two loops.  `Points = 1990` puts them ten
  below a tier boundary, so a win changes the tier.  `MaxRooms = 2` in
  `GameAgain` allows a second match after the first; `MaxWins = 1` bounds winning moves,
  `MaxBacklog = 1` what clients ask while messages wait for a loop.  The two
  runs divide what clients in a room ask for (moves and exits; chat and exits).
  Users are interchangeable (symmetry; these runs check invariants only).
  `InitialCounts = {0}` in these runs: `subCount` then wraps, and the thread does not
  reach `relock`; the other value is the subject of `RoomsNeverGoAway`.
  `DbMay = {"null"}`: the pool may come up empty for any query, and the process dies.
* `LoopQueue`: two producers and four functors: two queue calls race for the
  eventfd while `doPendingFunctor` runs a functor that queues another.
* `PoolAny`: two to three connections for four threads that call as often as they
  like, so that the pool grows, reaches its limit with a thread waiting, keeps
  waking it, and calls time out; `MaxMade = 5` lets the scanner delete and the
  producer make new ones.  The shipped `Mysql.ini` (10 initial, 1024 at most) meets
  the same cases only with more threads than the server has.
* `DispatchAnywhere`: four frames with bodies of one, three (the largest
  allowed) and four (too large) bytes behind a header of two.  The vector starts
  with room for four bytes: it is set back and grown, and `readfd` reads into its
  overflow area.  A frame is taken only when nothing lies behind it, so the vector
  is never moved to the front here; that branch of `makePlace` is met in `TcpClose`.
* `WheelTimes`: three slots, a timeout as long as the wheel, five seconds, two
  connections: the wheel turns more than once and a task is refreshed before
  and after a step.
* `TcpClose`: three messages of two units from two threads, so that a write can
  stop within one, and an output buffer with room for three units, so that it
  has to move and to grow.
* `ServerReuse`: three clients for two descriptors: one client has to wait, and a
  descriptor is used again while others are in use.  Two IO loops, so that two of
  the connections share one; event lists with room for a single channel, so that
  a round cannot see all that is ready.  Clients one and three are `Busy` (they
  send, are used by other threads, have output to write), the second only comes
  and goes, and may linger in `UserManager` for ever.
* `BoardLines`: a board of seven by seven; stones on a row and a column at the
  edges, or on two diagonals (`Layouts`).  All four directions and the edges occur;
  a line of seven has room for six in a row.

## 6. Counterexamples

The following configurations each check one more property.  TLC finds it
violated, and the trace it prints shows a behaviour of the code worth knowing.
Nearly all of these properties take a comment of the source for a promise; the
comment is quoted, with its line, above the property, and in that reading the code
contradicts it.  `MatchDropped`, whose comment leaves no other reading, is a run of
the project.  `WheelLong` and `SessionsSharedConn` check a property of a run outside
the bounds under which it holds.

| Configuration (module) | Property | What the trace shows |
|---|---|---|
| `MatchDropped` (MCMatchmaking) | `RoomOnlyWhenNobodyDropped` | comments at `module/MatchHandler.cc:106` and `:123` say that it is judged first whether anybody dropped out, and that a room is created when nobody did; a disconnect takes nobody out of the pool, and after the branch for a dropped user (it ends at `:121`) the code goes on to create the room |
| `SessionsSharedConn` (MCSessions) | `CloseRemovesPlayer` | two users log in on one connection; its close removes only the second |
| `SessionsStaleClose` (MCSessions) | `OnlyOwnCloseEndsSession` | a user logs in on a second connection; the close of the first takes it offline |
| `RoomsNeverGoAway` (Rooms) | `EmptyRoomsGoAway` | with a count of 2 the last exit calls `passiveRemoveRoom`, which locks the mutex the thread holds |
| `MatchSelf` (MCMatchmaking) | `OtherUserIsAnother` | a user that searched, dropped and returned is in the pool twice and is its own opponent |
| `GameTierDrift` (MCGameServer) | `CancelLeavesPool` | points change while a user is in the pool; a cancel looks in the list of its new tier |
| `GameAtZero` (MCGameServer) | `LosingCostsPoints` | a player without points loses: memory wraps around (`model/UserInfo.cc:12`) |
| `GameRace` (MCGameServer) | `NoUnlockedSearch` | a search of `m_UserId2User` while a login or a close changes it |
| `GameStranger` (MCGameServer) | `MoveStaysInRoom` | a player that left a room plays elsewhere; its former opponent's move reaches it there |
| `LoopQuit` (EventLoop) | `QuitIsObeyed` | `quit` before `loop` starts is forgotten, as `loop` clears the flag |
| `PoolScanner` (MysqlPool) | `ScansOnlyIdle` | the scanner calls `front()` of an empty queue |
| `PoolSleeps` (MysqlPool) | `WaitingProducerHasStock` | the scanner deletes the last idle connection and wakes nobody: the producer sleeps beside an empty queue |
| `PoolTimeout` (MysqlPool) | `TimeoutEndsCall` | every wakeup restarts the timeout of a call |
| `DispatchSplit` (Dispatcher) | `OnlyWholeFramesConsumed` | a read ends within a body: the part is taken as the message |
| `DispatchTogether` (Dispatcher) | `CompleteFramesAreTaken` | the comparison at `net/ProtocolDispatcher.cc:39` is the other way round: of two frames that arrive together the first is not taken |
| `WheelLong` (TimerWheel) | `TaskEndsOnTime` | a timeout longer than the wheel ends a turn early |
| `WheelLate` (TimerWheel) | `NotShutDownEarly` | when the loop is late a connection is shut down before its time |
| `TcpDangling` (TcpConnection) | `LivesInCallbacks` | `sendInLoop`, bound to a bare `this`, runs after the destructor |
| `TcpPeerGone` (TcpConnection) | `PeerErrorIsLocal` | a write to a peer that reset raises SIGPIPE, which nothing ignores |
| `TcpShutdown` (TcpConnection) | `ShutdownEndsWriting` | a message queued before `shutdown` is written after it, to a socket whose write side is closed |

## 7. Fairness

* Every thread that can run does (weak fairness for each loop, the match thread,
  the pool's threads): the operating system schedules them.
* A loop's round handles every ready connection and every pending functor, so
  in `Matchmaking` a request that is there and the functors of a loop are strongly fair:
  the loop may be busy at any moment, but it comes back to each of them.
* Mutexes are not fair.  `PairsAreTaken` and `RequestsAnswered` therefore allow one
  excuse, clients that search and cancel for ever and so keep the mutex of
  `MatchPool` busy (`EndlessRequests`).
* The pool's mutex is not fair either: `CallsReturn` excuses a call that is kept
  out by others that take connections for ever.  It assumes that queries end
  (`ReleaseFairness`); `PoolTimeout` shows what happens when they do not.
* Timers and timeouts are fair where the property needs them
  (`SilentIsShutDown`, `CallsReturn`); clients, peers and the clock never are.
* In TcpServer the threads of the loops run, each as a whole: a loop that has
  something to do does something.  Which of several ready channels a full poll
  returns is not fair; the descriptors come back all the same, because the event
  list doubles (`Resized`).  A handler of another thread that holds a connection
  lets it go.  Clients never have to do anything.
* `epoll_wait` returns, after its timeout at the latest.  That no functor depends
  on the timeout is a safety property, `NoFunctorStranded`.

## 8. Proofs

What follows holds for every value of the constants that satisfies the named
assumptions beside their declarations (`ThreadsAssumption`, `LoopOfAssumption`,
`NoConnAssumption`, `LoginsAssumption`, `RoomsAssumption`, `InitPointsAssumption`,
`GameAssumption`, `BoardAssumption`, `MaxTasksAssumption`, `PoolAssumption`,
`BufferAssumption`, `DispatcherAssumption`, `TcpAssumption`, `ServerAssumption`,
`WheelAssumption`).  The bounds of the models (`MaxWins`, `MaxRooms`, `MaxMade`,
`Frames`, ...) are constants too: what is proved holds for each.  A theorem that
needs more says so.

| Module | Theorem | Statement |
|---|---|---|
| SessionsProofs | `TypeCorrect` | `SessionsSpec => []SessionsTypeOK` |
| | `LocksAreHeld` | `SessionsSpec => []LocksHeld` |
| | `MapsAgree` | for `Logins # "any"`: `SessionsSpec => []SessionWhole` |
| | `CloseEndsSession` | for `Logins # "any"`: `SessionsSpec => []CloseRemovesPlayer` |
| GameTypes | `GameTypesCorrect` | `GameSpec => []GameTypeOK`, which contains the types of Sessions, Rooms and Matchmaking |
| | `PointsStayEqual` | for `Countable` and `"fail" \notin DbMay`: `GameSpec => []PointsAgree` |
| | `LosingCosts` | for `Countable`: `GameSpec => LosingCostsPoints` |
| | `PairIsFound` | `GameSpec => []PairIsOnline` |
| GameProofs | `GameIsSound` | for `Undisturbed`: `GameSpec => []GameInv`, the invariant behind the rest |
| | `MatchingMeansQueued` | for `Undisturbed`: `GameSpec => []MatchingIsQueued` |
| | `GamingMeansRoom` | for `Undisturbed`: `GameSpec => []GamingHasRoom` |
| | `StartsAreAccepted` | for `Undisturbed`: `GameSpec => []StartAccepted` |
| | `NobodyConfused` | for `Undisturbed`: `GameSpec => []ClientsNotConfused` |
| | `ToldHasRoom` | for `Undisturbed`: `GameSpec => []ToldMeansRoom` |
| BoardProofs | `BoardTypeCorrect` | `BoardSpec => []BoardTypeOK` |
| | `WinsAreRowsOfFive` | `BoardSpec => []WinIsRowOfFive` |
| LoopProofs | `LoopTypeCorrect` | `LoopSpec => []LoopTypeOK` |
| | `NothingStranded` | `LoopSpec => []NoFunctorStranded` |
| | `LoopImplementsQueue` | `LoopSpec => Implements` (EventLoop implements TaskQueue) |
| | `WheelTypeCorrect` | `WheelSpec => []WheelTypeOK` |
| | `EndsOnTimeCorrect` | for `Timeout \in 1..Capacity`: `WheelSpec => []TaskEndsOnTime` |
| | `DestroyedCorrect` | `WheelSpec => NoShutdownAfterDestroy` |
| StreamProofs | `AppendProperty`, `ReadfdProperty` | the bytes are behind those that were there, and the record is a buffer again |
| | `RetrieveProperty` | bytes leave from the front, and the record is a buffer again |
| | `DispatchTypeCorrect` | `DispatchSpec => []DispatchTypeOK` |
| | `QueueImplemented` | `DispatchSpec => BufferIsQueue` (the input buffer implements ByteQueue) |
| | `NoFrameSkipped` | `DispatchSpec => []NoneSkipped` |
| | `FramesHandled` | `DispatchSpec => []ArrivedIsHandled` |
| | `TcpTypeCorrect` | `TcpSpec => []TcpTypeOK` |
| | `OutputOrderCorrect` | `TcpSpec => []OutputInOrder` |
| | `OutputWatchedCorrect` | `TcpSpec => []OutputIsWatched` |
| | `FlushedCorrect` | `TcpSpec => FlushedBeforeShutdown` |
| ServerProofs | `ServerTypeCorrect` | `ServerSpec => []ServerTypeOK` |
| | `PollerCorrect` | `ServerSpec => []PollerAgrees` |
| | `NoReferenceDangles` | `ServerSpec => []NothingDangles` |
| PoolProofs | `PoolTypeCorrect` | `PoolSpec => []PoolTypeOK` |
| | `CountCorrect` | `PoolSpec => [](CountIsPool /\ AtLeastInit)` |
| | `PoolNeverShort` | `PoolSpec => []ShortOnlyWhenInUse` |
| | `ExclusiveCorrect` | `PoolSpec => []ConnectionsAreExclusive` |
| | `OldestCorrect` | `PoolSpec => []HeadIsOldest` |

*Sessions.*  `TypeCorrect` and `LocksAreHeld` cover all three values of `Logins`, so
more than the run `SessionsExclusive` can show.  `Base` is the type
invariant with what a callback knows of its connection at each program point
(`CallbackKnows`): without it a step could write a null connection or user into a
map.  Locks: a loop is in a critical section exactly when the lock names it, and
each step moves one loop.  Maps: only `addOnlineUser` and `removeOnlineUser` write
them, each all three.  `OnlineTogether` (a user has an entry in the map of objects
exactly if it has one in the map of connections, and it is the connection of the
object) survives every `Logins`; the map by connection does not, since an erase
goes by the user that the connection names and leaves what a second login on it
has overwritten.  `MapsAgree` therefore needs `Logins # "any"`, where `OneToOne` gives
the third map (`WholeFromParts`).  Exclusive sessions: `ExclusiveInv` adds to `OneToOne` and
`CloseRemovesPlayer` what a login in progress has excluded (`ExclusiveCallback`):
the user is not online, nobody is online through the connection, and no other
loop is logging in the same user.  `OneToOne` alone is not inductive, as a login
that has passed its check writes only later.

*Types of GameServer.*  `TypeInv` is the type invariant with what the steps look up:
a handler, the match thread and the pool name users and objects that exist
(`Ground`), and each handler is at a program point of its own request
(`HandlerTypes`).  It holds whatever clients do, whichever outcome an unlocked
search has and whether or not the database fails.

*Points.*  A win is four writes: the winner's and the loser's row in the database,
then their objects in memory (`DbWin`, `DbLose`, `winGame`, `loseGame`).  Loops
enter the wins of different rooms at the same time, and a player can leave a room
whose win is still being entered and win in the next.  `Balanced` therefore counts:
what the database has is what memory has, plus 10 for each loop that has written a
win of the player only there, less 5 for each such loss.  The two losses differ,
`GREATEST(.., 0)` in the one and an unsigned subtraction in the other, so
`Balanced` needs that no loss meets fewer than 5 points; `Covered` gives that from
the wins that are left (`wins`, `ToDb`, `ToWin`, `ToLose` count those entered and
under way).  `Countable` names what it rests on: each account logs in once and
unlocked searches find what is there (each login reads the points anew, a missed
object loses an update: `GameRace.cfg`), and `5 * MaxWins <= InitPoints[u]`,
`InitPoints[u] + 10 * MaxWins < PointWidth`, without which memory wraps
(`GameAtZero.cfg`).  `"fail" \notin DbMay` is needed by `PointsStayEqual` alone:
nothing takes the update of memory back when that of the database failed.

*The pair.*  `PairIsFound` has no hypothesis.  While no connection is down, the maps
only grow: entries are inserted at the end of a login, and a close alone erases
them; a second login changes an entry and leaves none empty (`MapsFilled`: each
user that is online has a connection that names a user, who is online).  Who is queued has been looked up and found
(`QueuedOnline`), so the match thread finds both players of a pair, and what it has
found stays so (`PairKnown`).  A stranger's request that meets a null `UserInfo`
(`NullUser`) or a query without a connection (`NullConnection`) ends the process in
another thread; it changes nothing of the pair.

*Matchmaking and games.*  None of the properties of `GameAgain` is inductive.  A
start is accepted if the state is ONLINE, which depends on the exit before it,
which depends on the room the match thread made, which depends on what the client
asked next, which depends on the messages on their way to it.  `GameInv` puts this
into one relation, `Standing`, for each `UserInfo` object: what its client has been
told, what is in its inbox, where its handler stands, its state, whether it has a
room, and whether news are coming to it.  Around it: `Accounts` (user, connection
and object belong together), `Handlers` (what a handler has looked up is still so,
and who holds which mutex), `Queue` (the pool and the one the match thread has in
hand are the users that are MATCHING, each once, in the list of its tier),
`RoomKnows` and `NewsKnows` (a room is of players that are GAMING, and a message
about a match that is queued for a loop is the only one for its client and still
true).  Part of `Queue` is what the match thread knows of the pair it has in hand
between its steps (`MatcherKnows`).
The hypothesis `Undisturbed` is `Countable`, `Strangers = {}` and `Steady`: no win or
loss to come moves an account over a tier boundary.  It allows games to be played, won, left and
followed by others: accounts that start with 1000 points meet it for runs of up to
99 wins.  None of its parts can be dropped: users
that log in twice are in two places (`SessionsSharedConn.cfg`,
`SessionsStaleClose.cfg`, `MatchSelf.cfg`), a stranger may name a user that is online
and queue or cancel in its name without its client knowing, a search may miss (`GameRace.cfg`), and
who changes the tier while queued is not found by `removeUser`
(`GameTierDrift.cfg`).  The proof has a lemma per variable that says who writes it
and how (`StateWrites`, `ClientWrites`, `HandlerDoes`, `PendingStep`, `TurnStep`), one per kind
of step that moves an object along `Standing` (`LoginStands` ... `PlayStands`), and one per
conjunct of `GameInv`.

*Board.*  `checkWin` walks from the new stone in eight directions and counts.
`WinIsRowOfFive` speaks of five places in a line.  What a walk counts is the least
number of steps at which the colour ends, a least member of a set of numbers, which
exists because every line leaves the board (`LinesEnd`); so no recursion has to be
unfolded.

*EventLoop.*  `NoFunctorStranded` concerns `epoll_wait`; the inductive
`WakeupOnItsWay` says at every point before the swap of the queues that a pending
functor has raised the eventfd or that a producer is about to.  The refinement maps
the abstract queue to `functors \o pending`; `swap` is then a stutter, because
`doPendingFunctor` empties `functors` before it returns, and the rest are facts
about concatenation.

*TimerWheel.*  `SlotsOK` says that a slot holds a connection only for an event after
which the hand has not come by yet, and that a living task is in the slot of its
last event.  The rest is arithmetic of remainders: within one turn each step has a
slot of its own (`OwnSlot`), so the hand finds in the slot it clears only tasks
whose time has come, and these in no other slot.  A timeout of zero or of more than
a turn breaks it (`WheelLong`).  `DestroyedCorrect` needs only that a task that
outlives its connection is cancelled (`CanceledOK`).

*Buffer.*  Each operation is taken apart into the three things it may do to the
vector (nothing, move, grow); `PlaceProperties` says that none of them changes the
readable bytes, `FilledProperties` that copying behind them appends.  The cases of
`readfd` meet in `InTwoParts`: what fits and what goes through the second area of
`readv` are together what was read.

*Dispatcher.*  A step is a read, which appends, and a dispatch, which takes one prefix
(header and body, `TwoCuts`): together one `Pass` of ByteQueue.  What is handled:
either the bytes taken end where a frame ends and each frame before was handled in
its turn (`InStep`), or a part of a body was taken for the whole and the rest of it
comes to the front (`OffStep`), where it is no header, and nothing is handled any
more.  As long as reads are gentle only the first can be (`InOrder`), and the next
frame has arrived no further than its header or is too large.

*TcpConnection.*  `TcpInv` adds to type and order of the output what the states of a
connection exclude: before `connectEstablished` there is no output and no other
functor has run (`Opening`), it runs once (`Opened`), and nothing is destroyed while
the connection is up (`Closing`).  `OutputIsWatched` needs them, since
`connectEstablished` and `connectDestroyed` set the events without a look at the
output.  The writes themselves use only the theorems of Buffer.

*TcpServer.*  `PollerOK` is kept by `updateChannel` in each of its three cases and by
`removeChannel`, whatever the events and whoever calls it: that is the point of
`_index_`.  `FunctorsOK` and `AcceptOK` say that functors name connections, and that
the main loop accepts only when somebody waits.  For `NothingDangles` the invariant
`HolderInv` says for every connection that a poller, a list or a queue still refers
to that somebody holds it: the map of the server until `removeConnectionInLoop`,
then the functor that is queued next, until `connectDestroyed` has taken the channel
out of the poller, and the batch that functor ran in until it ends.

*MysqlPool.*  `CountIsPool` relates a counter to the size of a set; each step adds or
removes one element on both sides.  With `AtLeastInit` (a pool that was configured has at least
`InitSize`, where the scanner stops) it gives `ShortOnlyWhenInUse`.  `OneOwner` adds to exclusiveness and order
that connections are numbered as they are made and that no time in the queue lies
after `now`; without it a new connection could have an old number, and an
appended one an early time.

Only model-checked: liveness, which is beyond the prover (`CallbacksEnd`,
`PairsAreTaken`, `RequestsAnswered`, `EveryFunctorRuns`, `QuitStopsRunningLoop`,
`CallsReturn`, `SilentIsShutDown`, `FdsComeBack`, `WaitingAreAccepted`), and `QueuedOnce`:
`GameInv` contains it, but only for accounts that log in once, and for those it is
no surprise; that a user who drops out and returns is queued twice is `MatchSelf.cfg`.
Every other invariant and action property that a passing run checks is also proved.

## 9. What is left out

* JSON texts, logging, formatting and time stamps: no property depends on them.
* In TcpServer: a pool without threads (`GameServer` sets three), the slots of the
  event list that a loop's own wakeup and timer channels take, and channels whose
  event is an error only: EPOLLHUP and EPOLLERR come with EPOLLIN, and the read that
  follows finds the end.
* `~TcpServer` and the end of the program: the loop of `main()` never quits.
* The high-water mark of TcpConnection: its condition is tested, and the callback
  is never set.
* `Socket`, `InetAddress`, `Thread`, `MysqlConnection`: wrappers of calls.  `accept` and
  `close` are in TcpServer.
* Registration: one INSERT, no state in the server.  Every error is reported as
  a name that is taken.
* Spurious wakeups of condition variables: the match thread tests its condition again.
* SIGPIPE in `Matchmaking` and `GameServer`: TcpConnection has it.
* An UPDATE that fails is an option of GameServer (`"fail"` in `DbMay`), off in the
  runs: the points then differ, and nothing in the code says otherwise.  A null
  connection (`"null"`) is on in `GameTwo` and `GameAgain`.
* What a frame says: a text that does not parse, and a protocol number without a
  handler (`net/ProtocolDispatcher.cc:47-51`, `62-65`), are taken like any other frame and
  only logged.  The exceptions of `asInt` and `asUInt` on values of another type are
  left out.
* Requests before a login (`Strangers`) are those for a match: start and cancel, the
  only handlers that use what `m_UserId2User` gives without a test.
* Matches of users of several tiers in one behaviour with three or more users and
  liveness: out of TLC's reach.
* Several type invariants (`MatchTypeOK`, `GameTypeOK`, `RoomsTypeOK`, `BoardTypeOK`,
  `DispatchTypeOK`, `ServerTypeOK`, `PoolTypeOK`, `TcpTypeOK`, `WheelTypeOK`) are in no run,
  as they are proved; the runs spend their time on the other properties.

## 10. Plan

Done: Sessions, Rooms, Matchmaking, GameServer (the server's own logic); EventLoop
with TaskQueue; MysqlPool; Buffer; Dispatcher with ByteQueue; TimerWheel;
TcpConnection; Board; TcpServer with the poller and the channels; the proofs of
section 8.

What could follow:

1. The theorems of GameProofs for users that return (`Logins = "exclusive"`): most of
   them fail in the code as it is (`MatchSelf.cfg`), because a user that drops out
   stays in the pool.  With a repaired `removeConn` they are the next to prove.
2. Games without `Steady`: a user changes its tier while it is queued only when a win
   of the room it has left is still being entered.  With `removeUser` looking in
   the list of the tier the user was queued in, `Queue` should hold without it.
3. Liveness from the invariants, on paper or with a prover that has ENABLED.
