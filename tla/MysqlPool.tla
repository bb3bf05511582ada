----------------------------- MODULE MysqlPool ------------------------------
(***************************************************************************)
(* MysqlConnectionPool: the threads that take connections and give them    *)
(* back, the producer that makes new ones and the scanner that deletes     *)
(* those idle for too long.                                                *)
(*                                                                         *)
(* A step is what a thread does between two waits for _queueMutex.  One    *)
(* condition variable, _cv, serves consumers and producer.  A consumer     *)
(* waits with a timeout that starts anew at every wakeup.                  *)
(*                                                                         *)
(* clock() counts the CPU time of the process, sleep_for the time of the   *)
(* wall: they are unrelated, so now may advance, or not, between any two   *)
(* steps.                                                                  *)
(*                                                                         *)
(* The pool does not look at what connect() returns: a connection that     *)
(* never reached the database is pooled like any other, and its queries    *)
(* fail (GameServer's DbMay).                                              *)
(***************************************************************************)
EXTENDS Naturals, Sequences, FiniteSets

CONSTANTS
    Consumer,    \* threads that call getMysqlConnection
    InitSize, MaxSize, MaxIdleTime,   \* of Mysql.ini; the time in clock units
    MaxMade,     \* bound on the connections made
    MaxNow       \* bound on the clock

ASSUME PoolAssumption ==
    /\ InitSize \in Nat /\ MaxSize \in Nat /\ InitSize <= MaxSize
    /\ MaxIdleTime \in Nat /\ MaxMade \in Nat /\ MaxNow \in Nat
    /\ InitSize <= MaxMade
    /\ IsFiniteSet(Consumer)

VARIABLES
    configured,  \* loadConfigFile has found Mysql.ini
    idle,        \* _connectionQue, each connection with its _alivetime
    cnt,         \* _connectionCnt
    made,        \* connections made so far
    now,         \* clock()
    consumer,    \* where each consumer is
    held,        \* the connection it holds, or 0
    producer,    \* "awake" or "waiting"
    undefined    \* front() was called on an empty queue

poolVars == <<configured, idle, cnt, made, now, consumer, held, producer,
              undefined>>

IdleConn == [id : 1..MaxMade, since : 0..MaxNow]

PoolTypeOK ==
    /\ idle \in Seq(IdleConn)
    /\ cnt \in 0..MaxSize /\ made \in 0..MaxMade /\ now \in 0..MaxNow
    /\ consumer \in [Consumer -> {"out", "asking", "waiting", "timeout",
                                  "using"}]
    /\ held \in [Consumer -> 0..MaxMade]
    /\ \A c \in Consumer : held[c] # 0 <=> consumer[c] = "using"
    /\ producer \in {"awake", "waiting"} /\ undefined \in BOOLEAN
    /\ configured \in BOOLEAN

\* The constructor makes InitSize connections and starts the two threads.
\* Without its Mysql.ini it returns at once: the pool stays empty, its sizes
\* and its timeout zero (it is a static object), and there are no threads.
PoolInit ==
    /\ \/ /\ configured = TRUE
          /\ idle = [n \in 1..InitSize |-> [id |-> n, since |-> 0]]
          /\ cnt = InitSize /\ made = InitSize
       \/ configured = FALSE /\ idle = <<>> /\ cnt = 0 /\ made = 0
    /\ now = 0
    /\ consumer = [c \in Consumer |-> "out"]
    /\ held = [c \in Consumer |-> 0]
    /\ producer = "awake" /\ undefined = FALSE

-----------------------------------------------------------------------------
(* getMysqlConnection.                                                     *)

\* _cv.notify_all() while consumer c (if any) goes on to pc.
NotifyAll(moved) ==
    /\ consumer' = [c \in Consumer |->
                       IF moved[c] = "waiting" THEN "asking" ELSE moved[c]]
    /\ producer' = "awake"

Call(c) ==
    /\ consumer[c] = "out"
    /\ consumer' = [consumer EXCEPT ![c] = "asking"]
    /\ UNCHANGED <<configured, idle, cnt, made, now, held, producer, undefined>>

\* Mutant: pop is forgotten.
PopFront_Forgotten == UNCHANGED idle
PopFront == idle' = Tail(idle)

\* The queue is not empty: take its front and notify everybody.
Take(c) ==
    /\ consumer[c] \in {"asking", "timeout"} /\ idle # <<>>
    /\ held' = [held EXCEPT ![c] = Head(idle).id]
    /\ PopFront
    /\ NotifyAll([consumer EXCEPT ![c] = "using"])
    /\ UNCHANGED <<configured, cnt, made, now, undefined>>

\* wait_for(_connectionTimeout) ...
Wait(c) ==
    /\ consumer[c] = "asking" /\ idle = <<>>
    /\ consumer' = [consumer EXCEPT ![c] = "waiting"]
    /\ UNCHANGED <<configured, idle, cnt, made, now, held, producer, undefined>>

\* Mutant: wait for wait_for.
TimeOut_Never(c) == FALSE
\* ... which nobody ended in time.
TimeOut(c) ==
    /\ consumer[c] = "waiting"
    /\ consumer' = [consumer EXCEPT ![c] = "timeout"]
    /\ UNCHANGED <<configured, idle, cnt, made, now, held, producer, undefined>>

\* Still empty: nullptr.
GiveUp(c) ==
    /\ consumer[c] = "timeout" /\ idle = <<>>
    /\ consumer' = [consumer EXCEPT ![c] = "out"]
    /\ UNCHANGED <<configured, idle, cnt, made, now, held, producer, undefined>>

\* Mutant: the idle time goes on from where it was (at most one unit older).
Returned_Unrefreshed(id) ==
    Append(idle, [id |-> id, since |-> IF now > 0 THEN now - 1 ELSE 0])
Returned(id) == Append(idle, [id |-> id, since |-> now])

\* The deleter of the shared_ptr refreshes the connection and pushes it.  It
\* notifies nobody.
Release(c) ==
    /\ consumer[c] = "using"
    /\ idle' = Returned(held[c])
    /\ held' = [held EXCEPT ![c] = 0]
    /\ consumer' = [consumer EXCEPT ![c] = "out"]
    /\ UNCHANGED <<configured, cnt, made, now, producer, undefined>>

-----------------------------------------------------------------------------
(* produceConnectionTask.                                                  *)

ProducerWaits ==
    /\ configured /\ producer = "awake" /\ idle # <<>>
    /\ producer' = "waiting"
    /\ UNCHANGED <<configured, idle, cnt, made, now, consumer, held, undefined>>

\* A new connection if there may be one; notify_all in any case.
Produce ==
    /\ configured /\ producer = "awake" /\ idle = <<>>
    /\ IF cnt < MaxSize
       THEN /\ made < MaxMade
            /\ made' = made + 1
            /\ cnt' = cnt + 1
            /\ idle' = <<[id |-> made + 1, since |-> now]>>
       ELSE UNCHANGED <<configured, made, cnt, idle>>
    /\ NotifyAll(consumer)
    /\ UNCHANGED <<configured, now, held, undefined>>

-----------------------------------------------------------------------------
(* scannerConnectionTask: one scan of the queue.                           *)

Expired(n) == now >= idle[n].since + MaxIdleTime

\* The scan ends after n connections: they have expired, and it has reached
\* _initSize, or a connection that has not expired, or the end of the queue.
ScanTakes(n) ==
    /\ \A i \in 1..n : Expired(i)
    /\ cnt >= InitSize + n
    /\ cnt > InitSize + n /\ n < Len(idle) => ~Expired(n + 1)

\* Mutant: the count stays.
Deleted_NotCounted(n) == UNCHANGED cnt
Deleted(n) == cnt' = cnt - n

\* At the end of the queue, with more than _initSize connections still in
\* use, front() is called on an empty queue.
Scan ==
    /\ configured /\ cnt > InitSize
    /\ \E n \in 0..Len(idle) :
          /\ ScanTakes(n)
          /\ idle' = SubSeq(idle, n + 1, Len(idle))
          /\ Deleted(n)
          /\ undefined' = (n = Len(idle) /\ cnt > InitSize + n)
    /\ UNCHANGED <<configured, made, now, consumer, held, producer>>

Tick ==
    /\ now < MaxNow
    /\ now' = now + 1
    /\ UNCHANGED <<configured, idle, cnt, made, consumer, held, producer, undefined>>

-----------------------------------------------------------------------------
PoolStep(c) == Take(c) \/ Wait(c) \/ GiveUp(c)

PoolNext ==
    /\ ~undefined
    /\ \/ \E c \in Consumer : Call(c) \/ PoolStep(c) \/ TimeOut(c) \/ Release(c)
       \/ ProducerWaits \/ Produce \/ Scan \/ Tick

PoolSpec == PoolInit /\ [][PoolNext]_poolVars

\* Threads run, and a wait that nobody ends times out.
ThreadFairness ==
    /\ WF_poolVars(~undefined /\ (ProducerWaits \/ Produce))
    /\ \A c \in Consumer : /\ WF_poolVars(~undefined /\ PoolStep(c))
                           /\ WF_poolVars(~undefined /\ TimeOut(c))

\* And queries end, so every connection is given back.
ReleaseFairness == \A c \in Consumer : WF_poolVars(~undefined /\ Release(c))

PoolThreadSpec == PoolSpec /\ ThreadFairness
PoolFairSpec == PoolSpec /\ ThreadFairness /\ ReleaseFairness

-----------------------------------------------------------------------------
(* Properties.                                                             *)

Using == {c \in Consumer : consumer[c] = "using"}

\* _connectionCnt counts the connections that exist: those in the queue and
\* those in use.  None is lost by any order of taking, timing out, returning,
\* making and deleting.
CountIsPool == cnt = Len(idle) + Cardinality(Using)

\* A consumer finds no connection only while at least InitSize others are in
\* use: the scanner, the timeouts and a producer that waits or is late never
\* take the pool below the size it started with, if it started at all.  (The
\* callers use what they get without a test for nullptr.)
ShortOnlyWhenInUse ==
    configured /\ idle = <<>> /\ ~undefined => Cardinality(Using) >= InitSize

\* No connection is used by two threads, or used while it is in the queue, or
\* in the queue twice.
ConnectionsAreExclusive ==
    /\ \A m, n \in 1..Len(idle) : idle[m].id = idle[n].id => m = n
    /\ \A c \in Using, n \in 1..Len(idle) : held[c] # idle[n].id
    /\ \A c, d \in Using : held[c] = held[d] => c = d

\* "If the head of the queue has not been idle for too long, the others surely
\* have not" (MysqlConnectionPool.cc:166): the queue is in the order of the
\* times at which its connections became idle.
HeadIsOldest ==
    \A m, n \in 1..Len(idle) : m < n => idle[m].since <= idle[n].since

Returns(c) ==
    consumer[c] = "asking" ~> (consumer[c] \in {"using", "out"} \/ undefined)

\* Another thread than c takes a connection.
OtherTakes(c) ==
    \E d \in Consumer \ {c} : consumer[d] # "using" /\ consumer'[d] = "using"

\* When queries end, every call of getMysqlConnection returns, a connection or
\* nullptr, unless others take connections before it for ever.  At _maxSize
\* with an empty queue the producer notifies without a pause, and every
\* notification starts the caller's timeout anew: that alone never keeps it.
\* (The mutex is not fair, so others may; and when queries do not end see
\* TimeoutEndsCall.)
CallsReturn ==
    \A c \in Consumer : []<><<OtherTakes(c)>>_poolVars \/ Returns(c)

\* "Scan the connections that have been idle longer than maxIdleTime"
\* (MysqlConnectionPool.cc:145): the scanner looks at idle connections only.
ScansOnlyIdle == ~undefined

\* "The queue is not empty: the producer waits here"
\* (MysqlConnectionPool.cc:127): while the queue is empty it does not.
WaitingProducerHasStock == producer = "waiting" => idle # <<>>

\* "The timeout for getting a connection" (MysqlConnectionPool.h:43): a call
\* that finds no connection ends by its timeout, even when no query ends.
TimeoutEndsCall == \A c \in Consumer : Returns(c)
=============================================================================
