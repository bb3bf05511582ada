----------------------------- MODULE TimerWheel -----------------------------
(***************************************************************************)
(* TimerWheel, and the inactive release of TcpConnection that uses it: a   *)
(* connection without events for Timeout seconds is shut down.             *)
(*                                                                         *)
(* All of it runs in one loop.  A step is one operation, or one step of    *)
(* the wheel within OnTime, during which nothing else runs (times > 0).    *)
(* The id of a connection is never used again, and a task is added only    *)
(* when there is none with its id, so a task is named by its id; a slot    *)
(* that holds a shared_ptr to it holds its id.  A task is destroyed when   *)
(* no slot holds it.                                                       *)
(***************************************************************************)
EXTENDS Naturals, FiniteSets

CONSTANTS
    Conn,        \* the connections of the loop
    Capacity,    \* slots of the wheel, 60
    Timeout,     \* of setEnableInactiveRelease
    MaxSeconds   \* bound on the timer's expirations

ASSUME WheelAssumption ==
    /\ Capacity \in Nat \ {0} /\ Timeout \in Nat /\ MaxSeconds \in Nat

VARIABLES
    tick,        \* _tick_
    wheel,       \* _wheel_: the ids each slot holds
    known,       \* the keys of _weak_ptr_map_
    canceled,    \* the tasks with _is_cancel_ set
    enabled,     \* connections with _enable_inactive_release_
    times,       \* steps that OnTime has still to do
    steps,       \* the steps the wheel has made
    seconds,     \* expirations of the timer so far
    unread,      \* those that OnTime has not read
    last,        \* steps when a connection's task was armed last
    heard,       \* seconds at that time
    shutdowns,   \* connections whose shutdown ran
    destroyed    \* connections whose connectDestroyed ran

wheelVars == <<tick, wheel, known, canceled, enabled, times, steps, seconds,
               unread, last, heard, shutdowns, destroyed>>

Slots == 0..(Capacity - 1)

WheelTypeOK ==
    /\ steps \in 0..MaxSeconds /\ seconds \in 0..MaxSeconds
    /\ tick = steps % Capacity
    /\ wheel \in [Slots -> SUBSET Conn]
    /\ known = UNION {wheel[s] : s \in Slots}
    /\ canceled \subseteq known /\ enabled \subseteq Conn
    /\ times \in 0..MaxSeconds /\ unread \in 0..MaxSeconds
    /\ steps + times + unread <= seconds
    /\ last \in [Conn -> 0..MaxSeconds] /\ heard \in [Conn -> 0..MaxSeconds]
    /\ shutdowns \subseteq Conn /\ destroyed \subseteq Conn

WheelInit ==
    /\ tick = 0 /\ wheel = [s \in Slots |-> {}]
    /\ known = {} /\ canceled = {} /\ enabled = {}
    /\ times = 0 /\ steps = 0 /\ seconds = 0 /\ unread = 0
    /\ last = [c \in Conn |-> 0] /\ heard = [c \in Conn |-> 0]
    /\ shutdowns = {} /\ destroyed = {}

-----------------------------------------------------------------------------
\* Mutant: one slot too early.
SlotFor_Early(delay) == (tick + delay + Capacity - 1) % Capacity
SlotFor(delay) == (tick + delay) % Capacity

\* push_back(task)
Hold(c) == wheel' = [wheel EXCEPT ![SlotFor(Timeout)] = @ \cup {c}]

TimerTaskAddInLoop(c) == Hold(c) /\ known' = known \cup {c}

\* The task keeps its place in the slots that hold it already.
TimerTaskRefreshInLoop(c) ==
    /\ IF c \in known THEN Hold(c) ELSE UNCHANGED wheel
    /\ UNCHANGED known

\* enableInactiveReleaseInLoop, queued before connectEstablished.
enableInactiveRelease(c) ==
    /\ times = 0 /\ c \notin enabled \cup destroyed
    /\ enabled' = enabled \cup {c}
    /\ IF c \in known THEN TimerTaskRefreshInLoop(c) ELSE TimerTaskAddInLoop(c)
    /\ last' = [last EXCEPT ![c] = steps]
    /\ heard' = [heard EXCEPT ![c] = seconds]
    /\ UNCHANGED <<tick, canceled, times, steps, seconds, unread, shutdowns,
                   destroyed>>

\* handleEvent, after any event of the connection.
handleEvent(c) ==
    /\ times = 0 /\ c \in enabled \ destroyed
    /\ TimerTaskRefreshInLoop(c)
    /\ last' = [last EXCEPT ![c] = IF c \in known THEN steps ELSE @]
    /\ heard' = [heard EXCEPT ![c] = IF c \in known THEN seconds ELSE @]
    /\ UNCHANGED <<tick, canceled, enabled, times, steps, seconds, unread,
                   shutdowns, destroyed>>

\* Mutant: the task is not cancelled.
Cancel_Missing(c) == UNCHANGED canceled
\* TimerTaskCancelInLoop: the task stays in its slots.
Cancel(c) == canceled' = IF c \in known THEN canceled \cup {c} ELSE canceled

\* connectDestroyed.
connectDestroyed(c) ==
    /\ times = 0 /\ c \in enabled \ destroyed
    /\ destroyed' = destroyed \cup {c}
    /\ IF c \in known
       THEN Cancel(c) /\ enabled' = enabled \ {c}
       ELSE UNCHANGED <<canceled, enabled>>
    /\ UNCHANGED <<tick, wheel, known, times, steps, seconds, unread, last, heard,
                   shutdowns>>

\* The timer expires, whatever the loop does.
Expire ==
    /\ seconds < MaxSeconds
    /\ seconds' = seconds + 1 /\ unread' = unread + 1
    /\ UNCHANGED <<tick, wheel, known, canceled, enabled, times, steps, last,
                   heard, shutdowns, destroyed>>

\* Mutant: one step for any number of expirations.
Expirations_One == 1
\* ReadTimerFd
Expirations == unread

\* OnTime reads how often the timer has expired ...
OnTime ==
    /\ times = 0 /\ unread > 0
    /\ times' = Expirations /\ unread' = 0
    /\ UNCHANGED <<tick, wheel, known, canceled, enabled, steps, seconds, last,
                   heard, shutdowns, destroyed>>

Released(gone) == known' = known \ gone

\* ~TimerTask: the callback, shutdown, runs unless the task is cancelled.
Destroy(gone) ==
    /\ shutdowns' = shutdowns \cup (gone \ canceled)
    /\ Released(gone)
    /\ canceled' = canceled \ gone

\* ... and makes as many steps.  The tasks that only the cleared slot held are
\* destroyed.
WheelRunOne ==
    /\ times > 0
    /\ times' = times - 1 /\ steps' = steps + 1
    /\ tick' = (tick + 1) % Capacity
    /\ wheel' = [wheel EXCEPT ![tick'] = {}]
    /\ Destroy({c \in wheel[tick'] : \A s \in Slots : c \notin wheel'[s]})
    /\ UNCHANGED <<enabled, seconds, unread, last, heard, destroyed>>

WheelNext ==
    \/ \E c \in Conn : enableInactiveRelease(c) \/ handleEvent(c) \/ connectDestroyed(c)
    \/ Expire \/ OnTime \/ WheelRunOne

WheelSpec == WheelInit /\ [][WheelNext]_wheelVars

\* The loop polls, and the timer goes on.
WheelFairSpec ==
    /\ WheelSpec
    /\ WF_wheelVars(Expire) /\ WF_wheelVars(OnTime) /\ WF_wheelVars(WheelRunOne)

-----------------------------------------------------------------------------
(* Properties.                                                             *)

\* A task whose connection had its last event when the wheel had made n steps
\* is destroyed exactly when it has made n + Timeout, however often it was
\* refreshed and whatever slots held it in between.
TaskEndsOnTime ==
    \A c \in enabled : c \in known <=> steps < last[c] + Timeout

\* The callback holds a raw pointer to its connection: after connectDestroyed
\* it never runs.
NoShutdownAfterDestroy ==
    [][\A c \in Conn : c \in shutdowns' \ shutdowns => c \notin destroyed]_wheelVars

\* A connection that stays silent is shut down, even when the loop is late.
SilentIsShutDown ==
    \A c \in Conn : \A n \in 0..(MaxSeconds - Timeout) :
        (c \in enabled /\ last[c] = n)
            ~> (c \in shutdowns \cup destroyed \/ last[c] > n)

\* "On any event the timed task is refreshed" (TcpConnection.cc:264): a
\* connection is shut down no earlier than Timeout expirations of the timer
\* after its last event.
NotShutDownEarly ==
    [][\A c \in Conn : c \in shutdowns' \ shutdowns
                         => seconds >= heard[c] + Timeout]_wheelVars
=============================================================================
