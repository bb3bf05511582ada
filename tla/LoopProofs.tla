----------------------------- MODULE LoopProofs -----------------------------
(***************************************************************************)
(* The event loop and the timer wheel that runs in it.                     *)
(*                                                                         *)
(* EventLoop for every set of producers and every bound: its type, that no *)
(* functor is stranded, and that it implements TaskQueue.                  *)
(*                                                                         *)
(* TimerWheel for every capacity and any number of connections: its type,  *)
(* that a task ends on time when the timeout is no longer than the wheel,  *)
(* and that no connection is shut down after it was destroyed.             *)
(***************************************************************************)
EXTENDS EventLoop, TimerWheel, SequenceTheorems, Integers, TLAPS

-----------------------------------------------------------------------------
(* EventLoop: the type invariant.                                          *)

LEMMA TypeInit == LoopInit => LoopTypeOK
<1> SUFFICES ASSUME LoopInit PROVE LoopTypeOK
  OBVIOUS
<1>1. pending \in Seq(Nat) /\ functors \in Seq(Nat) /\ ran \in Seq(Nat)
  BY DEF LoopInit
<1>2. calling \in BOOLEAN /\ (calling <=> pc \in {"swap", "run"})
  BY DEF LoopInit
<1>3. prod \in [Producer -> {"idle", "wake"}]
  BY DEF LoopInit
<1>4. QED
  BY <1>1, <1>2, <1>3 DEF LoopInit, LoopTypeOK

LEMMA TypeStep == LoopTypeOK /\ [LoopNext]_loopVars => LoopTypeOK'
<1> SUFFICES ASSUME LoopTypeOK, [LoopNext]_loopVars
             PROVE  LoopTypeOK'
  OBVIOUS
<1> USE DEF LoopTypeOK, Tasks, NewTask
<1>1. CASE Publish
  BY <1>1 DEF Publish
<1>2. CASE StartLoop
  BY <1>2 DEF StartLoop
<1>3. CASE TestQuit
  BY <1>3 DEF TestQuit
<1>4. CASE Poll
  BY <1>4 DEF Poll
<1>5. CASE EventQueues
  BY <1>5 DEF EventQueues, Wakes
<1>6. CASE EventsDone
  BY <1>6 DEF EventsDone
<1>7. CASE Swap
  BY <1>7 DEF Swap
<1>8. CASE RunFunctor \/ RunAndQueue
  <2>1. /\ pc = "run" /\ functors # <<>>
        /\ ran' = Append(ran, Head(functors)) /\ functors' = Tail(functors)
    BY <1>8 DEF RunFunctor, RunAndQueue
  <2>2. ran' \in Seq(Nat) /\ functors' \in Seq(Nat)
    <3>1. Head(functors) \in Nat /\ Tail(functors) \in Seq(Nat)
      BY <2>1, HeadTailProperties
    <3>2. QED
      BY <2>1, <3>1
  <2>3. CASE RunFunctor
    BY <2>2, <2>3 DEF RunFunctor
  <2>4. CASE RunAndQueue
    BY <2>2, <2>4 DEF RunAndQueue, Wakes
  <2>5. QED
    BY <1>8, <2>3, <2>4
<1>9. CASE RunDone
  BY <1>9 DEF RunDone
<1>10. ASSUME NEW p \in Producer, Push(p)
       PROVE  LoopTypeOK'
  BY <1>10 DEF Push
<1>11. ASSUME NEW p \in Producer, Wakeup(p)
       PROVE  LoopTypeOK'
  BY <1>11 DEF Wakeup
<1>12. CASE Owner \/ quit
  <2>1. CASE startLoop \/ join
    BY <2>1 DEF startLoop, join
  <2>2. CASE quitWakeup
    BY <2>2 DEF quitWakeup
  <2>3. CASE quit
    BY <2>3 DEF quit
  <2>4. QED
    BY <1>12, <2>1, <2>2, <2>3 DEF Owner
<1>13. CASE UNCHANGED loopVars
  BY <1>13 DEF loopVars
<1>14. QED
  BY <1>1, <1>2, <1>3, <1>4, <1>5, <1>6, <1>7, <1>8, <1>9, <1>10, <1>11,
     <1>12, <1>13 DEF LoopNext, LoopThread

\* Every variable of EventLoop keeps its type, _callingPendingFunctors_ is
\* set exactly while doPendingFunctor runs, and nothing is left of what
\* doPendingFunctor took when it returns.
THEOREM LoopTypeCorrect == LoopSpec => []LoopTypeOK
BY TypeInit, TypeStep, PTL DEF LoopSpec

-----------------------------------------------------------------------------
(* No functor is stranded.  What is queued while the loop is between the   *)
(* swap and its next epoll_wait must have a wakeup on its way; what is     *)
(* queued while channels are handled is swapped in the same round.         *)

WakeupOnItsWay ==
    /\ pc \notin {"events", "swap"} /\ pending # <<>>
          => signal \/ \E p \in Producer : prod[p] = "wake"
    /\ pc = "init" => owner = "starting"

LEMMA StrandedStep ==
    LoopTypeOK /\ WakeupOnItsWay /\ [LoopNext]_loopVars => WakeupOnItsWay'
<1> SUFFICES ASSUME LoopTypeOK, WakeupOnItsWay, [LoopNext]_loopVars
             PROVE  WakeupOnItsWay'
  OBVIOUS
<1> USE DEF LoopTypeOK, WakeupOnItsWay
<1>1. CASE Publish \/ StartLoop \/ TestQuit
  BY <1>1 DEF Publish, StartLoop, TestQuit
<1>2. CASE Poll \/ EventsDone \/ EventQueues
  BY <1>2 DEF Poll, EventsDone, EventQueues
<1>3. CASE Swap
  BY <1>3 DEF Swap
<1>4. CASE RunFunctor \/ RunAndQueue
  <2>1. CASE RunFunctor
    BY <2>1 DEF RunFunctor
  <2>2. CASE RunAndQueue
    <3>1. signal' /\ pc' = "run"
      BY <2>2 DEF RunAndQueue, Wakes
    <3>2. QED
      BY <3>1
  <2>3. QED
    BY <1>4, <2>1, <2>2
<1>5. CASE RunDone
  BY <1>5 DEF RunDone
<1>6. ASSUME NEW p \in Producer, Push(p)
      PROVE  WakeupOnItsWay'
  <2>1. prod'[p] = "wake"
    BY <1>6 DEF Push
  <2>2. pc # "init" /\ pc' = pc
    BY <1>6 DEF Push
  <2>3. QED
    BY <2>1, <2>2
<1>7. ASSUME NEW p \in Producer, Wakeup(p)
      PROVE  WakeupOnItsWay'
  BY <1>7 DEF Wakeup
<1>8. CASE Owner \/ quit
  BY <1>8 DEF Owner, startLoop, quitWakeup, join, quit
<1>9. CASE UNCHANGED loopVars
  BY <1>9 DEF loopVars
<1>10. QED
  BY <1>1, <1>2, <1>3, <1>4, <1>5, <1>6, <1>7, <1>8, <1>9
     DEF LoopNext, LoopThread

\* No functor waits for the timeout of epoll_wait, however many threads queue
\* functors and however their writes to the eventfd are delayed.
THEOREM NothingStranded == LoopSpec => []NoFunctorStranded
<1>1. LoopInit => WakeupOnItsWay
  BY DEF LoopInit, WakeupOnItsWay
<1>2. WakeupOnItsWay => NoFunctorStranded
  BY DEF WakeupOnItsWay, NoFunctorStranded
<1>3. QED
  BY <1>1, <1>2, TypeInit, TypeStep, StrandedStep, PTL DEF LoopSpec

-----------------------------------------------------------------------------
(* EventLoop implements TaskQueue: the queue is what doPendingFunctor took *)
(* and has not run, followed by _pendingFunctors_.                         *)

LEMMA ConcatAppend ==
    ASSUME NEW s \in Seq(Nat), NEW t \in Seq(Nat), NEW n \in Nat
    PROVE  s \o Append(t, n) = Append(s \o t, n)
<1>1. <<n>> \in Seq(Nat) /\ s \o t \in Seq(Nat)
  BY ConcatProperties
<1>2. Append(t, n) = t \o <<n>> /\ Append(s \o t, n) = (s \o t) \o <<n>>
  BY <1>1, AppendIsConcat
<1>3. QED
  BY <1>1, <1>2, ConcatAssociative

LEMMA ConcatHeadTail ==
    ASSUME NEW s \in Seq(Nat), NEW t \in Seq(Nat), s # <<>>
    PROVE  /\ s \o t # <<>>
           /\ Head(s \o t) = Head(s)
           /\ Tail(s \o t) = Tail(s) \o t
<1> DEFINE u == s \o t
<1>1. /\ u \in Seq(Nat) /\ Len(u) = Len(s) + Len(t)
      /\ \A i \in 1..(Len(s) + Len(t)) :
            u[i] = IF i <= Len(s) THEN s[i] ELSE t[i - Len(s)]
  BY ConcatProperties
<1>2. Len(s) \in Nat /\ Len(t) \in Nat /\ Len(s) >= 1
  BY EmptySeq, LenProperties
<1>3. u # <<>> /\ Head(u) = Head(s)
  <2>1. u[1] = s[1] /\ u # <<>>
    BY <1>1, <1>2
  <2>2. Head(u) = u[1] /\ Head(s) = s[1]
    BY <1>1, <2>1
  <2>3. QED
    BY <2>1, <2>2
<1>4. /\ Tail(s) \in Seq(Nat) /\ Len(Tail(s)) = Len(s) - 1
      /\ \A i \in 1..(Len(s) - 1) : Tail(s)[i] = s[i + 1]
  BY HeadTailProperties
<1>5. /\ Tail(u) \in Seq(Nat) /\ Len(Tail(u)) = Len(u) - 1
      /\ \A i \in 1..(Len(u) - 1) : Tail(u)[i] = u[i + 1]
  BY <1>1, <1>3, HeadTailProperties
<1> DEFINE v == Tail(s) \o t
<1>6. /\ v \in Seq(Nat) /\ Len(v) = Len(s) - 1 + Len(t)
      /\ \A i \in 1..(Len(s) - 1 + Len(t)) :
            v[i] = IF i <= Len(s) - 1 THEN Tail(s)[i] ELSE t[i - (Len(s) - 1)]
  BY <1>4, ConcatProperties
<1>7. \A i \in 1..Len(v) : Tail(u)[i] = v[i]
  <2> SUFFICES ASSUME NEW i \in 1..Len(v) PROVE Tail(u)[i] = v[i]
    OBVIOUS
  <2> HIDE DEF u, v
  <2>1. i \in 1..(Len(u) - 1) /\ i + 1 \in 1..(Len(s) + Len(t))
    BY <1>1, <1>2, <1>6
  <2>2. Tail(u)[i] = u[i + 1]
    BY <1>5, <2>1
  <2>3. CASE i <= Len(s) - 1
    <3>1. i \in 1..(Len(s) - 1) /\ i \in 1..(Len(s) - 1 + Len(t)) /\ i + 1 <= Len(s)
      BY <1>2, <1>6, <2>3
    <3>2. v[i] = Tail(s)[i]
      BY <1>6, <2>3, <3>1
    <3>3. Tail(s)[i] = s[i + 1]
      BY <1>4, <3>1
    <3>4. u[i + 1] = s[i + 1]
      BY <1>1, <2>1, <3>1
    <3>5. QED
      BY <2>2, <3>2, <3>3, <3>4
  <2>4. CASE ~(i <= Len(s) - 1)
    <3>1. i \in 1..(Len(s) - 1 + Len(t)) /\ ~(i + 1 <= Len(s))
      BY <1>2, <1>6, <2>4
    <3>2. v[i] = t[i - (Len(s) - 1)]
      BY <1>6, <2>4, <3>1
    <3>3. u[i + 1] = t[(i + 1) - Len(s)]
      BY <1>1, <2>1, <3>1
    <3>4. i - (Len(s) - 1) = (i + 1) - Len(s)
      BY <1>2
    <3>5. QED
      BY <2>2, <3>2, <3>3, <3>4
  <2>5. QED
    BY <2>3, <2>4
<1>8. Len(Tail(u)) = Len(v)
  BY <1>1, <1>2, <1>5, <1>6
<1>9. Tail(u) = v
  <2> HIDE DEF u, v
  <2>1. QED
    BY <1>5, <1>6, <1>7, <1>8, SeqEqual
<1>10. QED
  BY <1>3, <1>9

LEMMA QueueStep ==
    LoopTypeOK /\ [LoopNext]_loopVars
        => [Abstract!TaskNext]_(Abstract!taskVars)
<1> SUFFICES ASSUME LoopTypeOK, [LoopNext]_loopVars
             PROVE  [Abstract!TaskNext]_(Abstract!taskVars)
  OBVIOUS
<1> DEFINE q == functors \o pending
<1>0. /\ functors \in Seq(Nat) /\ pending \in Seq(Nat) /\ ran \in Seq(Nat)
      /\ Len(functors) \in Nat /\ Len(pending) \in Nat /\ Len(ran) \in Nat
  BY DEF LoopTypeOK
<1>n. Tasks + 1 \in Nat /\ Tasks + 1 = Len(q) + Len(ran) + 1
  BY <1>0, ConcatProperties DEF Tasks
<1>a. functors \o NewTask = Append(q, Len(q) + Len(ran) + 1)
  BY <1>0, <1>n, ConcatAppend, SMTT(30) DEF NewTask
<1>1. ASSUME pending' = NewTask, functors' = functors, ran' = ran
      PROVE  Abstract!Enqueue
  BY <1>1, <1>a DEF Abstract!Enqueue
<1>2. ASSUME UNCHANGED <<pending, functors, ran>>
      PROVE  UNCHANGED Abstract!taskVars
  BY <1>2 DEF Abstract!taskVars
<1>3. CASE EventQueues \/ \E p \in Producer : Push(p)
  BY <1>1, <1>3 DEF EventQueues, Push, Abstract!TaskNext
<1>4. CASE Swap
  <2>1. functors = <<>> /\ functors' = pending /\ pending' = <<>> /\ ran' = ran
    BY <1>4 DEF Swap, LoopTypeOK
  <2>2. q = pending /\ functors' \o pending' = pending
    BY <1>0, <2>1, ConcatEmptySeq
  <2>3. QED
    BY <2>1, <2>2 DEF Abstract!taskVars
<1>5. ASSUME functors # <<>>
      PROVE  q # <<>> /\ Head(q) = Head(functors)
             /\ Tail(q) = Tail(functors) \o pending
  BY <1>0, <1>5, ConcatHeadTail
<1>6. CASE RunFunctor
  BY <1>5, <1>6 DEF RunFunctor, Abstract!TaskNext, Abstract!Run
<1>7. CASE RunAndQueue
  <2>1. /\ functors # <<>> /\ functors' = Tail(functors)
        /\ pending' = Append(pending, Tasks + 1)
        /\ ran' = Append(ran, Head(functors))
    BY <1>7 DEF RunAndQueue, NewTask
  <2>2. Tail(functors) \in Seq(Nat)
    BY <1>0, <2>1, HeadTailProperties
  <2>3. Tail(functors) \o Append(pending, Tasks + 1)
            = Append(Tail(functors) \o pending, Tasks + 1)
    BY <1>0, <1>n, <2>2, ConcatAppend
  <2>4. Abstract!RunAndEnqueue
    BY <1>5, <1>n, <2>1, <2>3 DEF Abstract!RunAndEnqueue
  <2>5. QED
    BY <2>4 DEF Abstract!TaskNext
<1>8. CASE \/ Publish \/ StartLoop \/ TestQuit \/ Poll \/ EventsDone \/ RunDone
           \/ Owner \/ quit \/ (\E p \in Producer : Wakeup(p))
           \/ UNCHANGED loopVars
  <2>1. UNCHANGED <<pending, functors, ran>>
    BY <1>8 DEF Publish, StartLoop, TestQuit, Poll, EventsDone, RunDone, Owner,
       quit, Wakeup, loopVars, startLoop, quitWakeup, join
  <2>2. QED
    BY <1>2, <2>1
<1>9. QED
  BY <1>3, <1>4, <1>6, <1>7, <1>8 DEF LoopNext, LoopThread

\* EventLoop keeps its promise to those who queue functors, for any number of
\* threads: what runs are the functors in the order of their queueInLoop
\* calls, none twice and none skipped.
THEOREM LoopImplementsQueue == LoopSpec => Implements
<1>1. LoopInit => Abstract!TaskInit
  BY ConcatEmptySeq DEF LoopInit, Abstract!TaskInit
<1>2. QED
  BY <1>1, TypeInit, TypeStep, QueueStep, PTL
     DEF LoopSpec, Implements, Abstract!TaskSpec

-----------------------------------------------------------------------------
(* The timer wheel: remainders.                                            *)

LEMMA Division ==
    ASSUME NEW C \in Nat \ {0}, NEW x \in Nat
    PROVE  /\ x \div C \in Int /\ x % C \in 0..(C - 1)
           /\ x = C * (x \div C) + (x % C)
OBVIOUS

LEMMA Remainder ==
    ASSUME NEW C \in Nat \ {0}, NEW p \in Int, NEW q \in Int,
           NEW r \in 0..(C - 1), NEW s \in 0..(C - 1), C * p + r = C * q + s
    PROVE  p = q /\ r = s
<1> DEFINE k == p - q
<1>1. C * k = s - r
  OBVIOUS
<1>2. CASE k > 0
  <2>1. C * k >= C
    BY <1>2
  <2>2. QED
    BY <1>1, <2>1
<1>3. CASE k < 0
  <2>1. C * k <= -C
    BY <1>3
  <2>2. QED
    BY <1>1, <2>1
<1>4. QED
  BY <1>1, <1>2, <1>3

\* Within one turn every step has a slot of its own.
LEMMA OwnSlot ==
    ASSUME NEW C \in Nat \ {0}, NEW x \in Nat, NEW y \in Nat, x < y, y < x + C
    PROVE  x % C # y % C
<1> SUFFICES ASSUME x % C = y % C PROVE FALSE
  OBVIOUS
<1> DEFINE p == x \div C  q == y \div C  r == x % C
<1>1. /\ p \in Int /\ q \in Int /\ r \in 0..(C - 1)
      /\ x = C * p + r /\ y = C * q + r
  BY Division
<1>2. y - x \in 0..(C - 1) /\ C * p + (y - x) = C * q + 0
  BY <1>1
<1> HIDE DEF p, q, r
<1>3. y - x = 0
  <2>1. 0 \in 0..(C - 1)
    OBVIOUS
  <2>2. QED
    BY <1>1, <1>2, <2>1, Remainder
<1>4. QED
  BY <1>3

\* The wheel counts slots from its hand.
LEMMA FromHand ==
    ASSUME NEW C \in Nat \ {0}, NEW x \in Nat, NEW y \in Nat
    PROVE  ((x % C) + y) % C = (x + y) % C
<1> DEFINE z == (x % C) + y
           a == x \div C
           b == z \div C
           d == (x + y) \div C
           r == z % C
           s == (x + y) % C
<1>1. a \in Int /\ x % C \in 0..(C - 1) /\ x = C * a + (x % C)
  BY Division
<1>2. z \in Nat /\ x + y = C * a + z
  BY <1>1
<1>3. b \in Int /\ r \in 0..(C - 1) /\ z = C * b + r
  <2> HIDE DEF z, a
  <2> QED
    BY <1>2, Division
<1>4. d \in Int /\ s \in 0..(C - 1) /\ x + y = C * d + s
  <2>1. x + y \in Nat
    OBVIOUS
  <2>2. QED
    BY <2>1, Division
<1>5. r = s
  <2> HIDE DEF z, a, b, d, r, s
  <2>1. \A m, n \in Int : C * (m + n) = C * m + C * n
    OBVIOUS
  <2>2. PICK e \in Int : C * e + r = C * d + s
    <3>1. C * (a + b) = C * a + C * b /\ a + b \in Int
      BY <1>1, <1>3, <2>1
    <3>2. C * (a + b) + r = C * d + s
      BY <1>1, <1>2, <1>3, <1>4, <3>1
    <3>3. QED
      BY <3>1, <3>2
  <2>3. d \in Int /\ r \in 0..(C - 1) /\ s \in 0..(C - 1)
    BY <1>3, <1>4
  <2>4. QED
    BY <2>2, <2>3, Remainder, SMTT(30)
<1>6. QED
  BY <1>5

-----------------------------------------------------------------------------
(* Types.                                                                  *)

LEMMA NoSlotsEmpty == Slots # {} /\ \A n \in Nat : n % Capacity \in Slots
<1>1. Capacity \in Nat \ {0}
  BY WheelAssumption DEF WheelAssumption
<1>2. 0 \in Slots
  BY <1>1 DEF Slots
<1>3. \A n \in Nat : n % Capacity \in 0..(Capacity - 1)
  BY <1>1, Division
<1>4. QED
  BY <1>2, <1>3 DEF Slots

\* The slot of a task that is armed when the wheel has made n steps.
SlotOf(n) == (n + Timeout) % Capacity

LEMMA HandSlots ==
    ASSUME WheelTypeOK
    PROVE  /\ SlotFor(Timeout) = SlotOf(steps) /\ SlotOf(steps) \in Slots
           /\ (tick + 1) % Capacity = (steps + 1) % Capacity
           /\ (tick + 1) % Capacity \in Slots
<1>1. /\ Capacity \in Nat \ {0} /\ Timeout \in Nat /\ MaxSeconds \in Nat
      /\ steps \in Nat /\ 1 \in Nat /\ tick = steps % Capacity
  BY WheelAssumption DEF WheelAssumption, WheelTypeOK
<1>2. /\ (tick + Timeout) % Capacity = (steps + Timeout) % Capacity
      /\ (tick + 1) % Capacity = (steps + 1) % Capacity
  BY <1>1, FromHand
<1>3. steps + Timeout \in Nat /\ steps + 1 \in Nat
  BY <1>1
<1>4. QED
  BY <1>2, <1>3, NoSlotsEmpty DEF SlotFor, SlotOf

\* What Hold adds to the wheel.
LEMMA HoldKeeps ==
    ASSUME WheelTypeOK, NEW c \in Conn, Hold(c)
    PROVE  /\ wheel' \in [Slots -> SUBSET Conn]
           /\ UNION {wheel'[s] : s \in Slots} = known \cup {c}
           /\ \A s \in Slots :
                 wheel'[s] = IF s = SlotOf(steps) THEN wheel[s] \cup {c} ELSE wheel[s]
<1>1. wheel' = [wheel EXCEPT ![SlotOf(steps)] = @ \cup {c}] /\ SlotOf(steps) \in Slots
  BY HandSlots DEF Hold
<1>2. wheel \in [Slots -> SUBSET Conn] /\ known = UNION {wheel[s] : s \in Slots}
  BY DEF WheelTypeOK
<1>3. \A s \in Slots :
         wheel'[s] = IF s = SlotOf(steps) THEN wheel[s] \cup {c} ELSE wheel[s]
  BY <1>1, <1>2
<1>4. wheel' \in [Slots -> SUBSET Conn]
  BY <1>1, <1>2
<1>5. UNION {wheel'[s] : s \in Slots} = known \cup {c}
  BY <1>1, <1>2, <1>3
<1>6. QED
  BY <1>3, <1>4, <1>5

\* A step of the wheel: the slot under its hand is cleared, and what only this
\* slot held is gone.
LEMMA RunOneKeeps ==
    ASSUME WheelTypeOK, WheelRunOne
    PROVE  LET hand == (steps + 1) % Capacity
               gone == {c \in wheel[hand] : \A s \in Slots : c \notin wheel'[s]}
           IN  /\ tick' = hand /\ hand \in Slots
               /\ wheel' \in [Slots -> SUBSET Conn]
               /\ \A s \in Slots : wheel'[s] = IF s = hand THEN {} ELSE wheel[s]
               /\ known' = UNION {wheel'[s] : s \in Slots}
               /\ known' = known \ gone /\ gone \subseteq known
               /\ canceled' = canceled \ gone
               /\ shutdowns' = shutdowns \cup (gone \ canceled)
<1> DEFINE hand == (steps + 1) % Capacity
           gone == {c \in wheel[hand] : \A s \in Slots : c \notin wheel'[s]}
<1>1. wheel \in [Slots -> SUBSET Conn] /\ known = UNION {wheel[s] : s \in Slots}
  BY DEF WheelTypeOK
<1>2. tick' = hand /\ hand \in Slots
  BY HandSlots DEF WheelRunOne
<1>3. wheel' = [wheel EXCEPT ![hand] = {}]
  BY <1>2 DEF WheelRunOne
<1>4. /\ wheel' \in [Slots -> SUBSET Conn]
      /\ \A s \in Slots : wheel'[s] = IF s = hand THEN {} ELSE wheel[s]
  BY <1>1, <1>2, <1>3
<1>5. /\ known' = known \ gone /\ canceled' = canceled \ gone
      /\ shutdowns' = shutdowns \cup (gone \ canceled)
  BY <1>2 DEF WheelRunOne, Destroy, Released
<1> HIDE DEF hand
<1>6. gone \subseteq known /\ known \ gone = UNION {wheel'[s] : s \in Slots}
  <2>1. gone \subseteq known
    BY <1>1, <1>2
  <2>2. ASSUME NEW c \in known \ gone PROVE c \in UNION {wheel'[s] : s \in Slots}
    BY <1>1, <1>4, <2>2
  <2>3. ASSUME NEW s \in Slots, NEW c \in wheel'[s] PROVE c \in known \ gone
    BY <1>1, <1>4, <2>3
  <2>4. QED
    BY <2>1, <2>2, <2>3
<1>7. QED
  BY <1>2, <1>4, <1>5, <1>6 DEF hand

LEMMA WheelTypeInit == WheelInit => WheelTypeOK
<1> SUFFICES ASSUME WheelInit PROVE WheelTypeOK
  OBVIOUS
<1>1. Capacity \in Nat \ {0} /\ MaxSeconds \in Nat
  BY WheelAssumption DEF WheelAssumption
<1>2. 0 = 0 % Capacity
  BY <1>1
<1>3. wheel \in [Slots -> SUBSET Conn] /\ UNION {wheel[s] : s \in Slots} = {}
  BY DEF WheelInit
<1>4. QED
  BY <1>1, <1>2, <1>3 DEF WheelInit, WheelTypeOK

LEMMA WheelTypeStep == WheelTypeOK /\ [WheelNext]_wheelVars => WheelTypeOK'
<1> SUFFICES ASSUME WheelTypeOK, [WheelNext]_wheelVars PROVE WheelTypeOK'
  OBVIOUS
<1> USE WheelAssumption DEF WheelAssumption
<1>0. steps \in 0..MaxSeconds /\ seconds \in 0..MaxSeconds
  BY DEF WheelTypeOK
<1>1. ASSUME NEW c \in Conn, enableInactiveRelease(c) PROVE WheelTypeOK'
  <2>1. Hold(c) /\ known' = known \cup {c}
    BY <1>1 DEF enableInactiveRelease, TimerTaskRefreshInLoop, TimerTaskAddInLoop
  <2>2. wheel' \in [Slots -> SUBSET Conn] /\ known' = UNION {wheel'[s] : s \in Slots}
    BY <2>1, HoldKeeps
  <2>3. /\ UNCHANGED <<tick, canceled, times, steps, seconds, unread, shutdowns,
                       destroyed>>
        /\ enabled' \subseteq Conn /\ last' \in [Conn -> 0..MaxSeconds]
        /\ heard' \in [Conn -> 0..MaxSeconds]
    BY <1>0, <1>1 DEF enableInactiveRelease, WheelTypeOK
  <2>4. QED
    BY <2>1, <2>2, <2>3 DEF WheelTypeOK
<1>2. ASSUME NEW c \in Conn, handleEvent(c) PROVE WheelTypeOK'
  <2>1. IF c \in known THEN Hold(c) ELSE UNCHANGED wheel
    BY <1>2 DEF handleEvent, TimerTaskRefreshInLoop
  <2>2. /\ UNCHANGED <<tick, known, canceled, enabled, times, steps, seconds, unread,
                       shutdowns, destroyed>>
        /\ last' \in [Conn -> 0..MaxSeconds] /\ heard' \in [Conn -> 0..MaxSeconds]
    BY <1>0, <1>2 DEF handleEvent, TimerTaskRefreshInLoop, WheelTypeOK
  <2>3. wheel' \in [Slots -> SUBSET Conn] /\ known = UNION {wheel'[s] : s \in Slots}
    <3>1. CASE c \in known
      BY <2>1, <3>1, HoldKeeps
    <3>2. CASE c \notin known
      BY <2>1, <3>2 DEF WheelTypeOK
    <3>3. QED
      BY <3>1, <3>2
  <2>4. QED
    BY <2>2, <2>3 DEF WheelTypeOK
<1>3. ASSUME NEW c \in Conn, connectDestroyed(c) PROVE WheelTypeOK'
  BY <1>3 DEF connectDestroyed, Cancel, WheelTypeOK
<1>4. CASE Expire
  BY <1>4 DEF Expire, WheelTypeOK
<1>5. CASE OnTime
  BY <1>5 DEF OnTime, Expirations, WheelTypeOK
<1>6. CASE WheelRunOne
  <2>1. /\ tick' = (steps + 1) % Capacity
        /\ wheel' \in [Slots -> SUBSET Conn]
        /\ known' = UNION {wheel'[s] : s \in Slots}
        /\ canceled' \subseteq known' /\ shutdowns' \subseteq Conn
    <3>1. known \subseteq Conn
      BY DEF WheelTypeOK
    <3>2. QED
      BY <1>6, <3>1, RunOneKeeps DEF WheelTypeOK
  <2>2. /\ times' = times - 1 /\ steps' = steps + 1 /\ times > 0
        /\ UNCHANGED <<enabled, seconds, unread, last, heard, destroyed>>
    BY <1>6 DEF WheelRunOne
  <2>3. /\ times' \in 0..MaxSeconds /\ steps' \in 0..MaxSeconds
        /\ steps' + times' + unread' <= seconds'
    BY <2>2 DEF WheelTypeOK
  <2>4. QED
    BY <2>1, <2>2, <2>3 DEF WheelTypeOK
<1>7. CASE UNCHANGED wheelVars
  BY <1>7 DEF wheelVars, WheelTypeOK
<1>8. QED
  BY <1>1, <1>2, <1>3, <1>4, <1>5, <1>6, <1>7 DEF WheelNext

\* The type invariant of TimerWheel: the wheel's hand is where its steps have
\* brought it, and the map of weak pointers has exactly the tasks that a slot
\* still holds.
THEOREM WheelTypeCorrect == WheelSpec => []WheelTypeOK
BY WheelTypeInit, WheelTypeStep, PTL DEF WheelSpec

-----------------------------------------------------------------------------
(* Tasks end on time.                                                      *)

\* A slot holds a connection only for an event after which the hand has not
\* come by, and a task that lives is in the slot of its last event.
SlotsOK ==
    /\ \A c \in Conn : last[c] <= steps
    /\ \A s \in Slots : \A c \in wheel[s] :
          \E n \in 0..last[c] : steps < n + Timeout /\ s = SlotOf(n)
    /\ \A c \in known : c \in wheel[SlotOf(last[c])]

WheelInv == WheelTypeOK /\ SlotsOK /\ TaskEndsOnTime

\* Adding or refreshing a task.
LEMMA ArmKeeps ==
    ASSUME Timeout \in 1..Capacity, WheelInv, WheelTypeOK', NEW c \in Conn, Hold(c),
           known' = known \cup {c}, last' = [last EXCEPT ![c] = steps],
           UNCHANGED steps, enabled' \subseteq enabled \cup {c}
    PROVE  WheelInv'
<1>1. /\ steps \in Nat /\ Timeout \in Nat \ {0} /\ last \in [Conn -> Nat]
      /\ \A s \in Slots : wheel[s] \subseteq Conn
  BY WheelAssumption DEF WheelAssumption, WheelInv, WheelTypeOK
<1>2. \A s \in Slots :
         wheel'[s] = IF s = SlotOf(steps) THEN wheel[s] \cup {c} ELSE wheel[s]
  BY HoldKeeps DEF WheelInv
<1>3. \A d \in Conn : /\ last'[d] = IF d = c THEN steps ELSE last[d]
                      /\ last[d] <= last'[d] /\ last'[d] <= steps
  BY <1>1 DEF WheelInv, SlotsOK
<1>4. ASSUME NEW s \in Slots, NEW d \in wheel'[s]
      PROVE  \E n \in 0..last'[d] : steps < n + Timeout /\ s = SlotOf(n)
  <2>1. d \in Conn
    BY <1>1, <1>2
  <2>2. CASE d \in wheel[s]
    <3>1. PICK n \in 0..last[d] : steps < n + Timeout /\ s = SlotOf(n)
      BY <2>2 DEF WheelInv, SlotsOK
    <3>2. n \in 0..last'[d]
      BY <1>1, <1>3, <2>1
    <3>3. QED
      BY <3>1, <3>2
  <2>3. CASE d \notin wheel[s]
    <3>1. wheel'[s] # wheel[s]
      BY <2>3
    <3>2. s = SlotOf(steps) /\ wheel'[s] = wheel[s] \cup {c}
      BY <1>2, <3>1
    <3>3. d = c
      BY <2>3, <3>2
    <3>4. steps \in 0..last'[d] /\ steps < steps + Timeout
      BY <1>1, <1>3, <3>3
    <3>5. QED
      BY <3>2, <3>4
  <2>4. QED
    BY <2>2, <2>3
<1>5. ASSUME NEW d \in known' PROVE d \in wheel'[SlotOf(last'[d])]
  <2>1. SlotOf(steps) \in Slots /\ d \in Conn
    BY HandSlots DEF WheelInv, WheelTypeOK
  <2>2. CASE d = c
    BY <1>2, <1>3, <2>1, <2>2
  <2>3. CASE d # c
    <3>1. d \in wheel[SlotOf(last[d])] /\ last'[d] = last[d]
      BY <1>3, <2>1, <2>3 DEF WheelInv, SlotsOK
    <3>2. SlotOf(last[d]) \in Slots
      BY <1>1, <2>1, NoSlotsEmpty DEF SlotOf
    <3>3. QED
      BY <1>2, <3>1, <3>2
  <2>4. QED
    BY <2>2, <2>3
<1>6. ASSUME NEW d \in enabled'
      PROVE  d \in known' <=> steps < last'[d] + Timeout
  <2>1. CASE d = c
    BY <1>1, <1>3, <2>1
  <2>2. CASE d # c
    BY <1>3, <2>2 DEF WheelInv, WheelTypeOK, TaskEndsOnTime
  <2>3. QED
    BY <2>1, <2>2
<1>7. QED
  BY <1>3, <1>4, <1>5, <1>6 DEF WheelInv, SlotsOK, TaskEndsOnTime, SlotOf

\* Steps that move neither the wheel nor its tasks.
LEMMA WheelSame ==
    ASSUME WheelInv, WheelTypeOK', UNCHANGED <<steps, wheel, known, last>>,
           enabled' \subseteq enabled
    PROVE  WheelInv'
BY DEF WheelInv, SlotsOK, TaskEndsOnTime, SlotOf

\* The hand meets, in the slot that it clears, only tasks whose time has come,
\* and no other slot holds those.
LEMMA RunOneStep ==
    ASSUME Timeout \in 1..Capacity, WheelInv, WheelTypeOK', WheelRunOne
    PROVE  WheelInv'
<1> DEFINE hand == (steps + 1) % Capacity
<1>1. /\ steps \in Nat /\ Timeout \in Nat \ {0} /\ last \in [Conn -> Nat]
      /\ Capacity \in Nat \ {0} /\ Timeout <= Capacity
      /\ enabled \subseteq Conn /\ \A s \in Slots : wheel[s] \subseteq Conn
  BY WheelAssumption DEF WheelAssumption, WheelInv, WheelTypeOK
<1>2. /\ steps' = steps + 1 /\ UNCHANGED <<enabled, last>>
  BY DEF WheelRunOne
<1>3. /\ hand \in Slots /\ known \subseteq Conn
      /\ \A s \in Slots : wheel'[s] = IF s = hand THEN {} ELSE wheel[s]
      /\ known' \subseteq known
      /\ \A d \in known : d \in known' <=> \E s \in Slots : d \in wheel'[s]
  BY RunOneKeeps DEF WheelInv, WheelTypeOK
<1> HIDE DEF hand
<1>4. ASSUME NEW n \in Nat, n <= steps, steps < n + Timeout
      PROVE  SlotOf(n) = hand <=> steps' = n + Timeout
  <2>1. CASE steps + 1 = n + Timeout
    BY <1>2, <2>1 DEF SlotOf, hand
  <2>2. CASE steps + 1 # n + Timeout
    <3>1. /\ steps + 1 \in Nat /\ n + Timeout \in Nat
          /\ steps + 1 < n + Timeout /\ n + Timeout < (steps + 1) + Capacity
      BY <1>1, <1>4, <2>2
    <3>2. (steps + 1) % Capacity # (n + Timeout) % Capacity
      BY <1>1, <3>1, OwnSlot
    <3>3. QED
      BY <1>2, <2>2, <3>2 DEF SlotOf, hand
  <2>3. QED
    BY <2>1, <2>2
<1>5. \A c \in Conn : last'[c] <= steps'
  BY <1>1, <1>2 DEF WheelInv, SlotsOK
<1>6. ASSUME NEW s \in Slots, NEW c \in wheel'[s]
      PROVE  \E n \in 0..last'[c] : steps' < n + Timeout /\ s = SlotOf(n)
  <2>1. s # hand /\ c \in wheel[s] /\ c \in Conn
    BY <1>1, <1>3, <1>6
  <2>2. PICK n \in 0..last[c] : steps < n + Timeout /\ s = SlotOf(n)
    BY <2>1 DEF WheelInv, SlotsOK
  <2>3. n \in Nat /\ n <= steps
    BY <1>1, <2>1 DEF WheelInv, SlotsOK
  <2>4. steps' # n + Timeout
    BY <1>4, <2>1, <2>2, <2>3
  <2>5. QED
    BY <1>1, <1>2, <2>2, <2>3, <2>4
<1>7. ASSUME NEW c \in known
      PROVE  /\ steps < last[c] + Timeout
             /\ c \in known' <=> steps' < last[c] + Timeout
             /\ c \in known' => c \in wheel'[SlotOf(last[c])]
  <2>1. /\ c \in Conn /\ last[c] \in Nat /\ last[c] <= steps
        /\ c \in wheel[SlotOf(last[c])]
    BY <1>1, <1>3 DEF WheelInv, SlotsOK
  <2>2. SlotOf(last[c]) \in Slots
    BY <1>1, <2>1, NoSlotsEmpty DEF SlotOf
  <2>3. steps < last[c] + Timeout
    <3>1. PICK n \in 0..last[c] : steps < n + Timeout
      BY <2>1, <2>2 DEF WheelInv, SlotsOK
    <3>2. QED
      BY <1>1, <2>1, <3>1
  <2>4. CASE steps' = last[c] + Timeout
    <3>1. ASSUME NEW s \in Slots, c \in wheel'[s] PROVE FALSE
      <4>1. PICK n \in 0..last[c] : steps' < n + Timeout
        BY <1>2, <1>6, <3>1
      <4>2. QED
        BY <1>1, <2>1, <2>4, <4>1
    <3>2. c \notin known'
      BY <1>3, <3>1
    <3>3. QED
      BY <1>1, <1>2, <2>1, <2>3, <2>4, <3>2
  <2>5. CASE steps' # last[c] + Timeout
    <3>1. c \in wheel'[SlotOf(last[c])]
      BY <1>3, <1>4, <2>1, <2>2, <2>3, <2>5
    <3>2. QED
      BY <1>1, <1>2, <1>3, <2>1, <2>2, <2>3, <2>5, <3>1
  <2>6. QED
    BY <2>4, <2>5
<1>8. ASSUME NEW c \in enabled
      PROVE  c \in known' <=> steps' < last[c] + Timeout
  <2>1. CASE c \in known
    BY <1>7, <2>1
  <2>2. CASE c \notin known
    BY <1>1, <1>2, <1>3, <2>2 DEF WheelInv, TaskEndsOnTime
  <2>3. QED
    BY <2>1, <2>2
<1>9. SlotsOK'
  BY <1>2, <1>3, <1>5, <1>6, <1>7 DEF SlotsOK, SlotOf
<1>10. QED
  BY <1>2, <1>8, <1>9 DEF WheelInv, TaskEndsOnTime

\* A task is destroyed exactly when the wheel has made Timeout steps since its
\* connection's last event, whatever the capacity of the wheel and however
\* often the task was refreshed, if the timeout is no longer than the wheel.
THEOREM EndsOnTimeCorrect ==
    ASSUME Timeout \in 1..Capacity
    PROVE  WheelSpec => []TaskEndsOnTime
<1>1. WheelInit => WheelInv
  <2> SUFFICES ASSUME WheelInit PROVE WheelInv
    OBVIOUS
  <2>1. WheelTypeOK
    BY WheelTypeInit
  <2>2. SlotsOK /\ TaskEndsOnTime
    BY DEF WheelInit, SlotsOK, TaskEndsOnTime
  <2>3. QED
    BY <2>1, <2>2 DEF WheelInv
<1>2. WheelInv /\ [WheelNext]_wheelVars => WheelInv'
  <2> SUFFICES ASSUME WheelInv, [WheelNext]_wheelVars PROVE WheelInv'
    OBVIOUS
  <2>0. WheelTypeOK'
    BY WheelTypeStep DEF WheelInv
  <2>1. ASSUME NEW c \in Conn, enableInactiveRelease(c) PROVE WheelInv'
    <3>1. /\ Hold(c) /\ known' = known \cup {c} /\ UNCHANGED steps
          /\ last' = [last EXCEPT ![c] = steps] /\ enabled' = enabled \cup {c}
      BY <2>1 DEF enableInactiveRelease, TimerTaskRefreshInLoop, TimerTaskAddInLoop
    <3>2. QED
      BY <2>0, <3>1, ArmKeeps
  <2>2. ASSUME NEW c \in Conn, handleEvent(c) PROVE WheelInv'
    <3>1. CASE c \in known
      <4>1. /\ Hold(c) /\ known' = known \cup {c} /\ UNCHANGED steps
            /\ last' = [last EXCEPT ![c] = steps] /\ enabled' = enabled
        BY <2>2, <3>1 DEF handleEvent, TimerTaskRefreshInLoop
      <4>2. QED
        BY <2>0, <4>1, ArmKeeps
    <3>2. CASE c \notin known
      <4>1. last' = last
        BY <2>2, <3>2 DEF handleEvent, WheelInv, WheelTypeOK
      <4>2. UNCHANGED <<steps, wheel, known>> /\ enabled' = enabled
        BY <2>2, <3>2 DEF handleEvent, TimerTaskRefreshInLoop
      <4>3. QED
        BY <2>0, <4>1, <4>2, WheelSame
    <3>3. QED
      BY <3>1, <3>2
  <2>3. ASSUME NEW c \in Conn, connectDestroyed(c) PROVE WheelInv'
    <3>1. UNCHANGED <<steps, wheel, known, last>> /\ enabled' \subseteq enabled
      BY <2>3 DEF connectDestroyed
    <3>2. QED
      BY <2>0, <3>1, WheelSame
  <2>4. CASE Expire \/ OnTime \/ UNCHANGED wheelVars
    <3>1. UNCHANGED <<steps, wheel, known, last>> /\ enabled' = enabled
      BY <2>4 DEF Expire, OnTime, wheelVars
    <3>2. QED
      BY <2>0, <3>1, WheelSame
  <2>5. CASE WheelRunOne
    BY <2>0, <2>5, RunOneStep
  <2>6. QED
    BY <2>1, <2>2, <2>3, <2>4, <2>5 DEF WheelNext
<1>3. WheelInv => TaskEndsOnTime
  BY DEF WheelInv
<1>4. QED
  BY <1>1, <1>2, <1>3, PTL DEF WheelSpec

-----------------------------------------------------------------------------
(* Destroyed connections.                                                  *)

\* A task that outlives its connection is cancelled.
CanceledOK == WheelTypeOK /\ destroyed \cap known \subseteq canceled

\* No step of the wheel calls shutdown on a connection that is destroyed: the
\* callback's raw pointer is never used after connectDestroyed, whatever the
\* timeout.
THEOREM DestroyedCorrect == WheelSpec => NoShutdownAfterDestroy
<1>1. WheelInit => CanceledOK
  BY WheelTypeInit DEF WheelInit, CanceledOK
<1>2. ASSUME CanceledOK, [WheelNext]_wheelVars
      PROVE  /\ CanceledOK'
             /\ \A c \in Conn : c \in shutdowns' \ shutdowns => c \notin destroyed
  <2>0. WheelTypeOK'
    BY <1>2, WheelTypeStep DEF CanceledOK
  <2>1. ASSUME NEW c \in Conn, enableInactiveRelease(c) \/ handleEvent(c)
        PROVE  /\ known' \subseteq known \cup {c} /\ c \notin destroyed
               /\ UNCHANGED <<canceled, shutdowns, destroyed>>
    BY <2>1 DEF enableInactiveRelease, handleEvent, TimerTaskRefreshInLoop,
                TimerTaskAddInLoop
  <2>2. ASSUME NEW c \in Conn, connectDestroyed(c)
        PROVE  /\ destroyed' = destroyed \cup {c} /\ UNCHANGED <<known, shutdowns>>
               /\ canceled' = IF c \in known THEN canceled \cup {c} ELSE canceled
    BY <2>2 DEF connectDestroyed, Cancel
  <2>3. CASE Expire \/ OnTime \/ UNCHANGED wheelVars
    <3>1. UNCHANGED <<canceled, known, shutdowns, destroyed>>
      BY <2>3 DEF Expire, OnTime, wheelVars
    <3>2. QED
      BY <1>2, <2>0, <3>1 DEF CanceledOK
  <2>4. CASE WheelRunOne
    <3>1. PICK gone \in SUBSET known :
             /\ known' = known \ gone /\ canceled' = canceled \ gone
             /\ shutdowns' = shutdowns \cup (gone \ canceled)
      BY <1>2, <2>4, RunOneKeeps DEF CanceledOK
    <3>2. destroyed' = destroyed
      BY <2>4 DEF WheelRunOne
    <3>3. QED
      BY <1>2, <2>0, <3>1, <3>2 DEF CanceledOK
  <2>5. QED
    BY <1>2, <2>0, <2>1, <2>2, <2>3, <2>4 DEF WheelNext, CanceledOK
<1>3. CanceledOK /\ [WheelNext]_wheelVars
         => CanceledOK'
            /\ [\A c \in Conn :
                   c \in shutdowns' \ shutdowns => c \notin destroyed]_wheelVars
  BY <1>2
<1>4. QED
  BY <1>1, <1>3, PTL DEF WheelSpec, NoShutdownAfterDestroy
=============================================================================
