----------------------------- MODULE PoolProofs -----------------------------
(***************************************************************************)
(* MysqlConnectionPool for every number of consumers and every size: its   *)
(* type, that no connection is lost or shared, that the pool is short only *)
(* while InitSize connections are in use, and that the head is the oldest. *)
(***************************************************************************)
EXTENDS MysqlPool, SequenceTheorems, FiniteSetTheorems, TLAPS

-----------------------------------------------------------------------------
(* The type invariant.                                                     *)

LEMMA PoolTypeInit == PoolInit => PoolTypeOK
<1> SUFFICES ASSUME PoolInit PROVE PoolTypeOK
  OBVIOUS
<1>1. idle \in Seq(IdleConn)
  <2>1. CASE configured = TRUE
    <3>1. idle = [n \in 1..InitSize |-> [id |-> n, since |-> 0]]
      BY <2>1 DEF PoolInit
    <3>2. QED
      BY <3>1, PoolAssumption DEF IdleConn
  <2>2. CASE configured = FALSE
    <3>1. idle = <<>>
      BY <2>2 DEF PoolInit
    <3>2. QED
      BY <3>1
  <2>3. QED
    BY <2>1, <2>2 DEF PoolInit
<1>2. cnt \in 0..MaxSize /\ made \in 0..MaxMade /\ now \in 0..MaxNow
  BY PoolAssumption DEF PoolInit
<1>3. /\ consumer \in [Consumer -> {"out", "asking", "waiting", "timeout", "using"}]
      /\ producer \in {"awake", "waiting"} /\ undefined \in BOOLEAN
      /\ configured \in BOOLEAN
  BY DEF PoolInit
<1>4. held \in [Consumer -> 0..MaxMade]
  BY PoolAssumption DEF PoolInit
<1>5. \A c \in Consumer : held[c] # 0 <=> consumer[c] = "using"
  BY DEF PoolInit
<1>6. QED
  BY <1>1, <1>2, <1>3, <1>4, <1>5 DEF PoolTypeOK

\* What a scan leaves of a sequence.
LEMMA SuffixProperties ==
    ASSUME NEW S, NEW s \in Seq(S), NEW n \in 0..Len(s)
    PROVE  /\ SubSeq(s, n + 1, Len(s)) \in Seq(S)
           /\ Len(SubSeq(s, n + 1, Len(s))) = Len(s) - n
           /\ \A i \in 1..(Len(s) - n) : SubSeq(s, n + 1, Len(s))[i] = s[n + i]
<1>1. Len(s) \in Nat /\ n + 1 \in Int /\ Len(s) \in Int
  BY LenProperties
<1>2. \A i \in (n + 1)..Len(s) : s[i] \in S
  BY ElementOfSeq, <1>1
<1>3. /\ SubSeq(s, n + 1, Len(s)) \in Seq(S)
      /\ Len(SubSeq(s, n + 1, Len(s)))
            = IF n + 1 <= Len(s) THEN Len(s) - (n + 1) + 1 ELSE 0
      /\ \A i \in 1..(Len(s) - (n + 1) + 1) :
            SubSeq(s, n + 1, Len(s))[i] = s[n + 1 + i - 1]
  BY <1>1, <1>2, SubSeqProperties
<1>4. QED
  BY <1>1, <1>3

LEMMA PoolTypeStep == PoolTypeOK /\ [PoolNext]_poolVars => PoolTypeOK'
<1> SUFFICES ASSUME PoolTypeOK, [PoolNext]_poolVars
             PROVE  PoolTypeOK'
  OBVIOUS
<1> USE PoolAssumption DEF PoolTypeOK
<1>1. ASSUME NEW c \in Consumer, Call(c)
      PROVE  PoolTypeOK'
  BY <1>1 DEF Call
<1>2. ASSUME NEW c \in Consumer, Take(c)
      PROVE  PoolTypeOK'
  <2>1. Head(idle) \in IdleConn /\ idle' \in Seq(IdleConn)
    BY <1>2, HeadTailProperties DEF Take, PopFront
  <2>2. Head(idle).id \in 1..MaxMade
    BY <2>1 DEF IdleConn
  <2>3. QED
    BY <1>2, <2>1, <2>2 DEF Take, NotifyAll
<1>3. ASSUME NEW c \in Consumer, Wait(c) \/ TimeOut(c) \/ GiveUp(c)
      PROVE  PoolTypeOK'
  BY <1>3 DEF Wait, TimeOut, GiveUp
<1>4. ASSUME NEW c \in Consumer, Release(c)
      PROVE  PoolTypeOK'
  <2>1. [id |-> held[c], since |-> now] \in IdleConn
    BY <1>4 DEF Release, IdleConn
  <2>2. idle' \in Seq(IdleConn)
    BY <1>4, <2>1, AppendProperties DEF Release, Returned
  <2>3. QED
    BY <1>4, <2>2 DEF Release
<1>5. CASE ProducerWaits
  BY <1>5 DEF ProducerWaits
<1>6. CASE Produce
  <2>1. idle' \in Seq(IdleConn)
    <3>1. cnt < MaxSize => [id |-> made + 1, since |-> now] \in IdleConn
      BY <1>6 DEF Produce, IdleConn
    <3>2. CASE cnt < MaxSize
      <4>1. idle' = <<[id |-> made + 1, since |-> now]>>
        BY <1>6, <3>2 DEF Produce
      <4>2. QED
        BY <3>1, <3>2, <4>1
    <3>3. CASE ~(cnt < MaxSize)
      BY <1>6, <3>3 DEF Produce
    <3>4. QED
      BY <3>2, <3>3
  <2>2. QED
    BY <1>6, <2>1 DEF Produce, NotifyAll
<1>7. CASE Scan
  <2>1. PICK n \in 0..Len(idle) :
           ScanTakes(n) /\ idle' = SubSeq(idle, n + 1, Len(idle)) /\ Deleted(n)
           /\ undefined' = (n = Len(idle) /\ cnt > InitSize + n)
    BY <1>7 DEF Scan
  <2>2. Len(idle) \in Nat /\ idle' \in Seq(IdleConn)
    BY <2>1, SuffixProperties, LenProperties
  <2>3. cnt' \in 0..MaxSize
    BY <2>1, <2>2 DEF ScanTakes, Deleted
  <2>4. QED
    BY <1>7, <2>1, <2>2, <2>3 DEF Scan
<1>8. CASE Tick
  BY <1>8 DEF Tick
<1>9. CASE UNCHANGED poolVars
  BY <1>9 DEF poolVars
<1>10. QED
  BY <1>1, <1>2, <1>3, <1>4, <1>5, <1>6, <1>7, <1>8, <1>9
     DEF PoolNext, PoolStep

\* Every variable of the pool keeps its type: the count stays within
\* _maxSize, and exactly the consumers that use a connection hold one.
THEOREM PoolTypeCorrect == PoolSpec => []PoolTypeOK
BY PoolTypeInit, PoolTypeStep, PTL DEF PoolSpec

-----------------------------------------------------------------------------
(* The count.  A consumer that takes a connection, or gives one back, moves *)
(* it between the queue and those in use; the scanner and the producer      *)
(* change the queue and the count alike, and the scanner stops at InitSize. *)

LEMMA UsingFinite == PoolAssumption => IsFiniteSet(Using)
<1>1. Using \subseteq Consumer
  BY DEF Using
<1>2. QED
  BY <1>1, FS_Subset DEF PoolAssumption

\* A wakeup of everybody leaves alone who uses a connection.
LEMMA NotifyKeepsUsing ==
    ASSUME PoolTypeOK, NEW moved \in [Consumer -> {"out", "asking", "waiting",
                                                   "timeout", "using"}],
           NotifyAll(moved)
    PROVE  Using' = {c \in Consumer : moved[c] = "using"}
BY DEF NotifyAll, Using, PoolTypeOK

LEMMA TakeUsing ==
    ASSUME PoolTypeOK, NEW c \in Consumer, Take(c)
    PROVE  Using' = Using \cup {c} /\ c \notin Using
<1> DEFINE moved == [consumer EXCEPT ![c] = "using"]
<1>1. moved \in [Consumer -> {"out", "asking", "waiting", "timeout", "using"}]
  BY DEF PoolTypeOK
<1>2. Using' = {d \in Consumer : moved[d] = "using"}
  BY <1>1, NotifyKeepsUsing DEF Take
<1>3. QED
  BY <1>2 DEF Take, Using, PoolTypeOK

LEMMA ReleaseUsing ==
    ASSUME PoolTypeOK, NEW c \in Consumer, Release(c)
    PROVE  Using' = Using \ {c} /\ c \in Using
BY DEF Release, Using, PoolTypeOK

LEMMA UsingSame ==
    ASSUME PoolTypeOK,
           \/ \E c \in Consumer : Call(c) \/ Wait(c) \/ GiveUp(c) \/ TimeOut(c)
           \/ ProducerWaits \/ Produce \/ Scan \/ Tick \/ UNCHANGED poolVars
    PROVE  Using' = Using
<1>1. ASSUME NEW c \in Consumer, Call(c) \/ Wait(c) \/ GiveUp(c) \/ TimeOut(c)
      PROVE  Using' = Using
  BY <1>1 DEF Call, Wait, GiveUp, TimeOut, Using, PoolTypeOK
<1>2. CASE Produce
  <2>1. consumer \in [Consumer -> {"out", "asking", "waiting", "timeout", "using"}]
    BY DEF PoolTypeOK
  <2>2. QED
    BY <1>2, <2>1, NotifyKeepsUsing DEF Produce, Using
<1>3. CASE ProducerWaits \/ Scan \/ Tick \/ UNCHANGED poolVars
  BY <1>3 DEF ProducerWaits, Scan, Tick, poolVars, Using
<1>4. QED
  BY <1>1, <1>2, <1>3

\* The scanner leaves a pool that has started its first InitSize connections.
AtLeastInit == configured => cnt >= InitSize

LEMMA CountInit == PoolInit => CountIsPool /\ AtLeastInit
<1> SUFFICES ASSUME PoolInit PROVE CountIsPool /\ AtLeastInit
  OBVIOUS
<1>1. Len(idle) = cnt /\ cnt \in Nat /\ AtLeastInit
  BY PoolAssumption DEF PoolInit, AtLeastInit
<1>2. Using = {}
  BY DEF PoolInit, Using
<1>3. QED
  BY <1>1, <1>2, FS_EmptySet DEF CountIsPool

LEMMA CountStep ==
    PoolTypeOK /\ CountIsPool /\ AtLeastInit /\ [PoolNext]_poolVars
        => CountIsPool' /\ AtLeastInit'
<1> SUFFICES ASSUME PoolTypeOK, CountIsPool, AtLeastInit, [PoolNext]_poolVars
             PROVE  CountIsPool' /\ AtLeastInit'
  OBVIOUS
<1>a. IsFiniteSet(Using) /\ Cardinality(Using) \in Nat
  BY UsingFinite, PoolAssumption, FS_CardinalityType
<1>b. Len(idle) \in Nat /\ cnt \in Nat /\ InitSize \in Nat
  BY PoolAssumption, LenProperties DEF PoolTypeOK
<1>1. ASSUME NEW c \in Consumer, Take(c)
      PROVE  CountIsPool' /\ AtLeastInit'
  <2>1. Len(idle') = Len(idle) - 1
    BY <1>1, HeadTailProperties DEF Take, PopFront, PoolTypeOK
  <2>2. Cardinality(Using') = Cardinality(Using) + 1
    BY <1>1, <1>a, TakeUsing, FS_AddElement
  <2>3. cnt' = cnt /\ configured' = configured
    BY <1>1 DEF Take
  <2>4. QED
    BY <1>a, <1>b, <2>1, <2>2, <2>3 DEF CountIsPool, AtLeastInit
<1>2. ASSUME NEW c \in Consumer, Release(c)
      PROVE  CountIsPool' /\ AtLeastInit'
  <2>1. Len(idle') = Len(idle) + 1
    BY <1>2 DEF Release, Returned, PoolTypeOK
  <2>2. Cardinality(Using') = Cardinality(Using) - 1
    BY <1>2, <1>a, ReleaseUsing, FS_RemoveElement
  <2>3. cnt' = cnt /\ configured' = configured
    BY <1>2 DEF Release
  <2>4. QED
    BY <1>a, <1>b, <2>1, <2>2, <2>3 DEF CountIsPool, AtLeastInit
<1>3. CASE Produce
  <2>0. configured' = configured
    BY <1>3 DEF Produce
  <2>1. Using' = Using
    BY <1>3, UsingSame
  <2>2. CASE cnt < MaxSize
    <3>1. Len(idle') = Len(idle) + 1 /\ cnt' = cnt + 1
      BY <1>3, <2>2 DEF Produce
    <3>2. QED
      BY <1>a, <1>b, <2>1, <3>1, <2>0 DEF CountIsPool, AtLeastInit
  <2>3. CASE ~(cnt < MaxSize)
    BY <1>3, <2>1, <2>3 DEF Produce, CountIsPool, AtLeastInit
  <2>4. QED
    BY <2>2, <2>3
<1>4. CASE Scan
  <2>1. Using' = Using
    BY <1>4, UsingSame
  <2>2. PICK n \in 0..Len(idle) :
           ScanTakes(n) /\ idle' = SubSeq(idle, n + 1, Len(idle)) /\ Deleted(n)
    BY <1>4 DEF Scan
  <2>3. Len(idle') = Len(idle) - n
    BY <2>2, SuffixProperties DEF PoolTypeOK
  <2>4. cnt' = cnt - n /\ cnt >= InitSize + n
    BY <2>2 DEF ScanTakes, Deleted
  <2>5. QED
    BY <1>a, <1>b, <2>1, <2>3, <2>4 DEF CountIsPool, AtLeastInit
<1>5. CASE ProducerWaits \/ Tick \/ UNCHANGED poolVars
  <2>1. Using' = Using
    BY <1>5, UsingSame
  <2>2. idle' = idle /\ cnt' = cnt /\ configured' = configured
    BY <1>5 DEF ProducerWaits, Tick, poolVars
  <2>3. QED
    BY <2>1, <2>2 DEF CountIsPool, AtLeastInit
<1>6. ASSUME NEW c \in Consumer, Call(c) \/ Wait(c) \/ GiveUp(c) \/ TimeOut(c)
      PROVE  CountIsPool' /\ AtLeastInit'
  <2>1. Using' = Using
    BY <1>6, UsingSame
  <2>2. idle' = idle /\ cnt' = cnt /\ configured' = configured
    BY <1>6 DEF Call, Wait, GiveUp, TimeOut
  <2>3. QED
    BY <2>1, <2>2 DEF CountIsPool, AtLeastInit
<1>7. QED
  BY <1>1, <1>2, <1>3, <1>4, <1>5, <1>6 DEF PoolNext, PoolStep

\* _connectionCnt is the number of connections that exist, in the queue or in
\* use, after any order of taking, returning, making and deleting.
THEOREM CountCorrect == PoolSpec => [](CountIsPool /\ AtLeastInit)
<1>1. PoolInit => PoolTypeOK /\ CountIsPool /\ AtLeastInit
  BY PoolTypeInit, CountInit
<1>2. PoolTypeOK /\ (CountIsPool /\ AtLeastInit) /\ [PoolNext]_poolVars
         => (CountIsPool /\ AtLeastInit)'
  BY CountStep
<1>3. QED
  BY <1>1, <1>2, PoolTypeCorrect, PTL DEF PoolSpec

\* getMysqlConnection can find no connection only while InitSize others are
\* in use: a server that has found its Mysql.ini, with fewer threads that
\* query, never gets nullptr.
THEOREM PoolNeverShort == PoolSpec => []ShortOnlyWhenInUse
<1>1. PoolTypeOK /\ CountIsPool /\ AtLeastInit => ShortOnlyWhenInUse
  <2> SUFFICES ASSUME PoolTypeOK, CountIsPool, AtLeastInit, configured, idle = <<>>
               PROVE  Cardinality(Using) >= InitSize
    BY DEF ShortOnlyWhenInUse
  <2>1. Cardinality(Using) \in Nat
    BY UsingFinite, PoolAssumption, FS_CardinalityType
  <2>2. QED
    BY <2>1 DEF CountIsPool, AtLeastInit
<1>2. QED
  BY <1>1, PoolTypeCorrect, CountCorrect, PTL

-----------------------------------------------------------------------------
(* Who has which connection.                                               *)

\* Connections are numbered as they are made, the queue has no time after
\* now, and nobody shares a connection.
OneOwner ==
    /\ \A n \in 1..Len(idle) : idle[n].id <= made /\ idle[n].since <= now
    /\ \A c \in Consumer : held[c] <= made
    /\ ConnectionsAreExclusive /\ HeadIsOldest

LEMMA OneOwnerInit == PoolInit => OneOwner
<1> SUFFICES ASSUME PoolInit PROVE OneOwner
  OBVIOUS
<1>1. /\ Len(idle) = made /\ made \in Nat
      /\ \A n \in 1..Len(idle) : idle[n].id = n /\ idle[n].since = 0
  BY PoolAssumption DEF PoolInit
<1>2. Using = {}
  BY DEF PoolInit, Using
<1>3. QED
  BY <1>1, <1>2, PoolAssumption
     DEF PoolInit, OneOwner, ConnectionsAreExclusive, HeadIsOldest

\* What is taken from the front of the queue leaves the rest in order.
LEMMA SuffixInOrder ==
    ASSUME PoolTypeOK, OneOwner, NEW k \in 0..Len(idle),
           Len(idle') = Len(idle) - k,
           \A i \in 1..Len(idle') : idle'[i] = idle[k + i]
    PROVE  /\ \A i \in 1..Len(idle') : k + i \in 1..Len(idle)
           /\ \A m, n \in 1..Len(idle') : idle'[m].id = idle'[n].id => m = n
           /\ HeadIsOldest'
<1>1. Len(idle) \in Nat
  BY LenProperties DEF PoolTypeOK
<1>2. \A i \in 1..Len(idle') : k + i \in 1..Len(idle)
  BY <1>1
<1>3. ASSUME NEW m \in 1..Len(idle'), NEW n \in 1..Len(idle')
      PROVE  /\ idle'[m].id = idle'[n].id => m = n
             /\ m < n => idle'[m].since <= idle'[n].since
  <2>1. k + m \in 1..Len(idle) /\ k + n \in 1..Len(idle)
    BY <1>2
  <2>2. idle'[m] = idle[k + m] /\ idle'[n] = idle[k + n]
    OBVIOUS
  <2>3. idle[k + m].id = idle[k + n].id => k + m = k + n
    BY <2>1 DEF OneOwner, ConnectionsAreExclusive
  <2>4. k + m < k + n => idle[k + m].since <= idle[k + n].since
    BY <2>1 DEF OneOwner, HeadIsOldest
  <2>5. QED
    BY <1>1, <2>2, <2>3, <2>4
<1>4. QED
  BY <1>2, <1>3 DEF HeadIsOldest

LEMMA OneOwnerStep ==
    PoolTypeOK /\ OneOwner /\ [PoolNext]_poolVars => OneOwner'
<1> SUFFICES ASSUME PoolTypeOK, OneOwner, [PoolNext]_poolVars
             PROVE  OneOwner'
  OBVIOUS
<1>a. /\ Len(idle) \in Nat /\ made \in Nat /\ now \in Nat
      /\ held \in [Consumer -> Nat]
      /\ \A n \in 1..Len(idle) : idle[n].id \in Nat /\ idle[n].since \in Nat
  <2>1. \A n \in 1..Len(idle) : idle[n] \in IdleConn
    BY ElementOfSeq DEF PoolTypeOK
  <2>2. QED
    BY <2>1, LenProperties, PoolAssumption DEF PoolTypeOK, IdleConn
<1>b. \A c \in Using : c \in Consumer /\ held[c] # 0
  BY DEF Using, PoolTypeOK
<1>1. ASSUME NEW c \in Consumer, Take(c)
      PROVE  OneOwner'
  <2>1. /\ idle # <<>> /\ Len(idle) >= 1
        /\ Len(idle') = Len(idle) - 1
        /\ \A n \in 1..Len(idle') : idle'[n] = idle[n + 1]
        /\ held' = [held EXCEPT ![c] = idle[1].id]
        /\ made' = made /\ now' = now
    <3>1. idle # <<>> /\ idle' = Tail(idle)
          /\ held' = [held EXCEPT ![c] = Head(idle).id]
          /\ made' = made /\ now' = now
      BY <1>1 DEF Take, PopFront
    <3>2. idle \in Seq(IdleConn) /\ Head(idle) = idle[1]
      BY <3>1 DEF PoolTypeOK
    <3>3. /\ Len(Tail(idle)) = Len(idle) - 1
          /\ \A n \in 1..Len(Tail(idle)) : Tail(idle)[n] = idle[n + 1]
      BY <3>1, <3>2, HeadTailProperties
    <3>4. Len(idle) >= 1
      BY <1>a, <3>1, <3>2
    <3>5. QED
      BY <3>1, <3>2, <3>3, <3>4
  <2>2. Using' = Using \cup {c} /\ c \notin Using
    BY <1>1, TakeUsing
  <2>3. /\ \A n \in 1..Len(idle') : n + 1 \in 1..Len(idle)
        /\ \A m, n \in 1..Len(idle') : idle'[m].id = idle'[n].id => m = n
        /\ HeadIsOldest'
    <3>1. 1 \in 0..Len(idle)
      BY <1>a, <2>1
    <3>2. \A n \in 1..Len(idle') : idle'[n] = idle[1 + n] /\ 1 + n = n + 1
      BY <1>a, <2>1
    <3>3. QED
      BY <2>1, <3>1, <3>2, SuffixInOrder
  <2>4. \A d \in Consumer : held'[d] = IF d = c THEN idle[1].id ELSE held[d]
    BY <1>a, <2>1
  <2>5. (\A n \in 1..Len(idle) : idle[n].id <= made /\ idle[n].since <= now)'
        /\ (\A d \in Consumer : held[d] <= made)'
    BY <1>a, <2>1, <2>3, <2>4, SMTT(30) DEF OneOwner
  <2>6. \A d \in Using', n \in 1..Len(idle') : held'[d] # idle'[n].id
    <3> SUFFICES ASSUME NEW d \in Using', NEW n \in 1..Len(idle')
                 PROVE  held'[d] # idle'[n].id
      OBVIOUS
    <3>1. idle'[n] = idle[n + 1] /\ n + 1 \in 1..Len(idle) /\ n + 1 # 1
      BY <1>a, <2>1, <2>3
    <3>2. CASE d = c
      <4>1. idle[n + 1].id # idle[1].id
        BY <1>a, <2>1, <3>1 DEF OneOwner, ConnectionsAreExclusive
      <4>2. QED
        BY <2>4, <3>1, <3>2, <4>1
    <3>3. CASE d # c
      BY <1>b, <2>2, <2>4, <3>1, <3>3 DEF OneOwner, ConnectionsAreExclusive
    <3>4. QED
      BY <3>2, <3>3
  <2>7. \A d, e \in Using' : held'[d] = held'[e] => d = e
    <3>1. \A d \in Using : held[d] # idle[1].id
      BY <1>a, <2>1 DEF OneOwner, ConnectionsAreExclusive
    <3>2. QED
      BY <1>b, <2>2, <2>4, <3>1 DEF OneOwner, ConnectionsAreExclusive
  <2>8. QED
    BY <2>3, <2>5, <2>6, <2>7 DEF OneOwner, ConnectionsAreExclusive
<1>2. ASSUME NEW c \in Consumer, Release(c)
      PROVE  OneOwner'
  <2>1. /\ Len(idle') = Len(idle) + 1
        /\ \A n \in 1..Len(idle) : idle'[n] = idle[n]
        /\ idle'[Len(idle) + 1].id = held[c]
        /\ idle'[Len(idle) + 1].since = now
        /\ held' = [held EXCEPT ![c] = 0]
        /\ made' = made /\ now' = now
    BY <1>2 DEF Release, Returned, PoolTypeOK
  <2>2. Using' = Using \ {c} /\ c \in Using
    BY <1>2, ReleaseUsing
  <2>3. \A d \in Consumer : held'[d] = IF d = c THEN 0 ELSE held[d]
    BY <1>a, <2>1
  <2>4. \A n \in 1..Len(idle') : n \in 1..Len(idle) \/ n = Len(idle) + 1
    BY <1>a, <2>1
  <2>5. (\A n \in 1..Len(idle) : idle[n].id <= made /\ idle[n].since <= now)'
        /\ (\A d \in Consumer : held[d] <= made)'
    BY <1>a, <2>1, <2>3, <2>4, SMTT(30) DEF OneOwner
  <2>6. HeadIsOldest'
    BY <1>a, <2>1, <2>4 DEF OneOwner, HeadIsOldest
  <2>7. ConnectionsAreExclusive'
    BY <1>a, <1>b, <2>1, <2>2, <2>3, <2>4, SMTT(30) DEF OneOwner, ConnectionsAreExclusive
  <2>8. QED
    BY <2>5, <2>6, <2>7 DEF OneOwner
<1>3. CASE Produce
  <2>1. Using' = Using /\ held' = held /\ now' = now
    BY <1>3, UsingSame DEF Produce
  <2>2. CASE cnt < MaxSize
    <3>1. /\ Len(idle) = 0 /\ Len(idle') = 1 /\ made' = made + 1
          /\ idle'[1].id = made + 1 /\ idle'[1].since = now
      BY <1>3, <2>2 DEF Produce
    <3>2. QED
      BY <1>a, <1>b, <2>1, <3>1
         DEF OneOwner, ConnectionsAreExclusive, HeadIsOldest
  <2>3. CASE ~(cnt < MaxSize)
    BY <1>3, <2>1, <2>3 DEF Produce, OneOwner, ConnectionsAreExclusive, HeadIsOldest
  <2>4. QED
    BY <2>2, <2>3
<1>4. CASE Scan
  <2>1. Using' = Using /\ held' = held /\ now' = now /\ made' = made
    BY <1>4, UsingSame DEF Scan
  <2>2. PICK n \in 0..Len(idle) : idle' = SubSeq(idle, n + 1, Len(idle))
    BY <1>4 DEF Scan
  <2>3. /\ Len(idle') = Len(idle) - n
        /\ \A i \in 1..Len(idle') : idle'[i] = idle[n + i]
    BY <1>a, <2>2, SuffixProperties DEF PoolTypeOK
  <2>4. /\ \A i \in 1..Len(idle') : n + i \in 1..Len(idle)
        /\ \A i, j \in 1..Len(idle') : idle'[i].id = idle'[j].id => i = j
        /\ HeadIsOldest'
    BY <2>3, SuffixInOrder
  <2>5. (\A i \in 1..Len(idle) : idle[i].id <= made /\ idle[i].since <= now)'
        /\ (\A d \in Consumer : held[d] <= made)'
    BY <1>a, <2>1, <2>3, <2>4 DEF OneOwner
  <2>6. ConnectionsAreExclusive'
    <3>1. \A d \in Using, i \in 1..Len(idle) : held[d] # idle[i].id
      BY DEF OneOwner, ConnectionsAreExclusive
    <3>2. \A d \in Using', i \in 1..Len(idle') : held'[d] # idle'[i].id
      BY <2>1, <2>3, <2>4, <3>1
    <3>3. \A d, e \in Using' : held'[d] = held'[e] => d = e
      BY <2>1 DEF OneOwner, ConnectionsAreExclusive
    <3>4. QED
      BY <2>4, <3>2, <3>3 DEF ConnectionsAreExclusive
  <2>7. QED
    BY <2>5, <2>6, <2>4 DEF OneOwner
<1>5. CASE Tick
  <2>1. Using' = Using /\ held' = held /\ idle' = idle /\ made' = made
        /\ now' = now + 1
    BY <1>5, UsingSame DEF Tick
  <2>2. QED
    BY <1>a, <2>1 DEF OneOwner, ConnectionsAreExclusive, HeadIsOldest
<1>6. CASE ProducerWaits \/ UNCHANGED poolVars
  <2>1. Using' = Using /\ held' = held /\ idle' = idle /\ made' = made
        /\ now' = now
    BY <1>6, UsingSame DEF ProducerWaits, poolVars
  <2>2. QED
    BY <2>1 DEF OneOwner, ConnectionsAreExclusive, HeadIsOldest
<1>7. ASSUME NEW c \in Consumer, Call(c) \/ Wait(c) \/ GiveUp(c) \/ TimeOut(c)
      PROVE  OneOwner'
  <2>1. Using' = Using /\ held' = held /\ idle' = idle /\ made' = made
        /\ now' = now
    BY <1>7, UsingSame DEF Call, Wait, GiveUp, TimeOut
  <2>2. QED
    BY <2>1 DEF OneOwner, ConnectionsAreExclusive, HeadIsOldest
<1>8. QED
  BY <1>1, <1>2, <1>3, <1>4, <1>5, <1>6, <1>7 DEF PoolNext, PoolStep

LEMMA OneOwnerCorrect == PoolSpec => []OneOwner
<1>1. PoolTypeOK /\ OneOwner /\ [PoolNext]_poolVars => OneOwner'
  BY OneOwnerStep
<1>2. QED
  BY <1>1, OneOwnerInit, PoolTypeCorrect, PTL DEF PoolSpec

\* No two threads ever use the same connection, and none that is in use is in
\* the queue.
THEOREM ExclusiveCorrect == PoolSpec => []ConnectionsAreExclusive
<1>1. OneOwner => ConnectionsAreExclusive
  BY DEF OneOwner
<1>2. QED
  BY <1>1, OneOwnerCorrect, PTL

\* The scanner may stop at the first connection that has not expired: those
\* behind it became idle later.
THEOREM OldestCorrect == PoolSpec => []HeadIsOldest
<1>1. OneOwner => HeadIsOldest
  BY DEF OneOwner
<1>2. QED
  BY <1>1, OneOwnerCorrect, PTL
=============================================================================
