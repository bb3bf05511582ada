---------------------------- MODULE StreamProofs ----------------------------
(***************************************************************************)
(* Buffer and the two that read and write it: ProtocolDispatcher on the    *)
(* input side and TcpConnection on the output side of a byte stream.       *)
(*                                                                         *)
(* First what the operations of Buffer do to the readable bytes, for every *)
(* buffer, whatever is left in its vector from before; then that dispatch, *)
(* whatever it does with a frame and wherever reads end, uses its buffer   *)
(* as a queue of bytes, and what becomes of the frames; then TcpConnection *)
(* for every number of senders, every message size and every output        *)
(* buffer: its type, that its output stays in order and watched, and that  *)
(* the write side is shut down only when all is written.                   *)
(***************************************************************************)
EXTENDS Dispatcher, TcpConnection, SequenceTheorems, NaturalsInduction,
        WellFoundedInduction, TLAPS

-----------------------------------------------------------------------------
(* Buffer.                                                                 *)

\* The readable bytes, one by one.
LEMMA ReadableProperties ==
    ASSUME NEW b, IsBuffer(b)
    PROVE  /\ Readable(b) \in Seq(Nat)
           /\ Len(Readable(b)) = b.writer - b.reader
           /\ \A i \in 1..(b.writer - b.reader) :
                 Readable(b)[i] = b.data[b.reader + i]
<1>1. /\ b.data \in Seq(Nat) /\ b.reader \in Nat /\ b.writer \in Nat
      /\ Len(b.data) \in Nat /\ b.reader <= b.writer /\ b.writer <= Len(b.data)
  BY DEF IsBuffer
<1>2. \A i \in (b.reader + 1)..b.writer : b.data[i] \in Nat
  BY <1>1, SMTT(30)
<1> DEFINE s == b.data
           m == b.reader + 1
           n == b.writer
           r == SubSeq(s, m, n)
<1>3. m \in Int /\ n \in Int /\ \A i \in m..n : s[i] \in Nat
  BY <1>1, <1>2
<1> HIDE DEF s, m, n
<1>4. /\ r \in Seq(Nat)
      /\ Len(r) = IF m <= n THEN n - m + 1 ELSE 0
      /\ \A i \in 1..(n - m + 1) : r[i] = s[m + i - 1]
  BY <1>3, SubSeqProperties
<1>5. Readable(b) = r
  BY DEF Readable, s, m, n
<1> HIDE DEF r
<1>6. Len(r) = b.writer - b.reader
  BY <1>1, <1>4 DEF m, n
<1>7. \A i \in 1..(b.writer - b.reader) : r[i] = b.data[b.reader + i]
  <2> SUFFICES ASSUME NEW i \in 1..(b.writer - b.reader)
               PROVE  r[i] = b.data[b.reader + i]
    OBVIOUS
  <2>1. i \in 1..(n - m + 1) /\ m + i - 1 = b.reader + i
    BY <1>1 DEF m, n
  <2>2. QED
    BY <1>4, <2>1 DEF s
<1>8. QED
  BY <1>4, <1>5, <1>6, <1>7

\* An updated vector is a sequence.
LEMMA VectorIsSeq ==
    ASSUME NEW n \in Nat, NEW v \in [1..n -> Nat]
    PROVE  v \in Seq(Nat) /\ Len(v) = n
OBVIOUS

LEMMA EmptyBufferProperties ==
    ASSUME BufferAssumption
    PROVE  IsBuffer(EmptyBuffer) /\ Readable(EmptyBuffer) = <<>>
<1>1. EmptyBuffer.data \in [1..(KCheapPrepend + KInitialSize) -> Nat]
  BY DEF EmptyBuffer, BufferAssumption
<1>2. EmptyBuffer.data \in Seq(Nat) /\ Len(EmptyBuffer.data) = KCheapPrepend + KInitialSize
  <2>1. KCheapPrepend + KInitialSize \in Nat
    BY DEF BufferAssumption
  <2>2. QED
    BY <1>1, <2>1, VectorIsSeq
<1>3. IsBuffer(EmptyBuffer)
  BY <1>2 DEF EmptyBuffer, IsBuffer, BufferAssumption
<1>4. Len(Readable(EmptyBuffer)) = 0 /\ Readable(EmptyBuffer) \in Seq(Nat)
  BY <1>3, ReadableProperties DEF EmptyBuffer, BufferAssumption
<1>5. QED
  BY <1>3, <1>4, EmptySeq

\* Whichever way makePlace makes room, there is room then, and the readable
\* bytes are those that were readable.
LEMMA PlaceProperties ==
    ASSUME BufferAssumption, NEW b, IsBuffer(b), NEW len \in Nat
    PROVE  LET c == ensureWriteableBytes(b, len) IN
           /\ IsBuffer(c)
           /\ len <= writeableBytes(c)
           /\ c.writer - c.reader = b.writer - b.reader
           /\ \A i \in 1..(b.writer - b.reader) :
                 c.data[c.reader + i] = b.data[b.reader + i]
<1> DEFINE c == ensureWriteableBytes(b, len)
<1>a. /\ b \in [data : Seq(Nat), reader : Nat, writer : Nat]
      /\ b.data \in Seq(Nat) /\ b.reader \in Nat /\ b.writer \in Nat
      /\ Len(b.data) \in Nat /\ KCheapPrepend \in Nat
      /\ KCheapPrepend <= b.reader /\ b.reader <= b.writer /\ b.writer <= Len(b.data)
  BY DEF IsBuffer, BufferAssumption
<1>1. CASE len <= writeableBytes(b)
  <2>1. c = b
    BY <1>a, <1>1 DEF ensureWriteableBytes, writeableBytes
  <2>2. QED
    BY <1>a, <1>1, <2>1
<1>2. CASE /\ len > writeableBytes(b)
           /\ writeableBytes(b) + prependableBytes(b) < len + KCheapPrepend
  <2>1. c = Resized(b, b.writer + len)
    BY <1>2 DEF ensureWriteableBytes, makePlace
  <2> DEFINE v == [i \in 1..(b.writer + len) |->
                      IF i <= Len(b.data) THEN b.data[i] ELSE 0]
  <2>2. b.writer + len \in Nat /\ b.writer + len > Len(b.data)
    BY <1>a, <1>2 DEF writeableBytes
  <2>3. v \in [1..(b.writer + len) -> Nat]
    BY <1>a, <2>2
  <2>4. v \in Seq(Nat) /\ Len(v) = b.writer + len
    BY <2>2, <2>3, VectorIsSeq
  <2>5. c = [b EXCEPT !.data = v]
    BY <2>1 DEF Resized
  <2>6. c = [data |-> v, reader |-> b.reader, writer |-> b.writer]
    BY <1>a, <2>5
  <2> HIDE DEF v, c
  <2>7. c.data = v /\ c.reader = b.reader /\ c.writer = b.writer
    BY <2>6
  <2>8. IsBuffer(c)
    BY <1>a, <2>2, <2>4, <2>6 DEF IsBuffer
  <2>9. ASSUME NEW i \in 1..(b.writer - b.reader)
        PROVE  v[b.reader + i] = b.data[b.reader + i]
    <3>1. b.reader + i \in 1..(b.writer + len) /\ b.reader + i <= Len(b.data)
      BY <1>a, <2>2, SMTT(30)
    <3>2. QED
      BY <3>1 DEF v
  <2>10. QED
    BY <1>a, <2>4, <2>7, <2>8, <2>9 DEF writeableBytes, c
<1>3. CASE /\ len > writeableBytes(b)
           /\ writeableBytes(b) + prependableBytes(b) >= len + KCheapPrepend
  <2> DEFINE n == b.writer - b.reader
             v == [i \in 1..Len(b.data) |->
                     IF i \in (KCheapPrepend + 1)..(KCheapPrepend + n)
                     THEN b.data[i - KCheapPrepend + b.reader] ELSE b.data[i]]
  <2>1. c = [data |-> v, reader |-> KCheapPrepend, writer |-> KCheapPrepend + n]
    <3>1. ~(writeableBytes(b) + prependableBytes(b) < len + KCheapPrepend)
      BY <1>a, <1>3 DEF writeableBytes, prependableBytes
    <3>2. QED
      BY <1>3, <3>1
         DEF ensureWriteableBytes, makePlace, MoveToFront, readableBytes
  <2>2. n \in Nat /\ KCheapPrepend + n <= Len(b.data)
    BY <1>a
  <2>3. v \in [1..Len(b.data) -> Nat]
    <3>1. \A i \in (KCheapPrepend + 1)..(KCheapPrepend + n) :
             i - KCheapPrepend + b.reader \in 1..Len(b.data)
      BY <1>a, <2>2, SMTT(30)
    <3>2. \A i \in 1..Len(b.data) : b.data[i] \in Nat
      BY <1>a
    <3>3. \A i \in (KCheapPrepend + 1)..(KCheapPrepend + n) :
             b.data[i - KCheapPrepend + b.reader] \in Nat
      BY <3>1, <3>2
    <3>4. QED
      BY <3>2, <3>3
  <2>4. v \in Seq(Nat) /\ Len(v) = Len(b.data)
    BY <1>a, <2>3, VectorIsSeq
  <2>5. \A i \in 1..n : v[KCheapPrepend + i] = b.data[b.reader + i]
    <3> SUFFICES ASSUME NEW i \in 1..n
                 PROVE  v[KCheapPrepend + i] = b.data[b.reader + i]
      OBVIOUS
    <3>1. /\ KCheapPrepend + i \in 1..Len(b.data)
          /\ KCheapPrepend + i \in (KCheapPrepend + 1)..(KCheapPrepend + n)
          /\ KCheapPrepend + i - KCheapPrepend + b.reader = b.reader + i
      BY <1>a, <2>2, SMTT(30)
    <3>2. QED
      BY <3>1
  <2> HIDE DEF v, c
  <2>6. c.data = v /\ c.reader = KCheapPrepend /\ c.writer = KCheapPrepend + n
    BY <2>1
  <2>7. IsBuffer(c)
    BY <1>a, <2>1, <2>2, <2>4 DEF IsBuffer
  <2>8. len <= writeableBytes(c)
    BY <1>a, <1>3, <2>4, <2>6 DEF writeableBytes, prependableBytes
  <2>9. QED
    BY <1>a, <2>2, <2>5, <2>6, <2>7, <2>8 DEF c
<1>4. QED
  BY <1>a, <1>1, <1>2, <1>3 DEF writeableBytes, prependableBytes

\* What is copied behind the readable bytes, where there is room, is readable
\* after them.
LEMMA FilledProperties ==
    ASSUME BufferAssumption, NEW b, IsBuffer(b), NEW bytes \in Seq(Nat),
           Len(bytes) <= writeableBytes(b)
    PROVE  /\ IsBuffer(Filled(b, bytes))
           /\ Readable(Filled(b, bytes)) = Readable(b) \o bytes
<1> DEFINE c == Filled(b, bytes)
           n == b.writer - b.reader
           v == [i \in 1..Len(b.data) |->
                   IF i \in (b.writer + 1)..(b.writer + Len(bytes))
                   THEN bytes[i - b.writer] ELSE b.data[i]]
<1>1. /\ b \in [data : Seq(Nat), reader : Nat, writer : Nat]
      /\ b.data \in Seq(Nat) /\ b.reader \in Nat /\ b.writer \in Nat
      /\ Len(b.data) \in Nat /\ KCheapPrepend <= b.reader /\ b.reader <= b.writer
      /\ Len(bytes) \in Nat /\ b.writer + Len(bytes) <= Len(b.data)
      /\ KCheapPrepend \in Nat
  BY LenProperties DEF IsBuffer, writeableBytes, BufferAssumption
<1>2. v \in [1..Len(b.data) -> Nat]
  <2>1. \A i \in 1..Len(bytes) : bytes[i] \in Nat
    BY ElementOfSeq
  <2>a. b.writer \in Nat /\ Len(bytes) \in Nat
    BY <1>1
  <2>2. \A i \in (b.writer + 1)..(b.writer + Len(bytes)) :
           i - b.writer \in 1..Len(bytes)
    BY <2>a
  <2>3. \A i \in (b.writer + 1)..(b.writer + Len(bytes)) : bytes[i - b.writer] \in Nat
    BY <2>1, <2>2
  <2>4. \A i \in 1..Len(b.data) : b.data[i] \in Nat
    BY <1>1
  <2>5. QED
    BY <2>3, <2>4
<1>3. v \in Seq(Nat) /\ Len(v) = Len(b.data)
  BY <1>1, <1>2, VectorIsSeq
<1>4. c = [data |-> v, reader |-> b.reader, writer |-> b.writer + Len(bytes)]
  <2>1. c = [b EXCEPT !.data = v, !.writer = b.writer + Len(bytes)]
    BY <1>1 DEF Filled
  <2> HIDE DEF v, c
  <2>2. QED
    BY <1>1, <2>1
<1>5. ASSUME NEW i \in 1..n
      PROVE  v[b.reader + i] = b.data[b.reader + i]
  <2>1. b.reader \in Nat /\ b.writer \in Nat /\ i \in 1..(b.writer - b.reader)
    BY <1>1
  <2>2. b.reader + i \in 1..b.writer
    BY <2>1
  <2>3. b.writer <= Len(b.data) /\ Len(b.data) \in Nat /\ Len(bytes) \in Nat
    BY <1>1
  <2>4. /\ b.reader + i \in 1..Len(b.data)
        /\ b.reader + i \notin (b.writer + 1)..(b.writer + Len(bytes))
    BY <2>1, <2>2, <2>3
  <2>5. QED
    BY <2>4
<1>6. ASSUME NEW k \in Nat, NEW i \in 1..Len(bytes), k = b.writer + i
      PROVE  v[k] = bytes[i]
  <2>1. k \in 1..Len(b.data) /\ k \in (b.writer + 1)..(b.writer + Len(bytes))
    <3>1. /\ b.writer \in Nat /\ Len(b.data) \in Nat /\ Len(bytes) \in Nat
          /\ b.writer + Len(bytes) <= Len(b.data)
      BY <1>1
    <3> HIDE DEF v, c, n
    <3>2. QED
      BY <1>6, <3>1
  <2>2. v[k] = bytes[k - b.writer]
    BY <2>1
  <2>3. k - b.writer = i
    BY <1>1, <1>6
  <2>4. QED
    BY <2>2, <2>3
<1> HIDE DEF v, c
<1>7. c.data = v /\ c.reader = b.reader /\ c.writer = b.writer + Len(bytes)
  BY <1>4
<1>8. IsBuffer(c)
  BY <1>1, <1>3, <1>4 DEF IsBuffer
<1>9. /\ Readable(c) \in Seq(Nat) /\ Len(Readable(c)) = n + Len(bytes)
      /\ \A i \in 1..(n + Len(bytes)) : Readable(c)[i] = v[b.reader + i]
  <2>1. c.writer - c.reader = n + Len(bytes)
    BY <1>1, <1>7
  <2>2. QED
    BY <1>7, <1>8, <2>1, ReadableProperties
<1>10. /\ Readable(b) \in Seq(Nat) /\ Len(Readable(b)) = n
       /\ \A i \in 1..n : Readable(b)[i] = b.data[b.reader + i]
  BY ReadableProperties
<1>11. /\ Readable(b) \o bytes \in Seq(Nat)
       /\ Len(Readable(b) \o bytes) = n + Len(bytes)
       /\ \A i \in 1..(n + Len(bytes)) : (Readable(b) \o bytes)[i] =
             IF i <= n THEN Readable(b)[i] ELSE bytes[i - n]
  <2> DEFINE r == Readable(b)
  <2> HIDE DEF r
  <2>1. r \in Seq(Nat) /\ Len(r) = n
    BY <1>10 DEF r
  <2>2. /\ r \o bytes \in Seq(Nat)
        /\ Len(r \o bytes) = Len(r) + Len(bytes)
        /\ \A i \in 1..(Len(r) + Len(bytes)) : (r \o bytes)[i] =
              IF i <= Len(r) THEN r[i] ELSE bytes[i - Len(r)]
    BY <2>1, ConcatProperties
  <2>3. QED
    BY <2>1, <2>2 DEF r
<1>12. ASSUME NEW i \in 1..(n + Len(bytes))
       PROVE  Readable(c)[i] = (Readable(b) \o bytes)[i]
  <2>1. CASE i <= n
    <3>1. n \in Nat /\ i \in 1..n
      BY <1>1, <2>1, SMTT(30)
    <3>2. QED
      BY <1>5, <1>9, <1>10, <1>11, <2>1, <3>1
  <2>2. CASE i > n
    <3>1. n \in Nat /\ b.writer = b.reader + n
      BY <1>1
    <3>2. /\ i \in Int /\ i <= n + Len(bytes) /\ Len(bytes) \in Nat
          /\ b.reader \in Nat
      BY <1>1, <3>1
    <3> DEFINE k == b.reader + i
               j == i - n
    <3>3. k \in Nat /\ j \in 1..Len(bytes) /\ k = b.writer + j /\ ~(i <= n)
      <4> HIDE DEF n
      <4>1. QED
        BY <2>2, <3>1, <3>2
    <3> HIDE DEF j, k
    <3>4. v[k] = bytes[j]
      BY <1>6, <3>3
    <3>5. QED
      BY <1>9, <1>11, <3>3, <3>4 DEF j, k
  <2>3. QED
    <3>1. i <= n \/ i > n
      BY <1>1
    <3>2. QED
      BY <2>1, <2>2, <3>1
<1>13. Readable(c) = Readable(b) \o bytes
  BY <1>9, <1>11, <1>12, SeqEqual
<1>14. QED
  BY <1>8, <1>13 DEF c

\* append puts the bytes behind those that are there, in whatever state the
\* vector is: as it is, with its bytes moved to the front, or grown.
THEOREM AppendProperty ==
    ASSUME BufferAssumption, NEW b, IsBuffer(b), NEW bytes \in Seq(Nat)
    PROVE  /\ IsBuffer(append(b, bytes))
           /\ Readable(append(b, bytes)) = Readable(b) \o bytes
<1> DEFINE c == ensureWriteableBytes(b, Len(bytes))
           n == b.writer - b.reader
<1>1. Len(bytes) \in Nat
  BY LenProperties
<1>2. /\ IsBuffer(c) /\ Len(bytes) <= writeableBytes(c)
      /\ c.writer - c.reader = n
      /\ \A i \in 1..n : c.data[c.reader + i] = b.data[b.reader + i]
  BY <1>1, PlaceProperties
<1> HIDE DEF c
<1>3. /\ Readable(c) \in Seq(Nat) /\ Len(Readable(c)) = n
      /\ \A i \in 1..n : Readable(c)[i] = c.data[c.reader + i]
  BY <1>2, ReadableProperties
<1>4. /\ Readable(b) \in Seq(Nat) /\ Len(Readable(b)) = n
      /\ \A i \in 1..n : Readable(b)[i] = b.data[b.reader + i]
  BY ReadableProperties
<1>5. Readable(c) = Readable(b)
  BY <1>2, <1>3, <1>4, SeqEqual
<1>6. QED
  BY <1>2, <1>5, FilledProperties DEF append, c

\* A sequence may be appended in two parts.
LEMMA InTwoParts ==
    ASSUME NEW s \in Seq(Nat), NEW w \in Nat, w <= Len(s), NEW r \in Seq(Nat)
    PROVE  (r \o SubSeq(s, 1, w)) \o SubSeq(s, w + 1, Len(s)) = r \o s
<1> DEFINE first == SubSeq(s, 1, w)
           rest == SubSeq(s, w + 1, Len(s))
<1>1. Len(s) \in Nat /\ \A i \in 1..Len(s) : s[i] \in Nat
  BY LenProperties, ElementOfSeq
<1>2. first \in Seq(Nat)
  BY <1>1, SubSeqProperties
<1>3. rest \in Seq(Nat)
  BY <1>1, SubSeqProperties
<1>4. first \o rest = s
  <2>1. 1 \in 1..(Len(s) + 1) /\ w \in (1 - 1)..Len(s) /\ Len(s) \in w..Len(s)
    BY <1>1
  <2>2. first \o rest = SubSeq(s, 1, Len(s))
    BY <2>1, ConcatAdjacentSubSeq
  <2>3. QED
    BY <2>2, SubSeqFull
<1>5. \A f, g \in Seq(Nat) : (r \o f) \o g = r \o (f \o g)
  BY ConcatAssociative, SMTT(30)
<1>6. (r \o first) \o rest = r \o (first \o rest)
  BY <1>2, <1>3, <1>5, Zenon
<1>7. QED
  BY <1>4, <1>6, Zenon

\* So does readfd, also when the bytes do not fit and the rest goes through
\* extrabuffer.
THEOREM ReadfdProperty ==
    ASSUME BufferAssumption, NEW b, IsBuffer(b), NEW bytes \in Seq(Nat)
    PROVE  /\ IsBuffer(readfd(b, bytes))
           /\ Readable(readfd(b, bytes)) = Readable(b) \o bytes
<1>1. writeableBytes(b) \in Nat /\ Len(bytes) \in Nat
  BY LenProperties DEF IsBuffer, writeableBytes
<1>2. CASE Len(bytes) <= writeableBytes(b)
  BY <1>2, FilledProperties DEF readfd
<1>3. CASE Len(bytes) > writeableBytes(b)
  <2> DEFINE w == writeableBytes(b)
             first == SubSeq(bytes, 1, w)
             rest == SubSeq(bytes, w + 1, Len(bytes))
  <2>1. first \in Seq(Nat) /\ Len(first) = w
    BY <1>1, <1>3, SubSeqProperties
  <2>2. rest \in Seq(Nat)
    BY <1>1, <1>3, SubSeqProperties
  <2>3. \A r \in Seq(Nat) : (r \o first) \o rest = r \o bytes
    <3>1. w \in Nat /\ w <= Len(bytes)
      BY <1>1, <1>3
    <3>2. QED
      BY <3>1, InTwoParts, Zenon
  <2>4. /\ IsBuffer(Filled(b, first))
        /\ Readable(Filled(b, first)) = Readable(b) \o first
    <3>1. Len(first) <= writeableBytes(b)
      BY <1>1, <2>1
    <3> HIDE DEF first
    <3>2. QED
      BY <2>1, <3>1, FilledProperties
  <2>5. readfd(b, bytes) = append(Filled(b, first), rest)
    BY <1>1, <1>3 DEF readfd
  <2>6. Readable(b) \in Seq(Nat)
    BY ReadableProperties
  <2>7. (Readable(b) \o first) \o rest = Readable(b) \o bytes
    BY <2>3, <2>6
  <2> HIDE DEF first, rest
  <2>8. QED
    BY <2>2, <2>4, <2>5, <2>7, AppendProperty
<1>4. QED
  BY <1>1, <1>2, <1>3

\* retrieve takes the bytes it is asked for from the front, or all of them if
\* they are not more.
THEOREM RetrieveProperty ==
    ASSUME BufferAssumption, NEW b, IsBuffer(b), NEW len \in Nat
    PROVE  /\ IsBuffer(retrieve(b, len))
           /\ Readable(retrieve(b, len)) =
                 SubSeq(Readable(b), len + 1, Len(Readable(b)))
<1> DEFINE c == retrieve(b, len)
           n == b.writer - b.reader
           rest == SubSeq(Readable(b), len + 1, n)
<1>1. /\ b \in [data : Seq(Nat), reader : Nat, writer : Nat]
      /\ b.data \in Seq(Nat) /\ b.reader \in Nat /\ b.writer \in Nat
      /\ Len(b.data) \in Nat /\ KCheapPrepend <= b.reader /\ b.reader <= b.writer
      /\ b.writer <= Len(b.data) /\ KCheapPrepend \in Nat
  BY DEF IsBuffer, BufferAssumption
<1>2. /\ Readable(b) \in Seq(Nat) /\ Len(Readable(b)) = n
      /\ \A i \in 1..n : Readable(b)[i] = b.data[b.reader + i]
  BY ReadableProperties
<1>3. CASE len < n
  <2>1. c = [data |-> b.data, reader |-> b.reader + len, writer |-> b.writer]
    BY <1>1, <1>3 DEF retrieve, readableBytes
  <2>2. IsBuffer(c)
    BY <1>1, <1>3, <2>1 DEF IsBuffer
  <2>3. c.writer - c.reader = n - len /\ c.data = b.data /\ c.reader = b.reader + len
    BY <1>1, <2>1
  <2> HIDE DEF c
  <2>4. /\ Readable(c) \in Seq(Nat) /\ Len(Readable(c)) = n - len
        /\ \A i \in 1..(n - len) : Readable(c)[i] = b.data[b.reader + len + i]
    BY <2>2, <2>3, ReadableProperties
  <2>5. n \in Nat /\ \A i \in (len + 1)..n : Readable(b)[i] \in Nat
    BY <1>1, <1>2, ElementOfSeq, SMTT(30)
  <2>6. /\ rest \in Seq(Nat) /\ Len(rest) = n - len
        /\ \A i \in 1..(n - len) : rest[i] = Readable(b)[len + i]
    <3>1. /\ rest \in Seq(Nat)
          /\ Len(rest) = IF len + 1 <= n THEN n - (len + 1) + 1 ELSE 0
          /\ \A i \in 1..(n - (len + 1) + 1) : rest[i] = Readable(b)[len + 1 + i - 1]
      BY <2>5, SubSeqProperties
    <3>2. QED
      BY <1>3, <2>5, <3>1
  <2>7. \A i \in 1..(n - len) : Readable(c)[i] = rest[i]
    <3> SUFFICES ASSUME NEW i \in 1..(n - len)
                 PROVE  Readable(c)[i] = rest[i]
      OBVIOUS
    <3>1. len + i \in 1..n /\ b.reader + (len + i) = b.reader + len + i
      BY <1>1, <2>5, SMTT(30)
    <3>2. QED
      BY <1>2, <2>4, <2>6, <3>1
  <2>8. Readable(c) = rest
    BY <2>4, <2>6, <2>7, SeqEqual
  <2>9. QED
    BY <1>2, <2>2, <2>8 DEF c
<1>4. CASE ~(len < n)
  <2>1. c = [data |-> b.data, reader |-> KCheapPrepend, writer |-> KCheapPrepend]
    BY <1>1, <1>4 DEF retrieve, retrieveAll, readableBytes
  <2>2. IsBuffer(c)
    BY <1>1, <2>1 DEF IsBuffer
  <2>3. Readable(c) \in Seq(Nat) /\ Len(Readable(c)) = 0
    BY <1>1, <2>1, <2>2, ReadableProperties
  <2>4. Readable(c) = <<>>
    BY <2>3, EmptySeq
  <2>5. rest = <<>>
    BY <1>1, <1>4, SubSeqEmpty
  <2>6. QED
    BY <1>2, <2>2, <2>4, <2>5
<1>5. QED
  BY <1>3, <1>4

-----------------------------------------------------------------------------
(* ProtocolDispatcher.                                                     *)

\* What the proof needs of the state: a buffer, and bytes that have left it.
QueueInv ==
    /\ size \in [1..Frames -> Sizes]
    /\ IsBuffer(buf) /\ given \in Seq(Nat)

LEMMA Associative == \A r, s, t \in Seq(Nat) : (r \o s) \o t = r \o (s \o t)
BY ConcatAssociative, SMTT(30)

LEMMA PositionsType ==
    ASSUME NEW start \in Nat, NEW n \in Nat
    PROVE  Positions(start, n) \in Seq(Nat) /\ Len(Positions(start, n)) = n
<1>1. Positions(start, n) \in [1..n -> Nat]
  BY DEF Positions
<1>2. QED
  BY <1>1, VectorIsSeq

\* A sequence is what was cut off its front and the rest.
LEMMA CutProperties ==
    ASSUME NEW s \in Seq(Nat), NEW n \in Nat
    PROVE  LET m == IF n < Len(s) THEN n ELSE Len(s)
           IN  /\ SubSeq(s, 1, m) \in Seq(Nat)
               /\ SubSeq(s, n + 1, Len(s)) \in Seq(Nat)
               /\ SubSeq(s, 1, m) \o SubSeq(s, n + 1, Len(s)) = s
<1> DEFINE k == Len(s)
           m == IF n < k THEN n ELSE k
           front == SubSeq(s, 1, m)
           rest == SubSeq(s, n + 1, k)
<1>1. k \in Nat /\ \A i \in 1..k : s[i] \in Nat
  BY LenProperties, ElementOfSeq
<1>2. m \in Nat /\ m <= k
  BY <1>1
<1> HIDE DEF m
<1>3. /\ front \in Seq(Nat) /\ Len(front) = m
      /\ \A i \in 1..m : front[i] = s[i]
  <2>1. \A i \in 1..m : s[i] \in Nat
    BY <1>1, <1>2
  <2>2. /\ front \in Seq(Nat)
        /\ Len(front) = IF 1 <= m THEN m - 1 + 1 ELSE 0
        /\ \A i \in 1..(m - 1 + 1) : front[i] = s[1 + i - 1]
    BY <1>2, <2>1, SubSeqProperties
  <2>3. m - 1 + 1 = m /\ \A i \in 1..m : 1 + i - 1 = i
    BY <1>2
  <2>4. QED
    BY <1>2, <2>2, <2>3
<1>4. /\ rest \in Seq(Nat) /\ Len(rest) = k - m
      /\ \A i \in 1..(k - m) : rest[i] = s[m + i]
  <2>1. \A i \in (n + 1)..k : s[i] \in Nat
    BY <1>1
  <2>2. /\ rest \in Seq(Nat)
        /\ Len(rest) = IF n + 1 <= k THEN k - (n + 1) + 1 ELSE 0
        /\ \A i \in 1..(k - (n + 1) + 1) : rest[i] = s[n + 1 + i - 1]
    BY <1>1, <2>1, SubSeqProperties
  <2>3. CASE n < k
    <3>1. m = n /\ k - (n + 1) + 1 = k - n /\ n + 1 <= k
      BY <1>1, <2>3 DEF m
    <3>2. \A i \in 1..(k - n) : n + 1 + i - 1 = n + i
      BY <1>1
    <3>3. QED
      BY <2>2, <3>1, <3>2
  <2>4. CASE ~(n < k)
    <3>1. m = k /\ k - m = 0 /\ ~(n + 1 <= k) /\ 1..(k - m) = {}
      BY <1>1, <2>4 DEF m
    <3>2. QED
      BY <2>2, <3>1
  <2>5. QED
    BY <2>3, <2>4
<1> HIDE DEF k, front, rest
<1>5. /\ front \o rest \in Seq(Nat) /\ Len(front \o rest) = k
      /\ \A i \in 1..k : (front \o rest)[i] = s[i]
  <2>1. /\ front \o rest \in Seq(Nat) /\ Len(front \o rest) = Len(front) + Len(rest)
        /\ \A i \in 1..(Len(front) + Len(rest)) : (front \o rest)[i] =
              IF i <= Len(front) THEN front[i] ELSE rest[i - Len(front)]
    BY <1>3, <1>4, ConcatProperties
  <2>2. Len(front) + Len(rest) = k
    BY <1>1, <1>2, <1>3, <1>4
  <2>3. ASSUME NEW i \in 1..k
        PROVE  (IF i <= Len(front) THEN front[i] ELSE rest[i - Len(front)]) = s[i]
    <3>1. CASE i <= m
      BY <1>2, <1>3, <3>1
    <3>2. CASE ~(i <= m)
      <4>1. i - m \in 1..(k - m) /\ m + (i - m) = i
        BY <1>1, <1>2, <3>2
      <4>2. QED
        BY <1>3, <1>4, <3>2, <4>1
    <3>3. QED
      BY <3>1, <3>2
  <2>4. QED
    BY <2>1, <2>2, <2>3
<1>6. front \o rest = s
  BY <1>5, SeqEqual DEF k
<1>7. QED
  BY <1>3, <1>4, <1>6 DEF k, m, front, rest

\* Two cuts are one.
LEMMA TwoCuts ==
    ASSUME NEW s \in Seq(Nat), NEW h \in Nat, NEW z \in Nat
    PROVE  LET r == SubSeq(s, h + 1, Len(s))
           IN  SubSeq(r, z + 1, Len(r)) = SubSeq(s, h + z + 1, Len(s))
<1> DEFINE k == Len(s)
           r == SubSeq(s, h + 1, k)
           once == SubSeq(s, h + z + 1, k)
           twice == SubSeq(r, z + 1, Len(r))
<1>1. k \in Nat /\ \A i \in 1..k : s[i] \in Nat
  BY LenProperties, ElementOfSeq
<1>2. /\ r \in Seq(Nat)
      /\ Len(r) = IF h + 1 <= k THEN k - (h + 1) + 1 ELSE 0
      /\ \A i \in 1..(k - (h + 1) + 1) : r[i] = s[h + 1 + i - 1]
  <2>1. \A i \in (h + 1)..k : s[i] \in Nat
    BY <1>1
  <2>2. QED
    BY <1>1, <2>1, SubSeqProperties
<1>3. /\ once \in Seq(Nat)
      /\ Len(once) = IF h + z + 1 <= k THEN k - (h + z + 1) + 1 ELSE 0
      /\ \A i \in 1..(k - (h + z + 1) + 1) : once[i] = s[h + z + 1 + i - 1]
  <2>1. \A i \in (h + z + 1)..k : s[i] \in Nat
    BY <1>1
  <2>2. QED
    BY <1>1, <2>1, SubSeqProperties
<1> HIDE DEF k, r
<1>4. Len(r) \in Nat /\ \A i \in 1..Len(r) : r[i] \in Nat
  BY <1>2, LenProperties, ElementOfSeq
<1>5. /\ twice \in Seq(Nat)
      /\ Len(twice) = IF z + 1 <= Len(r) THEN Len(r) - (z + 1) + 1 ELSE 0
      /\ \A i \in 1..(Len(r) - (z + 1) + 1) : twice[i] = r[z + 1 + i - 1]
  <2>1. \A i \in (z + 1)..Len(r) : r[i] \in Nat
    BY <1>4
  <2>2. QED
    BY <1>4, <2>1, SubSeqProperties
<1> HIDE DEF once, twice
<1>6. Len(twice) = Len(once)
  BY <1>1, <1>2, <1>3, <1>5
<1>7. ASSUME NEW i \in 1..Len(twice)
      PROVE  twice[i] = once[i]
  <2>1. /\ i \in 1..(Len(r) - (z + 1) + 1) /\ i \in 1..(k - (h + z + 1) + 1)
        /\ Len(r) = k - h /\ i \in Nat
    BY <1>1, <1>2, <1>3, <1>5, <1>6
  <2>2. twice[i] = r[z + i]
    <3>1. z + 1 + i - 1 = z + i
      BY <2>1
    <3>2. QED
      BY <1>5, <2>1, <3>1
  <2>3. r[z + i] = s[h + (z + i)]
    <3>1. z + i \in 1..(k - (h + 1) + 1) /\ h + 1 + (z + i) - 1 = h + (z + i)
      BY <1>1, <2>1
    <3>2. QED
      BY <1>2, <3>1
  <2>4. once[i] = s[h + (z + i)]
    <3>1. h + z + 1 + i - 1 = h + (z + i)
      BY <2>1
    <3>2. QED
      BY <1>3, <2>1, <3>1
  <2>5. QED
    BY <2>2, <2>3, <2>4
<1>8. twice = once
  BY <1>3, <1>5, <1>6, <1>7, SeqEqual
<1>9. QED
  BY <1>8 DEF once, twice, r, k

\* Consume takes what it takes from the front.
LEMMA ConsumeKeeps ==
    ASSUME BufferAssumption, DispatcherAssumption, QueueInv,
           NEW b, IsBuffer(b), NEW f \in 1..Frames, Consume(f, b)
    PROVE  /\ IsBuffer(buf') /\ given' \in Seq(Nat)
           /\ given' \o Readable(buf') = given \o Readable(b)
           /\ Len(given') >= Len(given)
<1> DEFINE c == Readable(b)
           body == retrieve(b, HeaderSize)
           taken == HeaderSize + size[f]
           front == SubSeq(c, 1, IF taken < Len(c) THEN taken ELSE Len(c))
           rest == SubSeq(c, taken + 1, Len(c))
<1>1. HeaderSize \in Nat /\ size[f] \in Nat
  BY DEF DispatcherAssumption, QueueInv
<1>2. c \in Seq(Nat) /\ Len(c) = readableBytes(b) /\ Len(c) \in Nat
  BY ReadableProperties, LenProperties DEF readableBytes
<1>3. IsBuffer(body) /\ Readable(body) = SubSeq(c, HeaderSize + 1, Len(c))
  BY <1>1, RetrieveProperty
<1>4. /\ IsBuffer(buf')
      /\ Readable(buf') = SubSeq(Readable(body), size[f] + 1, Len(Readable(body)))
  <2>1. buf' = retrieve(body, size[f])
    BY DEF Consume
  <2> HIDE DEF body
  <2>2. QED
    BY <1>1, <1>3, <2>1, RetrieveProperty
<1>5. Readable(buf') = rest
  <2> DEFINE r == SubSeq(c, HeaderSize + 1, Len(c))
  <2>1. Readable(buf') = SubSeq(r, size[f] + 1, Len(r))
    BY <1>3, <1>4
  <2> HIDE DEF c
  <2>2. SubSeq(r, size[f] + 1, Len(r)) = SubSeq(c, HeaderSize + size[f] + 1, Len(c))
    BY <1>1, <1>2, TwoCuts
  <2>3. QED
    BY <2>1, <2>2
<1>6. given' = given \o front
  BY <1>2 DEF Consume
<1>7. taken \in Nat
  BY <1>1
<1> HIDE DEF taken, c
<1>8. front \in Seq(Nat) /\ rest \in Seq(Nat) /\ front \o rest = c
  BY <1>2, <1>7, CutProperties
<1> HIDE DEF front, rest
<1>9. given \in Seq(Nat)
  BY DEF QueueInv
<1>10. given' \in Seq(Nat) /\ Len(given') = Len(given) + Len(front)
  BY <1>6, <1>8, <1>9, ConcatProperties
<1>11. (given \o front) \o rest = given \o (front \o rest)
  <2>1. front \in Seq(Nat) /\ rest \in Seq(Nat)
    BY <1>8
  <2>2. QED
    BY <1>9, <2>1, Associative, Zenon
<1>12. Len(given) \in Nat /\ Len(front) \in Nat
  BY <1>8, <1>9, LenProperties
<1>13. QED
  <2>1. Len(given') >= Len(given)
    BY <1>10, <1>12
  <2>2. given' \o Readable(buf') = given \o c
    BY <1>5, <1>6, <1>8, <1>11
  <2>3. QED
    BY <1>4, <1>10, <2>1, <2>2 DEF c

\* Whatever dispatch does, what has left the buffer and what is in it are
\* together what they were.
LEMMA DispatchKeeps ==
    ASSUME BufferAssumption, DispatcherAssumption, QueueInv,
           NEW b, IsBuffer(b), dispatch(b)
    PROVE  /\ IsBuffer(buf') /\ given' \in Seq(Nat)
           /\ given' \o Readable(buf') = given \o Readable(b)
           /\ Len(given') >= Len(given)
<1>1. given \in Seq(Nat) /\ Len(given) \in Nat
  BY LenProperties DEF QueueInv
<1>2. \/ buf' = b /\ given' = given
      \/ \E f \in 1..Frames : Consume(f, b)
  BY DEF dispatch, Leave, Refuse, Misread
<1>3. CASE buf' = b /\ given' = given
  BY <1>1, <1>3
<1>4. CASE \E f \in 1..Frames : Consume(f, b)
  BY <1>4, ConsumeKeeps
<1>5. QED
  BY <1>2, <1>3, <1>4

LEMMA QueueInvInit == DispatchInit => QueueInv /\ Queue!QueueInit
<1> SUFFICES ASSUME DispatchInit PROVE QueueInv /\ Queue!QueueInit
  OBVIOUS
<1>1. IsBuffer(buf) /\ Readable(buf) = <<>>
  BY BufferAssumption, EmptyBufferProperties DEF DispatchInit
<1>2. given = <<>> /\ given \in Seq(Nat) /\ size \in [1..Frames -> Sizes]
  BY EmptySeq DEF DispatchInit
<1>3. QED
  BY <1>1, <1>2 DEF QueueInv, Queue!QueueInit

\* A read puts the bytes that follow in behind those that are there.
LEMMA HandleReadStep ==
    QueueInv /\ handleRead => QueueInv' /\ Queue!Pass
<1> SUFFICES ASSUME QueueInv, handleRead PROVE QueueInv' /\ Queue!Pass
  OBVIOUS
<1>1. PICK n \in 1..ReadLimit(buf) : dispatch(readfd(buf, Positions(Arrived, n)))
  BY DEF handleRead
<1> DEFINE c == Readable(buf)
           new == Positions(Arrived, n)
           b == readfd(buf, new)
           all == given \o c
<1>2. size' = size
  BY DEF handleRead
<1>3. /\ IsBuffer(buf) /\ c \in Seq(Nat) /\ Len(c) = readableBytes(buf)
      /\ given \in Seq(Nat) /\ Len(given) \in Nat /\ Len(c) \in Nat
  BY ReadableProperties, LenProperties DEF QueueInv, readableBytes
<1>4. ReadLimit(buf) \in Int
  <2>1. buf.writer \in Nat /\ Len(buf.data) \in Nat /\ ExtraSize \in Nat
    BY <1>3, BufferAssumption, LenProperties DEF IsBuffer, BufferAssumption
  <2>2. QED
    BY <2>1 DEF ReadLimit, writeableBytes
<1>5. n \in Nat /\ Arrived \in Nat /\ Arrived = Len(given) + Len(c)
  BY <1>3, <1>4 DEF Arrived, Read
<1>6. new \in Seq(Nat) /\ Len(new) = n
  BY <1>5, PositionsType
<1>7. IsBuffer(b) /\ Readable(b) = c \o new
  <2> HIDE DEF new
  <2>1. QED
    BY <1>3, <1>6, BufferAssumption, ReadfdProperty
<1>8. /\ IsBuffer(buf') /\ given' \in Seq(Nat)
      /\ given' \o Readable(buf') = given \o Readable(b)
      /\ Len(given') >= Len(given)
  <2>1. dispatch(b)
    BY <1>1
  <2> HIDE DEF b
  <2>2. QED
    BY <1>7, <2>1, BufferAssumption, DispatcherAssumption, DispatchKeeps
<1>9. QueueInv'
  BY <1>2, <1>8 DEF QueueInv
<1>10. /\ all \in Seq(Nat) /\ Len(all) = Arrived
       /\ given \o (c \o new) = all \o new
       /\ Len(all \o new) = Arrived + n
  <2> HIDE DEF c, new
  <2>1. all \in Seq(Nat) /\ Len(all) = Len(given) + Len(c)
    BY <1>3, ConcatProperties
  <2>2. all \o new = given \o (c \o new)
    BY <1>3, <1>6, ConcatAssociative, SMTT(30)
  <2>3. Len(all \o new) = Len(all) + n
    BY <1>6, <2>1, ConcatProperties
  <2>4. QED
    BY <1>5, <2>1, <2>2, <2>3
<1>11. new = Queue!Fresh(Len(all), n)
  BY <1>10 DEF Positions, Queue!Fresh
<1> HIDE DEF c, new, b, all
<1>12. given' \o Readable(buf') = all \o Queue!Fresh(Len(all), n)
  BY <1>7, <1>8, <1>10, <1>11
<1>13. Len(given' \o Readable(buf')) - Len(all) = n
  BY <1>5, <1>10, <1>11, <1>12
<1>14. all = given \o Readable(buf)
  BY DEF all, c
<1>15. Queue!Pass
  <2>1. Readable(buf)' = Readable(buf')
    BY DEF Readable
  <2>2. n >= 0 /\ n = Len(given' \o Readable(buf)') - Len(all)
    BY <1>5, <1>13, <2>1
  <2>3. given' \o Readable(buf)' = all \o Queue!Fresh(Len(all), n)
    BY <1>12, <2>1
  <2>4. QED
    BY <1>8, <1>14, <2>2, <2>3 DEF Queue!Pass
<1>16. QED
  BY <1>9, <1>15

\* Whatever the sizes of the frames and of the buffer, and wherever reads end:
\* the input buffer is a queue, no byte of the stream lost, doubled or moved
\* (ProtocolDispatcher::dispatch over Buffer::readFd and retrieve).
THEOREM QueueImplemented == DispatchSpec => BufferIsQueue
<1>1. QueueInv /\ [DispatchNext]_dispatchVars
         => QueueInv' /\ [Queue!QueueNext]_(Queue!queueVars)
  <2> SUFFICES ASSUME QueueInv, [DispatchNext]_dispatchVars
               PROVE  QueueInv' /\ [Queue!QueueNext]_(Queue!queueVars)
    OBVIOUS
  <2>1. CASE DispatchNext
    BY <2>1, HandleReadStep DEF DispatchNext, Queue!QueueNext
  <2>2. CASE UNCHANGED dispatchVars
    BY <2>2 DEF dispatchVars, QueueInv, Queue!queueVars, Readable
  <2>3. QED
    BY <2>1, <2>2
<1>2. QED
  BY <1>1, QueueInvInit, PTL DEF DispatchSpec, BufferIsQueue, Queue!QueueSpec

-----------------------------------------------------------------------------
(* Dispatcher: where frames start.                                         *)

\* A set of natural numbers that is not empty has a least member.
LEMMA LeastMember ==
    ASSUME NEW T \in SUBSET Nat, T # {}
    PROVE  \E x \in T : \A y \in T : x <= y
<1> DEFINE R == {p \in Nat \X Nat : p[1] < p[2]}
<1>1. IsWellFoundedOn(R, Nat)
  BY NatLessThanWellFounded DEF OpToRel
<1>2. PICK x \in T : \A y \in T : ~(<<y, x>> \in R)
  <2> HIDE DEF R
  <2> QED
    BY <1>1, WFMin
<1>3. ASSUME NEW y \in T PROVE x <= y
  <2>1. <<y, x>> \in Nat \X Nat /\ ~(<<y, x>> \in R)
    BY <1>2
  <2>2. ~(y < x)
    BY <2>1
  <2>3. QED
    BY <2>2
<1>4. QED
  BY <1>3

\* What the recursion says of the first n frames.
Starts(S, n) ==
    /\ S \in [1..n -> Nat] /\ S[1] = 0
    /\ \A f \in 1..n : f # 1 => S[f] = S[f - 1] + HeaderSize + size[f - 1]

Sized == size \in [1..Frames -> Nat]

\* Such a function exists for every n: of the n without one, the least would be
\* one more than an n that has one.
LEMMA StartsExist ==
    ASSUME DispatcherAssumption, Sized, NEW n \in 1..(Frames + 1)
    PROVE  \E S : Starts(S, n)
<1>1. Frames \in Nat /\ HeaderSize \in Nat
  BY DEF DispatcherAssumption
<1> DEFINE T == {m \in Nat : m \in 1..(Frames + 1) /\ ~\E S : Starts(S, m)}
<1>2. SUFFICES ASSUME T # {} PROVE FALSE
  BY <1>1
<1>3. PICK m \in T : \A k \in T : m <= k
  <2>1. T \in SUBSET Nat
    OBVIOUS
  <2> HIDE DEF T
  <2>2. QED
    BY <1>2, <2>1, LeastMember
<1>4. CASE m = 1
  <2>1. Starts([f \in 1..1 |-> 0], 1)
    BY DEF Starts
  <2>2. QED
    BY <1>3, <1>4, <2>1
<1>5. CASE m # 1
  <2>1. m - 1 \in 1..(Frames + 1) /\ m - 1 \in 1..Frames /\ m - 1 \in Nat /\ m - 1 < m
    BY <1>1, <1>3, <1>5
  <2>2. m - 1 \notin T
    BY <1>3, <2>1
  <2>3. PICK S : Starts(S, m - 1)
    BY <2>1, <2>2
  <2> DEFINE following == S[m - 1] + HeaderSize + size[m - 1]
             F == [f \in 1..m |-> IF f = m THEN following ELSE S[f]]
  <2>4. following \in Nat
    BY <1>1, <2>1, <2>3 DEF Starts, Sized
  <2>5. m \in Nat /\ 1 \in 1..(m - 1)
    BY <1>3, <1>5
  <2>6. F \in [1..m -> Nat] /\ F[1] = 0
    BY <2>3, <2>4, <2>5 DEF Starts
  <2>7. ASSUME NEW f \in 1..m, f # 1
        PROVE  F[f] = F[f - 1] + HeaderSize + size[f - 1]
    <3>1. f - 1 \in 1..m /\ f - 1 # m /\ F[f - 1] = S[f - 1]
      BY <2>5, <2>7
    <3>2. CASE f = m
      BY <3>1, <3>2
    <3>3. CASE f # m
      <4>1. f \in 1..(m - 1) /\ F[f] = S[f]
        BY <2>5, <3>3
      <4>2. QED
        BY <3>1, <4>1, <2>3, <2>7 DEF Starts
    <3>4. QED
      BY <3>2, <3>3
  <2>8. Starts(F, m)
    <3> HIDE DEF F
    <3> QED
      BY <2>6, <2>7 DEF Starts
  <2>9. QED
    BY <1>3, <2>8
<1>6. QED
  BY <1>4, <1>5

\* Start is that function.
LEMMA StartProperty ==
    ASSUME DispatcherAssumption, Sized
    PROVE  Starts(Start, Frames + 1)
<1>1. Frames + 1 \in 1..(Frames + 1) /\ Frames \in Nat
  BY DEF DispatcherAssumption
<1>2. PICK S : Starts(S, Frames + 1)
  BY <1>1, StartsExist
<1> DEFINE Rec(F) == F = [f \in 1..(Frames + 1) |->
                    IF f = 1 THEN 0 ELSE F[f - 1] + HeaderSize + size[f - 1]]
<1>3. Rec(S)
  BY <1>1, <1>2 DEF Starts
<1>4. Start = CHOOSE F : Rec(F)
  BY DEF Start
<1>5. Rec(Start)
  <2> HIDE DEF Rec
  <2> QED
    BY <1>3, <1>4
<1>6. /\ Start = [f \in 1..(Frames + 1) |-> Start[f]]
      /\ Start[1] = 0
      /\ \A f \in 1..(Frames + 1) :
            f # 1 => Start[f] = Start[f - 1] + HeaderSize + size[f - 1]
  <2>1. 1 \in 1..(Frames + 1)
    BY <1>1
  <2> HIDE DEF Start
  <2>2. QED
    BY <1>5, <2>1
<1> DEFINE T == {m \in Nat : m \in 1..(Frames + 1) /\ Start[m] \notin Nat}
<1>7. ASSUME T # {} PROVE FALSE
  <2>1. PICK m \in T : \A k \in T : m <= k
    <3>1. T \in SUBSET Nat
      OBVIOUS
    <3> HIDE DEF T
    <3>2. QED
      BY <1>7, <3>1, LeastMember
  <2>2. m \in 1..(Frames + 1) /\ m # 1
    BY <1>6, <2>1
  <2>3. m - 1 \in 1..Frames /\ m - 1 \in 1..(Frames + 1) /\ m - 1 \in Nat /\ m - 1 < m
    BY <1>1, <2>2
  <2>4. Start[m - 1] \in Nat
    BY <2>1, <2>3
  <2>5. size[m - 1] \in Nat /\ HeaderSize \in Nat
    BY <2>3 DEF Sized, DispatcherAssumption
  <2>6. Start[m] \in Nat
    <3>1. Start[m] = Start[m - 1] + HeaderSize + size[m - 1]
      BY <1>6, <2>2, Zenon
    <3>2. QED
      BY <2>4, <2>5, <3>1
  <2>7. QED
    BY <2>1, <2>6
<1>8. QED
  <2>1. \A m \in 1..(Frames + 1) : Start[m] \in Nat
    BY <1>7, <1>1
  <2>2. Start \in [1..(Frames + 1) -> Nat]
    BY <1>6, <2>1
  <2>3. QED
    BY <1>6, <2>2 DEF Starts

\* Frames follow each other.
LEMMA StartsGrow ==
    ASSUME DispatcherAssumption, Sized,
           NEW f \in 1..Frames, NEW g \in 1..(Frames + 1), f < g
    PROVE  Start[f] + HeaderSize + size[f] <= Start[g]
<1>1. Frames \in Nat /\ HeaderSize \in Nat
  BY DEF DispatcherAssumption
<1>2. Starts(Start, Frames + 1)
  BY StartProperty
<1> DEFINE end == Start[f] + HeaderSize + size[f]
           T == {m \in Nat : m \in (f + 1)..(Frames + 1) /\ ~(end <= Start[m])}
<1>3. end \in Nat
  BY <1>1, <1>2 DEF Starts, Sized
<1> HIDE DEF end
<1>4. ASSUME T # {} PROVE FALSE
  <2>1. PICK m \in T : \A k \in T : m <= k
    <3>1. T \in SUBSET Nat
      OBVIOUS
    <3> HIDE DEF T
    <3>2. QED
      BY <1>4, <3>1, LeastMember
  <2>2. m \in (f + 1)..(Frames + 1) /\ m \in 1..(Frames + 1) /\ m # 1
        /\ m - 1 \in 1..Frames /\ m - 1 \in Nat
    BY <1>1, <2>1
  <2>3. /\ Start[m] = Start[m - 1] + HeaderSize + size[m - 1]
        /\ Start[m - 1] \in Nat /\ size[m - 1] \in Nat
    BY <1>1, <1>2, <2>2 DEF Starts, Sized
  <2>4. CASE m = f + 1
    <3>1. m - 1 = f
      BY <2>4
    <3>2. Start[m] = end
      BY <2>3, <3>1 DEF end
    <3>3. QED
      BY <2>1, <3>2, <1>3
  <2>5. CASE m # f + 1
    <3>1. m - 1 \in (f + 1)..(Frames + 1) /\ m - 1 < m
      BY <2>2, <2>5
    <3>2. end <= Start[m - 1]
      BY <2>1, <2>2, <3>1
    <3>3. end <= Start[m]
      BY <1>1, <1>3, <2>3, <3>2
    <3>4. QED
      BY <2>1, <3>3
  <2>6. QED
    BY <2>4, <2>5
<1>5. g \in (f + 1)..(Frames + 1) /\ g \in Nat
  BY <1>1
<1>6. QED
  BY <1>4, <1>5 DEF end

-----------------------------------------------------------------------------
(* Dispatcher: what becomes of the frames.                                 *)

\* Positions, taken from the front or put together.
LEMMA PositionsCut ==
    ASSUME NEW r \in Nat, NEW m \in Nat, NEW k \in 0..m
    PROVE  /\ SubSeq(Positions(r, m), k + 1, m) = Positions(r + k, m - k)
           /\ SubSeq(Positions(r, m), 1, k) = Positions(r, k)
<1> DEFINE p == Positions(r, m)
<1>1. /\ p \in Seq(Nat) /\ Len(p) = m
      /\ \A i \in 1..m : p[i] = r + i
  BY PositionsType DEF Positions
<1>2. /\ Positions(r + k, m - k) \in Seq(Nat) /\ Len(Positions(r + k, m - k)) = m - k
      /\ \A i \in 1..(m - k) : Positions(r + k, m - k)[i] = r + k + i
  BY PositionsType DEF Positions
<1>3. /\ Positions(r, k) \in Seq(Nat) /\ Len(Positions(r, k)) = k
      /\ \A i \in 1..k : Positions(r, k)[i] = r + i
  BY PositionsType DEF Positions
<1> DEFINE rest == SubSeq(p, k + 1, m)
           front == SubSeq(p, 1, k)
<1>4. /\ rest \in Seq(Nat) /\ Len(rest) = m - k
      /\ \A i \in 1..(m - k) : rest[i] = r + k + i
  <2>1. \A i \in (k + 1)..m : p[i] \in Nat
    BY <1>1
  <2>2. /\ rest \in Seq(Nat)
        /\ Len(rest) = IF k + 1 <= m THEN m - (k + 1) + 1 ELSE 0
        /\ \A i \in 1..(m - (k + 1) + 1) : rest[i] = p[k + 1 + i - 1]
    <3> HIDE DEF p
    <3> QED
      BY <2>1, SubSeqProperties
  <2>3. Len(rest) = m - k /\ m - (k + 1) + 1 = m - k
    BY <2>2
  <2>4. ASSUME NEW i \in 1..(m - k) PROVE rest[i] = r + k + i
    <3>1. k + 1 + i - 1 \in 1..m /\ r + (k + 1 + i - 1) = r + k + i
      OBVIOUS
    <3> HIDE DEF p, rest
    <3>2. QED
      BY <1>1, <2>2, <2>3, <3>1
  <2>5. QED
    BY <2>2, <2>3, <2>4
<1>5. /\ front \in Seq(Nat) /\ Len(front) = k
      /\ \A i \in 1..k : front[i] = r + i
  <2>1. \A i \in 1..k : p[i] \in Nat
    BY <1>1
  <2>2. /\ front \in Seq(Nat)
        /\ Len(front) = IF 1 <= k THEN k - 1 + 1 ELSE 0
        /\ \A i \in 1..(k - 1 + 1) : front[i] = p[1 + i - 1]
    <3> HIDE DEF p
    <3> QED
      BY <2>1, SubSeqProperties
  <2>3. Len(front) = k /\ k - 1 + 1 = k
    BY <2>2
  <2>4. ASSUME NEW i \in 1..k PROVE front[i] = r + i
    <3>1. 1 + i - 1 = i /\ i \in 1..m
      OBVIOUS
    <3> HIDE DEF p, front
    <3>2. QED
      BY <1>1, <2>2, <2>3, <3>1
  <2>5. QED
    BY <2>2, <2>3, <2>4
<1> HIDE DEF p, rest, front
<1>6. rest = Positions(r + k, m - k)
  BY <1>2, <1>4, SeqEqual
<1>7. front = Positions(r, k)
  BY <1>3, <1>5, SeqEqual
<1>8. QED
  BY <1>6, <1>7 DEF p, rest, front

LEMMA PositionsJoin ==
    ASSUME NEW r \in Nat, NEW m \in Nat, NEW n \in Nat
    PROVE  Positions(r, m) \o Positions(r + m, n) = Positions(r, m + n)
<1> DEFINE a == Positions(r, m)
           b == Positions(r + m, n)
           c == Positions(r, m + n)
<1>1. /\ a \in Seq(Nat) /\ Len(a) = m
      /\ \A i \in 1..m : a[i] = r + i
  BY PositionsType DEF Positions
<1>2. /\ b \in Seq(Nat) /\ Len(b) = n
      /\ \A i \in 1..n : b[i] = r + m + i
  BY PositionsType DEF Positions
<1>3. /\ c \in Seq(Nat) /\ Len(c) = m + n
      /\ \A i \in 1..(m + n) : c[i] = r + i
  BY PositionsType DEF Positions
<1> HIDE DEF a, b, c
<1>4. /\ a \o b \in Seq(Nat) /\ Len(a \o b) = m + n
      /\ \A i \in 1..(m + n) : (a \o b)[i] = IF i <= m THEN a[i] ELSE b[i - m]
  BY ZenonT(30), <1>1, <1>2, ConcatProperties
<1>5. ASSUME NEW i \in 1..(m + n) PROVE (a \o b)[i] = c[i]
  <2>1. CASE i <= m
    BY <1>1, <1>3, <1>4, <2>1
  <2>2. CASE ~(i <= m)
    <3>1. i - m \in 1..n /\ r + m + (i - m) = r + i
      BY <2>2
    <3>2. QED
      BY <1>2, <1>3, <1>4, <2>2, <3>1
  <2>3. QED
    BY <2>1, <2>2
<1>6. a \o b = c
  BY <1>3, <1>4, <1>5, SeqEqual
<1>7. QED
  BY <1>6 DEF a, b, c

\* Equal texts begin at equal positions.
LEMMA PositionsStart ==
    ASSUME NEW r \in Nat, NEW t \in Nat, NEW n \in Nat \ {0},
           Positions(r, n) = Positions(t, n)
    PROVE  r = t
<1>1. 1 \in 1..n /\ Positions(r, n)[1] = Positions(t, n)[1]
  OBVIOUS
<1>2. r + 1 = t + 1
  BY <1>1 DEF Positions
<1>3. QED
  BY <1>2

\* A string that lies within the readable bytes.
LEMMA StringProperty ==
    ASSUME NEW b, IsBuffer(b), NEW r \in Nat, NEW m \in Nat,
           Readable(b) = Positions(r, m), NEW len \in 0..m
    PROVE  AsString(b, len) = Positions(r, len)
<1>1. m = b.writer - b.reader
  BY ReadableProperties, PositionsType
<1>2. ASSUME NEW i \in 1..len
      PROVE  b.reader + i <= Len(b.data) /\ b.data[b.reader + i] = r + i
  <2>1. i \in 1..(b.writer - b.reader) /\ i \in 1..m
    BY <1>1
  <2>2. Readable(b)[i] = b.data[b.reader + i]
    BY <2>1, ReadableProperties
  <2>3. Readable(b)[i] = r + i
    BY <2>1 DEF Positions
  <2>4. b.reader \in Nat /\ b.writer \in Nat /\ Len(b.data) \in Nat
        /\ b.writer <= Len(b.data)
    BY LenProperties DEF IsBuffer
  <2>5. QED
    BY <2>1, <2>2, <2>3, <2>4
<1>3. QED
  BY <1>2 DEF AsString, Positions

LEMMA SizesAreSizes ==
    ASSUME DispatcherAssumption, QueueInv
    PROVE  /\ Sized /\ Frames \in Nat /\ HeaderSize \in Nat \ {0}
           /\ \A f \in 1..Frames : size[f] \in Nat /\ size[f] # 0
BY DEF DispatcherAssumption, QueueInv, Sized

\* A position is the start of one frame, and lies within one.
LEMMA StartsProperties ==
    ASSUME DispatcherAssumption, QueueInv
    PROVE  /\ Start[1] = 0
           /\ \A f \in 1..(Frames + 1) : Start[f] \in Nat
           /\ \A f \in 1..Frames : Start[f + 1] = Start[f] + HeaderSize + size[f]
           /\ \A f, g \in 1..(Frames + 1) : f < g => Start[f] < Start[g]
<1>1. /\ Sized /\ Frames \in Nat /\ HeaderSize \in Nat \ {0}
      /\ \A f \in 1..Frames : size[f] \in Nat /\ size[f] # 0
  BY SizesAreSizes
<1>2. Starts(Start, Frames + 1)
  BY <1>1, StartProperty
<1>3. Start[1] = 0 /\ \A f \in 1..(Frames + 1) : Start[f] \in Nat
  BY <1>2 DEF Starts
<1>4. ASSUME NEW f \in 1..Frames PROVE Start[f + 1] = Start[f] + HeaderSize + size[f]
  <2>1. f + 1 \in 1..(Frames + 1) /\ f + 1 # 1 /\ (f + 1) - 1 = f
    BY <1>1
  <2>2. QED
    BY <1>2, <2>1 DEF Starts
<1>5. ASSUME NEW f \in 1..(Frames + 1), NEW g \in 1..(Frames + 1), f < g
      PROVE  Start[f] < Start[g]
  <2>1. f \in 1..Frames
    BY <1>1, <1>5
  <2>2. Start[f] + HeaderSize + size[f] <= Start[g]
    BY <1>1, <1>5, <2>1, StartsGrow
  <2>3. QED
    BY <1>1, <1>3, <2>1, <2>2
<1>6. QED
  BY <1>3, <1>4, <1>5

\* What is in the buffer: the bytes of the stream that come after those that
\* have left it.
InBuffer(b, m) == IsBuffer(b) /\ m \in Nat /\ Readable(b) = Positions(Read, m)

\* The header at the front is that of frame f exactly when f starts there.
LEMMA HeaderProperty ==
    ASSUME DispatcherAssumption, QueueInv, NEW b, NEW m, InBuffer(b, m), m > HeaderSize,
           NEW f \in 1..Frames
    PROVE  AsString(b, HeaderSize) = Header(f) <=> Read = Start[f]
<1>1. HeaderSize \in 0..m /\ HeaderSize \in Nat \ {0} /\ m \in Nat
  BY SizesAreSizes DEF InBuffer
<1>2. Read \in Nat /\ Start[f] \in Nat
  BY LenProperties, StartsProperties, SizesAreSizes DEF Read, QueueInv
<1>3. AsString(b, HeaderSize) = Positions(Read, HeaderSize)
  BY <1>1, <1>2, StringProperty DEF InBuffer
<1>4. QED
  BY <1>1, <1>2, <1>3, PositionsStart DEF Header

\* Either the buffer stays as it is, or the frame at its front is consumed.
Stays(b, m) ==
    /\ buf' = b /\ given' = given /\ handled' = handled
    /\ \A f \in 1..Frames : Read = Start[f] /\ m > HeaderSize =>
                               size[f] > MaxFrameSize \/ ~(size[f] >= m - HeaderSize)
Goes(f, b, m) ==
    /\ Read = Start[f] /\ m > HeaderSize /\ size[f] >= m - HeaderSize
    /\ ~(size[f] > MaxFrameSize)
    /\ Consume(f, b)

LEMMA HoldsSize ==
    ASSUME NEW b, NEW m, InBuffer(b, m), QueueInv
    PROVE  readableBytes(b) = m /\ m \in Nat /\ Read \in Nat
BY ReadableProperties, PositionsType, LenProperties DEF InBuffer, readableBytes, Read, QueueInv

LEMMA DispatchDoes ==
    ASSUME DispatcherAssumption, QueueInv, NEW b, NEW m, InBuffer(b, m), dispatch(b)
    PROVE  Stays(b, m) \/ \E f \in 1..Frames : Goes(f, b, m)
<1>1. readableBytes(b) = m /\ m \in Nat
  BY HoldsSize
<1>2. ASSUME NEW f \in 1..Frames, m > HeaderSize
      PROVE  AsString(b, HeaderSize) = Header(f) <=> Read = Start[f]
  BY <1>2, HeaderProperty
<1>3. HeaderSize \in Nat
  BY SizesAreSizes
<1>4. CASE ~(m > HeaderSize)
  BY <1>1, <1>3, <1>4 DEF dispatch, Leave, Stays
<1>5. CASE m > HeaderSize
  <2>1. CASE \A f \in 1..Frames : ~(AsString(b, HeaderSize) = Header(f))
    <3>1. buf' = b /\ given' = given /\ handled' = handled
      BY <1>1, <1>3, <1>5, <2>1 DEF dispatch, Misread
    <3>2. \A f \in 1..Frames : Read # Start[f]
      BY <1>2, <1>5, <2>1
    <3>3. QED
      BY <3>1, <3>2 DEF Stays
  <2>2. CASE ~ \A f \in 1..Frames : ~(AsString(b, HeaderSize) = Header(f))
    <3>1. PICK f \in 1..Frames :
             /\ AsString(b, HeaderSize) = Header(f)
             /\ IF size[f] > MaxFrameSize THEN Refuse(b)
                ELSE IF IsConsumed(f, b) THEN Consume(f, b) ELSE Leave(b)
      BY <1>1, <1>3, <1>5, <2>2 DEF dispatch
    <3>2. Read = Start[f]
      BY <1>2, <1>5, <3>1
    <3>3. ASSUME NEW g \in 1..Frames, Read = Start[g] PROVE g = f
      <4>1. Start[g] = Start[f] /\ Start[g] \in Nat /\ Frames \in Nat
        BY <3>2, <3>3, StartsProperties, SizesAreSizes
      <4>2. f < g \/ g < f \/ g = f
        BY <4>1
      <4>3. ~(f < g) /\ ~(g < f)
        <5>1. f \in 1..(Frames + 1) /\ g \in 1..(Frames + 1)
          BY <4>1
        <5>2. QED
          BY <4>1, <5>1, StartsProperties
      <4>4. QED
        BY <4>2, <4>3
    <3>4. CASE ~(size[f] > MaxFrameSize) /\ IsConsumed(f, b)
      BY <1>1, <1>5, <3>1, <3>2, <3>4 DEF Goes, IsConsumed
    <3>5. CASE size[f] > MaxFrameSize \/ ~IsConsumed(f, b)
      <4>1. buf' = b /\ given' = given /\ handled' = handled
        BY <3>1, <3>5 DEF Refuse, Leave
      <4>2. QED
        BY <1>1, <3>3, <3>5, <4>1 DEF Stays, IsConsumed
    <3>6. QED
      BY <3>4, <3>5
  <2>3. QED
    BY <2>1, <2>2
<1>6. QED
  BY <1>4, <1>5

\* A frame that goes takes everything with it; if it is complete it is handled
\* as what it is.
LEMMA ConsumeDoes ==
    ASSUME BufferAssumption, DispatcherAssumption, QueueInv,
           NEW b, NEW m, InBuffer(b, m), NEW f \in 1..Frames, Goes(f, b, m)
    PROVE  /\ Len(given') = Read + m /\ Readable(buf') = <<>>
           /\ \/ handled' = handled \o <<f>>
              \/ handled' = handled \o <<Mixed>>
              \/ handled' = handled \o <<>>
           /\ m = HeaderSize + size[f] => handled' = handled \o <<f>>
<1>1. /\ readableBytes(b) = m /\ m \in Nat /\ Read \in Nat /\ IsBuffer(b)
      /\ HeaderSize \in Nat \ {0} /\ size[f] \in Nat /\ given \in Seq(Nat)
      /\ m > HeaderSize /\ size[f] >= m - HeaderSize /\ Read = Start[f]
      /\ Readable(b) = Positions(Read, m)
  BY HoldsSize, SizesAreSizes DEF Goes, InBuffer, QueueInv
<1> DEFINE body == retrieve(b, HeaderSize)
           taken == HeaderSize + size[f]
           text == AsString(body, size[f])
<1>2. /\ given' = given \o SubSeq(Readable(b), 1,
                         IF taken < readableBytes(b) THEN taken ELSE readableBytes(b))
      /\ \E messages \in Parsed(text, f) : handled' = handled \o messages
  BY DEF Goes, Consume
<1>3. given' = given \o Positions(Read, m)
  <2>1. ~(taken < readableBytes(b))
    BY <1>1
  <2>2. SubSeq(Positions(Read, m), 1, m) = Positions(Read, m)
    <3>1. m \in 0..m /\ m \in Nat /\ Read \in Nat
      BY <1>1
    <3>2. QED
      BY <3>1, PositionsCut
  <2> HIDE DEF taken
  <2>3. QED
    BY <1>1, <1>2, <2>1, <2>2
<1>4. Len(given') = Read + m
  <2>1. /\ Positions(Read, m) \in Seq(Nat) /\ Len(Positions(Read, m)) = m
        /\ given \in Seq(Nat)
    BY <1>1, PositionsType
  <2>2. Len(given \o Positions(Read, m)) = Len(given) + Len(Positions(Read, m))
    BY <2>1, ConcatProperties
  <2>3. QED
    BY <1>3, <2>1, <2>2 DEF Read
<1>5. Readable(buf') = <<>>
  <2>1. /\ IsBuffer(buf') /\ given' \in Seq(Nat)
        /\ given' \o Readable(buf') = given \o Readable(b)
    BY <1>1, ConsumeKeeps DEF Goes
  <2> DEFINE c == Readable(buf')
  <2>2. c \in Seq(Nat) /\ Len(c) \in Nat
    BY <2>1, ReadableProperties, LenProperties
  <2> HIDE DEF c
  <2>3. Len(given' \o c) = (Read + m) + Len(c)
    BY <1>4, <2>1, <2>2, ConcatProperties
  <2>4. Len(given \o Readable(b)) = Read + m
    <3>1. given' = given \o Readable(b)
      BY <1>1, <1>3
    <3>2. QED
      BY <1>4, <3>1
  <2>5. Len(c) = 0
    <3>1. given' \o c = given \o Readable(b)
      BY <2>1 DEF c
    <3>2. QED
      BY <1>1, <2>2, <2>3, <2>4, <3>1
  <2>6. c = <<>>
    BY <2>2, <2>5, EmptySeq
  <2>7. QED
    BY <2>6 DEF c
<1>6. \/ handled' = handled \o <<f>>
      \/ handled' = handled \o <<Mixed>>
      \/ handled' = handled \o <<>>
  BY <1>2 DEF Parsed
<1>7. ASSUME m = HeaderSize + size[f] PROVE handled' = handled \o <<f>>
  <2>1. HeaderSize \in 0..m /\ m - HeaderSize = size[f] /\ size[f] \in 0..size[f]
    BY <1>1, <1>7
  <2>2. IsBuffer(body) /\ Readable(body) = SubSeq(Readable(b), HeaderSize + 1, Len(Readable(b)))
    BY <1>1, BufferAssumption, RetrieveProperty
  <2>3. Len(Readable(b)) = m
    <3>1. Len(Positions(Read, m)) = m
      <4>1. Read \in Nat /\ m \in Nat
        BY <1>1
      <4>2. QED
        BY <4>1, PositionsType
    <3>2. QED
      BY <1>1, <3>1
  <2>4. Readable(body) = Positions(Read + HeaderSize, size[f])
    <3>1. Read \in Nat /\ m \in Nat /\ HeaderSize \in 0..m
      BY <1>1, <2>1
    <3>2. SubSeq(Positions(Read, m), HeaderSize + 1, m)
            = Positions(Read + HeaderSize, m - HeaderSize)
      BY ZenonT(30), <3>1, PositionsCut
    <3> HIDE DEF body
    <3>3. Readable(body) = SubSeq(Positions(Read, m), HeaderSize + 1, m)
      BY <1>1, <2>2, <2>3
    <3>4. QED
      BY <2>1, <3>2, <3>3
  <2>5. text = Positions(Read + HeaderSize, size[f])
    <3>1. Read + HeaderSize \in Nat
      BY <1>1
    <3> HIDE DEF body
    <3>2. QED
      BY <1>1, <2>1, <2>2, <2>4, <3>1, StringProperty
  <2>6. text = Body(f)
    BY <1>1, <2>5 DEF Body
  <2> HIDE DEF text
  <2>7. Parsed(text, f) = {<<f>>}
    BY <2>6 DEF Parsed
  <2>8. QED
    BY <1>2, <2>7
<1>8. QED
  BY <1>4, <1>5, <1>6, <1>7

\* Between two frames, k of them handled; or within the frame that follows
\* them, where no header is any more.
InStep(k) == Read = Start[k + 1] /\ Len(handled) = k
OffStep(k) ==
    /\ k \in 0..(Frames - 1)
    /\ Start[k + 1] + HeaderSize < Read /\ Read < Start[k + 2]
    /\ Len(handled) \in {k, k + 1}

\* As long as reads are gentle: all that was handled is what came, and of the
\* frame that comes next no more than the header is there, unless it is too
\* large.
InOrder ==
    /\ Len(handled) \in 0..Frames /\ Read = Start[Len(handled) + 1]
    /\ \A n \in 1..Len(handled) : handled[n] = n
    /\ Len(handled) < Frames =>
          \/ size[Len(handled) + 1] > MaxFrameSize
          \/ Arrived <= Start[Len(handled) + 1] + HeaderSize

FrameInv ==
    /\ QueueInv /\ InBuffer(buf, readableBytes(buf)) /\ Arrived <= StreamEnd
    /\ handled \in Seq(Nat) /\ NoneSkipped
    /\ \E k \in 0..Frames : InStep(k) \/ OffStep(k)
    /\ gentle => InOrder

LEMMA FrameInit == DispatchInit => FrameInv
<1> SUFFICES ASSUME DispatchInit PROVE FrameInv
  OBVIOUS
<1>1. QueueInv /\ IsBuffer(buf) /\ Readable(buf) = <<>>
  BY BufferAssumption, EmptyBufferProperties, QueueInvInit DEF DispatchInit
<1>2. /\ Frames \in Nat /\ HeaderSize \in Nat /\ Start[1] = 0 /\ StreamEnd \in Nat
  <2>1. Frames + 1 \in 1..(Frames + 1)
    BY <1>1, DispatcherAssumption, SizesAreSizes
  <2>2. QED
    BY <1>1, <2>1, DispatcherAssumption, SizesAreSizes, StartsProperties DEF StreamEnd
<1>3. Read = 0 /\ Len(handled) = 0 /\ handled \in Seq(Nat)
  BY EmptySeq DEF DispatchInit, Read
<1>4. readableBytes(buf) = 0
  <2>1. Len(Readable(buf)) = readableBytes(buf)
    BY <1>1, ReadableProperties DEF readableBytes
  <2>2. QED
    BY <1>1, <2>1, EmptySeq
<1>5. InBuffer(buf, readableBytes(buf))
  <2>1. Positions(0, 0) \in Seq(Nat) /\ Len(Positions(0, 0)) = 0
    BY PositionsType
  <2>2. Positions(0, 0) = <<>>
    BY <2>1, EmptySeq
  <2>3. QED
    BY <1>1, <1>3, <1>4, <2>2 DEF InBuffer
<1>6. Arrived = 0 /\ Arrived <= StreamEnd
  BY <1>2, <1>3, <1>4 DEF Arrived
<1>7. NoneSkipped /\ \A n \in 1..Len(handled) : handled[n] = n
  BY <1>3 DEF NoneSkipped
<1>8. InStep(0) /\ 0 \in 0..Frames
  BY <1>2, <1>3 DEF InStep
<1>9. InOrder
  BY <1>2, <1>3, <1>6, <1>7 DEF InOrder
<1>10. QED
  BY <1>1, <1>3, <1>5, <1>6, <1>7, <1>8, <1>9 DEF FrameInv

\* What the frame was that goes: the one that follows those that were handled.
LEMMA NextFrame ==
    ASSUME FrameInv, NEW f \in 1..Frames, Read = Start[f]
    PROVE  Len(handled) = f - 1
<1>1. QueueInv /\ Frames \in Nat /\ HeaderSize \in Nat
  BY DispatcherAssumption, SizesAreSizes DEF FrameInv
<1>2. /\ \A g \in 1..(Frames + 1) : Start[g] \in Nat
      /\ \A g, h \in 1..(Frames + 1) : g < h => Start[g] < Start[h]
  BY <1>1, DispatcherAssumption, StartsProperties
<1>3. PICK k \in 0..Frames : InStep(k) \/ OffStep(k)
  BY DEF FrameInv
<1>4. k + 1 \in 1..(Frames + 1) /\ f \in 1..(Frames + 1)
  BY <1>1
<1>5. CASE InStep(k)
  <2>1. Start[k + 1] = Start[f] /\ Len(handled) = k
    BY <1>5 DEF InStep
  <2>2. ~(k + 1 < f) /\ ~(f < k + 1)
    BY <1>2, <1>4, <2>1
  <2>3. QED
    BY <1>1, <2>1, <2>2
<1>6. CASE OffStep(k)
  <2>1. /\ k + 2 \in 1..(Frames + 1)
        /\ Start[k + 1] + HeaderSize < Start[f] /\ Start[f] < Start[k + 2]
    BY <1>1, <1>6 DEF OffStep
  <2>2. CASE f <= k + 1
    <3>1. Start[f] <= Start[k + 1]
      <4>1. f < k + 1 \/ f = k + 1
        BY <1>1, <2>2
      <4>2. QED
        BY <1>2, <1>4, <4>1
    <3>2. QED
      BY <1>1, <1>2, <1>4, <2>1, <3>1
  <2>3. CASE ~(f <= k + 1)
    <3>1. Start[k + 2] <= Start[f]
      <4>1. k + 2 < f \/ f = k + 2
        BY <1>1, <2>3
      <4>2. QED
        BY <1>2, <1>4, <2>1, <4>1
    <3>2. QED
      BY <1>2, <1>4, <2>1, <3>1
  <2>4. QED
    BY <2>2, <2>3
<1>7. QED
  BY <1>3, <1>5, <1>6

\* After a message more.
LEMMA OneMore ==
    ASSUME NEW s \in Seq(Nat), NEW x \in Nat, NEW t, t = s \o <<x>>
    PROVE  /\ t \in Seq(Nat) /\ Len(t) = Len(s) + 1 /\ Len(s) \in Nat
           /\ \A n \in 1..Len(s) : t[n] = s[n]
           /\ t[Len(s) + 1] = x
<1>1. <<x>> \in Seq(Nat) /\ Len(<<x>>) = 1 /\ <<x>>[1] = x
  OBVIOUS
<1> DEFINE o == <<x>>
<1>2. o \in Seq(Nat) /\ Len(o) = 1 /\ o[1] = x /\ t = s \o o
  BY <1>1
<1> HIDE DEF o
<1>3. Len(s) \in Nat
  BY LenProperties
<1>4. /\ t \in Seq(Nat) /\ Len(t) = Len(s) + Len(o)
      /\ \A i \in 1..(Len(s) + Len(o)) :
            t[i] = IF i <= Len(s) THEN s[i] ELSE o[i - Len(s)]
  BY <1>2, ConcatProperties
<1>5. Len(s) + 1 \in 1..(Len(s) + 1) /\ ~(Len(s) + 1 <= Len(s))
      /\ (Len(s) + 1) - Len(s) = 1
  BY <1>3
<1>6. t[Len(s) + 1] = x
  BY <1>2, <1>4, <1>5
<1>7. \A n \in 1..Len(s) : t[n] = s[n]
  BY <1>2, <1>3, <1>4
<1>8. QED
  BY <1>2, <1>3, <1>4, <1>6, <1>7

\* Where frames start does not change, as their sizes do not.
LEMMA SameStarts == ASSUME size' = size PROVE Start' = Start
BY DEF Start

\* A read: the buffer that dispatch is given, and where it ends.
Reads(b, n) ==
    /\ n \in Nat \ {0} /\ Arrived + n <= StreamEnd
    /\ gentle' = (gentle /\ Gentle(Arrived + n))
    /\ InBuffer(b, readableBytes(buf) + n) /\ dispatch(b)

LEMMA SomeRead ==
    ASSUME BufferAssumption, DispatcherAssumption, FrameInv, handleRead
    PROVE  /\ size' = size
           /\ \E b, n : Reads(b, n)
<1>1. PICK n \in 1..ReadLimit(buf) :
          /\ Arrived + n <= StreamEnd
          /\ gentle' = (gentle /\ Gentle(Arrived + n))
          /\ dispatch(readfd(buf, Positions(Arrived, n)))
  BY DEF handleRead
<1> DEFINE m == readableBytes(buf)
           b == readfd(buf, Positions(Read + m, n))
<1>2. /\ IsBuffer(buf) /\ m \in Nat /\ Read \in Nat
      /\ Readable(buf) = Positions(Read, m)
  BY HoldsSize DEF FrameInv, InBuffer
<1>3. n \in Nat \ {0}
  <2>1. buf.writer \in Nat /\ Len(buf.data) \in Nat /\ ExtraSize \in Nat
    BY <1>2, LenProperties DEF IsBuffer, BufferAssumption
  <2>2. QED
    BY <2>1 DEF ReadLimit, writeableBytes
<1>4. Arrived = Read + m
  BY DEF Arrived
<1> HIDE DEF m
<1>5. IsBuffer(b) /\ Readable(b) = Positions(Read, m + n)
  <2>1. /\ Positions(Read + m, n) \in Seq(Nat) /\ Len(Positions(Read + m, n)) = n
        /\ Positions(Read, m) \o Positions(Read + m, n) = Positions(Read, m + n)
    <3>1. Read \in Nat /\ m \in Nat /\ n \in Nat
      BY <1>2, <1>3
    <3>2. Read + m \in Nat
      BY <3>1
    <3>3. Positions(Read, m) \o Positions(Read + m, n) = Positions(Read, m + n)
      BY ZenonT(30), <3>1, PositionsJoin
    <3>4. QED
      BY <3>1, <3>2, <3>3, PositionsType
  <2> DEFINE new == Positions(Read + m, n)
  <2> HIDE DEF new
  <2>2. IsBuffer(readfd(buf, new)) /\ Readable(readfd(buf, new)) = Readable(buf) \o new
    <3>1. new \in Seq(Nat)
      BY <2>1 DEF new
    <3>2. QED
      BY <1>2, <3>1, BufferAssumption, ReadfdProperty
  <2>3. QED
    BY <1>2, <2>1, <2>2 DEF new
<1>6. InBuffer(b, m + n) /\ dispatch(b)
  <2>1. m + n \in Nat
    BY <1>2, <1>3
  <2>2. dispatch(b)
    BY <1>1, <1>4
  <2> HIDE DEF b
  <2>3. QED
    BY <1>5, <2>1, <2>2 DEF InBuffer
<1>7. Reads(b, n)
  BY <1>1, <1>3, <1>6 DEF Reads, m
<1>8. QED
  BY <1>7 DEF handleRead

\* If a read is gentle and so were all before, it stays within the next frame:
\* it ends in its header, after it, or with the frame.
LEMMA GentleRead ==
    ASSUME DispatcherAssumption, FrameInv, InOrder, NEW end \in Nat, Gentle(end), Arrived < end,
           end <= StreamEnd,
           ~(Len(handled) < Frames => size[Len(handled) + 1] > MaxFrameSize)
    PROVE  \/ end <= Start[Len(handled) + 1] + HeaderSize
           \/ end = Start[Len(handled) + 2]
<1> DEFINE k == Len(handled)
<1>1. /\ QueueInv /\ Frames \in Nat /\ HeaderSize \in Nat \ {0}
      /\ \A f \in 1..Frames : size[f] \in Nat /\ size[f] # 0
      /\ readableBytes(buf) \in Nat
  BY SizesAreSizes, HoldsSize DEF FrameInv
<1>2. /\ \A g \in 1..(Frames + 1) : Start[g] \in Nat
      /\ \A f \in 1..Frames : Start[f + 1] = Start[f] + HeaderSize + size[f]
      /\ \A g, h \in 1..(Frames + 1) : g < h => Start[g] < Start[h]
  BY <1>1, StartsProperties
<1>3. /\ k \in 0..Frames /\ Read = Start[k + 1] /\ k < Frames
      /\ Arrived <= Start[k + 1] + HeaderSize
  BY DEF InOrder
<1>4. Arrived = Read + readableBytes(buf)
  BY DEF Arrived
<1> HIDE DEF k
<1>5. PICK f \in 1..Frames :
          /\ Start[f] <= Arrived /\ Arrived < Start[f + 1]
          /\ end \in (Start[f] + 1)..(Start[f] + HeaderSize) \cup {Start[f + 1]}
  BY DEF Gentle
<1>6. /\ k + 1 \in 1..Frames /\ k + 1 \in 1..(Frames + 1) /\ f \in 1..(Frames + 1)
      /\ f + 1 \in 1..(Frames + 1) /\ k + 2 \in 1..(Frames + 1) /\ k \in Nat /\ f \in Nat
  BY <1>1, <1>3
<1>7. /\ Start[k + 1] \in Nat /\ Start[k + 2] \in Nat
      /\ Start[k + 2] = Start[k + 1] + HeaderSize + size[k + 1]
      /\ size[k + 1] \in Nat /\ size[k + 1] # 0
  <2>1. (k + 1) + 1 = k + 2
    BY <1>6
  <2>2. Start[(k + 1) + 1] = Start[k + 1] + HeaderSize + size[k + 1]
    BY <1>2, <1>6
  <2>3. QED
    BY <1>1, <1>2, <1>6, <2>1, <2>2
<1>8. Start[k + 1] <= Arrived /\ Arrived < Start[k + 2] /\ Arrived \in Nat
  <2>1. size[k + 1] > 0 /\ HeaderSize \in Nat
    BY <1>1, <1>7
  <2>2. Start[k + 1] + HeaderSize < Start[k + 2]
    BY <1>7, <2>1
  <2>3. Arrived = Start[k + 1] + readableBytes(buf)
    BY <1>3, <1>4
  <2>4. Start[k + 1] <= Arrived /\ Arrived \in Nat
    BY SMTT(30), <1>1, <1>7, <2>3
  <2>5. QED
    BY <1>3, <1>7, <2>1, <2>2, <2>4
<1>9. ~(f + 1 <= k + 1)
  <2>1. ASSUME f + 1 <= k + 1 PROVE FALSE
    <3>1. Start[f + 1] \in Nat
      BY <1>2, <1>6
    <3>2. Start[f + 1] <= Start[k + 1]
      <4>1. CASE f + 1 = k + 1
        BY <1>7, <4>1
      <4>2. CASE f + 1 # k + 1
        <5>1. f + 1 < k + 1
          BY <1>6, <2>1, <4>2
        <5>2. Start[f + 1] < Start[k + 1]
          BY <1>2, <1>6, <5>1
        <5>3. QED
          BY <1>7, <3>1, <5>2
      <4>3. QED
        BY <4>1, <4>2
    <3>3. Arrived < Start[f + 1]
      BY <1>5
    <3>4. QED
      BY <1>7, <1>8, <3>1, <3>2, <3>3
  <2>2. QED
    BY <2>1
<1>10. ~(k + 2 <= f)
  <2>1. ASSUME k + 2 <= f PROVE FALSE
    <3>1. Start[f] \in Nat
      BY <1>2, <1>6
    <3>2. Start[k + 2] <= Start[f]
      <4>1. CASE k + 2 = f
        BY <1>7, <4>1
      <4>2. CASE k + 2 # f
        <5>1. k + 2 < f
          BY <1>6, <2>1, <4>2
        <5>2. Start[k + 2] < Start[f]
          BY <1>2, <1>6, <5>1
        <5>3. QED
          BY <1>7, <3>1, <5>2
      <4>3. QED
        BY <4>1, <4>2
    <3>3. Start[f] <= Arrived
      BY <1>5
    <3>4. QED
      BY <1>7, <1>8, <3>1, <3>2, <3>3
  <2>2. QED
    BY <2>1
<1>11. f = k + 1 /\ f + 1 = k + 2
  BY <1>6, <1>9, <1>10
<1>12. end \in (Start[k + 1] + 1)..(Start[k + 1] + HeaderSize) \/ end = Start[k + 2]
  BY <1>5, <1>11
<1>13. end <= Start[k + 1] + HeaderSize \/ end = Start[k + 2]
  BY <1>1, <1>7, <1>12
<1>14. QED
  BY <1>13 DEF k

\* The state of the frames after a step, but for the queue.
FramesFine ==
    /\ InBuffer(buf, readableBytes(buf)) /\ Arrived <= StreamEnd
    /\ handled \in Seq(Nat) /\ NoneSkipped
    /\ \E k \in 0..Frames : InStep(k) \/ OffStep(k)
    /\ gentle => InOrder

LEMMA FrameStays ==
    ASSUME DispatcherAssumption, FrameInv, size' = size,
           NEW b, NEW n, Reads(b, n), Stays(b, readableBytes(buf) + n)
    PROVE  FramesFine'
<1> DEFINE m == readableBytes(buf) + n
<1>1. /\ QueueInv /\ Frames \in Nat /\ HeaderSize \in Nat \ {0}
      /\ readableBytes(buf) \in Nat /\ Read \in Nat /\ n \in Nat \ {0}
      /\ m \in Nat /\ readableBytes(b) = m
  BY SizesAreSizes, HoldsSize DEF FrameInv, Reads
<1>2. /\ buf' = b /\ given' = given /\ handled' = handled
      /\ \A f \in 1..Frames : Read = Start[f] /\ m > HeaderSize =>
                                 size[f] > MaxFrameSize \/ ~(size[f] >= m - HeaderSize)
  BY DEF Stays
<1>3. Start' = Start /\ StreamEnd' = StreamEnd /\ Read' = Read
  BY <1>2, SameStarts DEF StreamEnd, Read
<1>4. readableBytes(buf') = m
  BY <1>1, <1>2
<1>5. Arrived = Read + readableBytes(buf) /\ Arrived' = Read + m /\ Arrived + n = Read + m
  <2>1. Arrived = Read + readableBytes(buf) /\ Arrived' = Read' + readableBytes(buf')
    BY DEF Arrived
  <2>2. QED
    BY <1>1, <1>3, <1>4, <2>1
<1>6. InBuffer(buf, readableBytes(buf))'
  <2>1. IsBuffer(b) /\ Readable(b) = Positions(Read, m)
    BY DEF Reads, InBuffer
  <2> HIDE DEF m
  <2>2. IsBuffer(buf') /\ readableBytes(buf') \in Nat
        /\ Readable(buf') = Positions(Read', readableBytes(buf'))
    BY <1>1, <1>2, <1>3, <1>4, <2>1
  <2>3. QED
    BY <2>2 DEF InBuffer
<1>7. (Arrived <= StreamEnd)'
  BY <1>3, <1>5 DEF Reads
<1>8. handled' \in Seq(Nat) /\ NoneSkipped'
  BY <1>2 DEF FrameInv, NoneSkipped
<1>9. (\E k \in 0..Frames : InStep(k) \/ OffStep(k))'
  BY <1>2, <1>3 DEF FrameInv, InStep, OffStep
<1>10. ASSUME gentle' PROVE InOrder'
  <2>1. gentle /\ Gentle(Arrived + n) /\ Arrived + n <= StreamEnd /\ InOrder
    BY <1>10 DEF Reads, FrameInv
  <2> DEFINE k == Len(handled)
  <2>2. /\ k \in 0..Frames /\ Read = Start[k + 1]
        /\ \A i \in 1..k : handled[i] = i
    BY <2>1 DEF InOrder
  <2>3. ASSUME k < Frames, ~(size[k + 1] > MaxFrameSize)
        PROVE  Arrived + n <= Start[k + 1] + HeaderSize
    <3>1. Arrived + n \in Nat /\ Arrived < Arrived + n
      BY <1>1, <1>5
    <3>2. \/ Arrived + n <= Start[k + 1] + HeaderSize
          \/ Arrived + n = Start[k + 2]
      BY <2>1, <2>3, <3>1, GentleRead
    <3>3. ASSUME Arrived + n = Start[k + 2] PROVE FALSE
      <4>1. k + 1 \in 1..Frames /\ (k + 1) + 1 = k + 2
        BY <1>1, <2>2, <2>3
      <4>2. Start[k + 2] = Start[k + 1] + HeaderSize + size[k + 1]
            /\ size[k + 1] \in Nat /\ size[k + 1] # 0
        BY <1>1, <4>1, StartsProperties, SizesAreSizes
      <4> HIDE DEF m, k
      <4>3. m = HeaderSize + size[k + 1]
        BY <1>1, <1>5, <2>2, <3>3, <4>2
      <4>4. m > HeaderSize /\ size[k + 1] >= m - HeaderSize
        BY <1>1, <4>2, <4>3
      <4>5. QED
        BY <1>2, <2>2, <2>3, <4>1, <4>4
    <3>4. QED
      BY <3>2, <3>3
  <2>4. QED
    BY <1>2, <1>3, <1>5, <2>2, <2>3 DEF InOrder
<1>11. QED
  BY <1>6, <1>7, <1>8, <1>9, <1>10 DEF FramesFine

\* What a message more does to those that were handled.
LEMMA MessageMore ==
    ASSUME FrameInv, NEW f \in 1..Frames, Frames \in Nat, Len(handled) = f - 1,
           \/ handled' = handled \o <<f>>
           \/ handled' = handled \o <<Mixed>>
           \/ handled' = handled \o <<>>
    PROVE  /\ handled' \in Seq(Nat) /\ Len(handled') \in {f - 1, f} /\ NoneSkipped'
           /\ handled' = handled \o <<f>> =>
                 /\ Len(handled') = f /\ handled'[f] = f
                 /\ \A i \in 1..(f - 1) : handled'[i] = handled[i]
<1>1. handled \in Seq(Nat) /\ f \in Nat /\ \A i \in 1..(f - 1) : handled[i] \in {i, Mixed}
  BY DEF FrameInv, NoneSkipped
<1>2. ASSUME NEW x \in {f, Mixed}, handled' = handled \o <<x>>
      PROVE  /\ handled' \in Seq(Nat) /\ Len(handled') = f /\ NoneSkipped'
             /\ handled'[f] = x
             /\ \A i \in 1..(f - 1) : handled'[i] = handled[i]
  <2>1. x \in Nat /\ handled \in Seq(Nat)
    BY <1>1 DEF Mixed
  <2>2. PICK t : t = handled'
    OBVIOUS
  <2>3. t = handled \o <<x>>
    BY <1>2, <2>2
  <2>4. /\ t \in Seq(Nat) /\ Len(t) = Len(handled) + 1
        /\ \A i \in 1..Len(handled) : t[i] = handled[i]
        /\ t[Len(handled) + 1] = x
    BY SMTT(30), <2>1, <2>3, OneMore
  <2>5. /\ Len(t) = f /\ t[f] = x
        /\ \A i \in 1..(f - 1) : t[i] = handled[i]
    <3>1. (f - 1) + 1 = f
      BY <1>1
    <3>2. QED
      BY <2>4, <3>1
  <2>6. \A i \in 1..Len(t) : t[i] \in {i, Mixed}
    <3>1. ASSUME NEW i \in 1..f PROVE i = f \/ i \in 1..(f - 1)
      BY <1>1
    <3>2. QED
      BY <1>1, <2>5, <3>1
  <2>7. QED
    BY <2>2, <2>4, <2>5, <2>6 DEF NoneSkipped
<1>3. ASSUME handled' = handled \o <<>>
      PROVE  handled' = handled /\ NoneSkipped'
  <2>1. handled \o <<>> = handled
    BY <1>1, ConcatEmptySeq
  <2>2. QED
    BY <1>3, <2>1 DEF FrameInv, NoneSkipped
<1>4. CASE handled' = handled \o <<f>>
  BY <1>2, <1>4
<1>5. CASE handled' # handled \o <<f>>
  <2>1. handled' = handled \o <<Mixed>> \/ handled' = handled \o <<>>
    BY <1>5
  <2>2. QED
    BY <1>1, <1>2, <1>3, <1>5, <2>1
<1>6. QED
  BY <1>4, <1>5

LEMMA FrameGoes ==
    ASSUME BufferAssumption, DispatcherAssumption, FrameInv, QueueInv', size' = size,
           NEW b, NEW n, Reads(b, n),
           NEW f \in 1..Frames, Goes(f, b, readableBytes(buf) + n)
    PROVE  FramesFine'
<1> DEFINE m == readableBytes(buf) + n
<1>1. /\ QueueInv /\ Frames \in Nat /\ HeaderSize \in Nat \ {0}
      /\ size[f] \in Nat /\ size[f] # 0
      /\ readableBytes(buf) \in Nat /\ Read \in Nat /\ n \in Nat \ {0}
      /\ m \in Nat
  BY SizesAreSizes, HoldsSize DEF FrameInv, Reads
<1>2. /\ Read = Start[f] /\ m > HeaderSize /\ size[f] >= m - HeaderSize
      /\ ~(size[f] > MaxFrameSize)
  BY DEF Goes
<1>3. Start' = Start /\ StreamEnd' = StreamEnd
  BY SameStarts DEF StreamEnd
<1>4. /\ Len(given') = Read + m /\ Readable(buf') = <<>>
      /\ \/ handled' = handled \o <<f>>
         \/ handled' = handled \o <<Mixed>>
         \/ handled' = handled \o <<>>
      /\ m = HeaderSize + size[f] => handled' = handled \o <<f>>
  <2>1. InBuffer(b, m)
    BY DEF Reads
  <2>2. QED
    BY <1>1, <2>1, ConsumeDoes
<1>5. Len(handled) = f - 1
  BY <1>2, NextFrame
<1>6. /\ handled' \in Seq(Nat) /\ Len(handled') \in {f - 1, f} /\ NoneSkipped'
      /\ m = HeaderSize + size[f] =>
            /\ Len(handled') = f /\ handled'[f] = f
            /\ \A i \in 1..(f - 1) : handled'[i] = handled[i]
  BY <1>1, <1>4, <1>5, MessageMore
<1>7. Read' = Read + m
  BY <1>4 DEF Read
<1>8. IsBuffer(buf') /\ readableBytes(buf') = 0
  <2>1. PICK c : c = buf'
    OBVIOUS
  <2>2. IsBuffer(c) /\ Readable(c) = <<>>
    BY <1>4, <2>1 DEF QueueInv
  <2>3. Len(Readable(c)) = readableBytes(c)
    BY <2>2, ReadableProperties DEF readableBytes
  <2>4. QED
    BY <2>1, <2>2, <2>3
<1> HIDE DEF m
<1>9. Arrived' = Read + m /\ Arrived + n = Read + m
      /\ Arrived + n \in Nat /\ Arrived < Arrived + n
  <2>1. Arrived = Read + readableBytes(buf) /\ Arrived' = Read' + readableBytes(buf')
    BY DEF Arrived
  <2>2. QED
    BY <1>1, <1>7, <1>8, <2>1 DEF m
<1>10. InBuffer(buf, readableBytes(buf))'
  <2>1. PICK r : r = Read'
    OBVIOUS
  <2>2. r \in Nat
    BY <1>1, <1>7, <2>1
  <2>3. Positions(r, 0) = <<>>
    <3>1. Positions(r, 0) \in Seq(Nat) /\ Len(Positions(r, 0)) = 0
      BY <2>2, PositionsType
    <3>2. QED
      BY <3>1, EmptySeq
  <2>4. IsBuffer(buf') /\ readableBytes(buf') \in Nat
        /\ Readable(buf') = Positions(Read', readableBytes(buf'))
    BY <1>4, <1>8, <2>1, <2>3
  <2>5. QED
    BY <2>4 DEF InBuffer
<1>11. (Arrived <= StreamEnd)'
  BY <1>3, <1>9 DEF Reads
<1>12. Start[f + 1] = Start[f] + HeaderSize + size[f] /\ Start[f] \in Nat
  BY <1>1, StartsProperties
<1>13. m = HeaderSize + size[f] \/ m < HeaderSize + size[f]
  BY <1>1, <1>2
<1>14. f \in 0..Frames /\ f - 1 \in 0..Frames /\ f - 1 \in 0..(Frames - 1)
       /\ (f - 1) + 1 = f /\ (f - 1) + 2 = f + 1
  BY <1>1
<1>15. CASE m = HeaderSize + size[f]
  <2>1. Read' = Start[f + 1]
    BY <1>1, <1>2, <1>7, <1>12, <1>15
  <2>2. Len(handled') = f
    BY <1>6, <1>15
  <2>3. InStep(f)'
    BY <1>3, <2>1, <2>2 DEF InStep
  <2>4. QED
    <3>1. (\E k \in 0..Frames : InStep(k) \/ OffStep(k))'
      BY <1>14, <2>3
    <3>2. ASSUME gentle' PROVE InOrder'
      <4>1. gentle /\ InOrder
        BY <3>2 DEF Reads, FrameInv
      <4>2. \A i \in 1..(f - 1) : handled[i] = i
        BY <1>5, <4>1 DEF InOrder
      <4>3. \A i \in 1..f : handled'[i] = i
        <5>1. ASSUME NEW i \in 1..f PROVE i = f \/ i \in 1..(f - 1)
          BY <1>1
        <5>2. QED
          BY <1>6, <1>15, <4>2, <5>1
      <4>4. Arrived' <= Start[f + 1] + HeaderSize
        BY <1>1, <1>7, <1>9, <1>12, <2>1
      <4>5. QED
        BY <1>3, <1>14, <2>1, <2>2, <4>3, <4>4 DEF InOrder
    <3>3. QED
      BY <1>6, <1>10, <1>11, <3>1, <3>2 DEF FramesFine
<1>16. CASE m < HeaderSize + size[f]
  <2>1. Start[f] + HeaderSize < Read' /\ Read' < Start[f + 1]
    BY <1>1, <1>2, <1>7, <1>12, <1>16
  <2>2. OffStep(f - 1)'
    BY <1>3, <1>6, <1>14, <2>1 DEF OffStep
  <2>3. (\E k \in 0..Frames : InStep(k) \/ OffStep(k))'
    BY <1>14, <2>2
  <2>4. ASSUME gentle' PROVE FALSE
    <3>1. gentle /\ Gentle(Arrived + n) /\ Arrived + n <= StreamEnd /\ InOrder
      BY <2>4 DEF Reads, FrameInv
    <3>2. ~(Len(handled) < Frames => size[Len(handled) + 1] > MaxFrameSize)
      BY <1>1, <1>2, <1>5, <1>14
    <3>3. \/ Arrived + n <= Start[Len(handled) + 1] + HeaderSize
          \/ Arrived + n = Start[Len(handled) + 2]
      BY <1>9, <3>1, <3>2, GentleRead
    <3>4. Arrived + n <= Start[f] + HeaderSize \/ Arrived + n = Start[f + 1]
      BY <1>5, <1>14, <3>3
    <3>5. QED
      BY <1>1, <1>2, <1>9, <1>12, <1>16, <3>4
  <2>5. QED
    BY <1>6, <1>10, <1>11, <2>3, <2>4 DEF FramesFine
<1>17. QED
  BY <1>13, <1>15, <1>16

LEMMA FrameStep ==
    BufferAssumption /\ DispatcherAssumption /\ FrameInv /\ [DispatchNext]_dispatchVars
        => FrameInv'
<1> SUFFICES ASSUME BufferAssumption, DispatcherAssumption, FrameInv,
                    [DispatchNext]_dispatchVars
             PROVE  FrameInv'
  OBVIOUS
<1>1. CASE handleRead
  <2>1. QueueInv'
    BY <1>1, HandleReadStep DEF FrameInv
  <2>2. size' = size /\ \E b, n : Reads(b, n)
    BY <1>1, SomeRead
  <2>3. PICK b, n : Reads(b, n)
    BY <2>2
  <2>4. \/ Stays(b, readableBytes(buf) + n)
        \/ \E f \in 1..Frames : Goes(f, b, readableBytes(buf) + n)
    BY <2>3, DispatchDoes DEF FrameInv, Reads
  <2>5. FramesFine'
    BY <2>1, <2>2, <2>3, <2>4, FrameStays, FrameGoes
  <2>6. QED
    BY <2>1, <2>5 DEF FramesFine, FrameInv
<1>2. CASE UNCHANGED dispatchVars
  <2>1. /\ size' = size /\ buf' = buf /\ given' = given /\ handled' = handled
        /\ gentle' = gentle
    BY <1>2 DEF dispatchVars
  <2>2. Start' = Start /\ StreamEnd' = StreamEnd /\ Read' = Read
    BY <2>1, SameStarts DEF StreamEnd, Read
  <2>3. Arrived' = Arrived
    BY <2>1, <2>2 DEF Arrived
  <2>4. QueueInv' /\ InBuffer(buf, readableBytes(buf))' /\ NoneSkipped'
    BY <2>1, <2>2 DEF FrameInv, QueueInv, InBuffer, NoneSkipped
  <2>5. (\E k \in 0..Frames : InStep(k) \/ OffStep(k))' /\ (gentle => InOrder)'
    BY <2>1, <2>2, <2>3 DEF FrameInv, InStep, OffStep, InOrder
  <2>6. QED
    BY <2>1, <2>2, <2>3, <2>4, <2>5 DEF FrameInv
<1>3. QED
  BY <1>1, <1>2 DEF DispatchNext

\* What the invariant says of the frames that have arrived.
LEMMA FrameArrived ==
    ASSUME DispatcherAssumption, FrameInv
    PROVE  NoneSkipped /\ ArrivedIsHandled
<1>1. /\ QueueInv /\ Frames \in Nat /\ HeaderSize \in Nat \ {0}
      /\ \A f \in 1..Frames : size[f] \in Nat /\ size[f] # 0
      /\ readableBytes(buf) \in Nat /\ Read \in Nat
      /\ handled \in Seq(Nat) /\ NoneSkipped
  BY SizesAreSizes, HoldsSize DEF FrameInv
<1>2. /\ \A g \in 1..(Frames + 1) : Start[g] \in Nat
      /\ \A f \in 1..Frames : Start[f + 1] = Start[f] + HeaderSize + size[f]
      /\ \A g, h \in 1..(Frames + 1) : g < h => Start[g] < Start[h]
  BY <1>1, StartsProperties
<1>3. ASSUME gentle
      PROVE  /\ handled = [f \in 1..Len(handled) |-> f]
             /\ \A f \in 1..Frames :
                   (\A g \in 1..f : size[g] <= MaxFrameSize) =>
                       (Arrived >= Start[f + 1] <=> Len(handled) >= f)
  <2> DEFINE k == Len(handled)
  <2>1. /\ k \in 0..Frames /\ Read = Start[k + 1]
        /\ \A n \in 1..k : handled[n] = n
        /\ k < Frames => size[k + 1] > MaxFrameSize \/ Arrived <= Start[k + 1] + HeaderSize
    BY <1>3 DEF FrameInv, InOrder
  <2>2. handled = [f \in 1..k |-> f]
    <3> DEFINE all == [f \in 1..k |-> f]
    <3>1. all \in Seq(Nat) /\ Len(all) = k /\ \A f \in 1..k : all[f] = f
      BY <2>1
    <3> HIDE DEF all
    <3>2. handled = all
      BY <1>1, <2>1, <3>1, SeqEqual
    <3>3. QED
      BY <3>2 DEF all
  <2>3. Arrived = Read + readableBytes(buf)
    BY DEF Arrived
  <2> HIDE DEF k
  <2>4. k + 1 \in 1..(Frames + 1) /\ Start[k + 1] \in Nat /\ Arrived \in Nat
        /\ Start[k + 1] <= Arrived /\ k \in Nat
    <3>1. k + 1 \in 1..(Frames + 1) /\ k \in Nat
      BY <1>1, <2>1
    <3>2. Start[k + 1] \in Nat
      BY <1>2, <3>1
    <3>3. QED
      BY <1>1, <2>1, <2>3, <3>1, <3>2
  <2>5. ASSUME NEW f \in 1..Frames, \A g \in 1..f : size[g] <= MaxFrameSize
        PROVE  Arrived >= Start[f + 1] <=> k >= f
    <3>1. f \in Nat /\ f + 1 \in 1..(Frames + 1) /\ Start[f + 1] \in Nat
      <4>1. f \in Nat /\ f + 1 \in 1..(Frames + 1)
        BY <1>1
      <4>2. QED
        BY <1>2, <4>1
    <3>2. CASE k >= f
      <4>1. Start[f + 1] <= Start[k + 1]
        <5>1. CASE f = k
          BY <2>4, <5>1
        <5>2. CASE f # k
          <6>1. f + 1 < k + 1
            BY <2>4, <3>1, <3>2, <5>2
          <6>2. Start[f + 1] < Start[k + 1]
            BY <1>2, <2>4, <3>1, <6>1
          <6>3. QED
            BY <2>4, <3>1, <6>2
        <5>3. QED
          BY <5>1, <5>2
      <4>2. QED
        BY <2>4, <3>1, <3>2, <4>1
    <3>3. CASE ~(k >= f)
      <4>1. k < Frames /\ k + 1 \in 1..f /\ k + 1 \in 1..Frames
        BY <1>1, <2>4, <3>1, <3>3
      <4>2. size[k + 1] <= MaxFrameSize /\ size[k + 1] \in Nat /\ size[k + 1] # 0
            /\ MaxFrameSize \in Nat
        BY <1>1, <2>5, <4>1 DEF DispatcherAssumption
      <4>3. Arrived <= Start[k + 1] + HeaderSize
        BY <2>1, <4>1, <4>2
      <4>4. /\ Start[(k + 1) + 1] = Start[k + 1] + HeaderSize + size[k + 1]
            /\ Start[(k + 1) + 1] \in Nat /\ (k + 1) + 1 \in 1..(Frames + 1)
        <5>1. (k + 1) + 1 \in 1..(Frames + 1)
          BY <1>1, <4>1
        <5>2. QED
          BY <1>2, <4>1, <5>1
      <4>5. Arrived < Start[(k + 1) + 1]
        BY SMTT(30), <1>1, <2>4, <4>2, <4>3, <4>4
      <4>6. Start[(k + 1) + 1] <= Start[f + 1]
        <5>1. CASE k + 1 = f
          BY <4>4, <5>1
        <5>2. CASE k + 1 # f
          <6>1. (k + 1) + 1 < f + 1
            BY <2>4, <3>1, <3>3, <5>2
          <6>2. Start[(k + 1) + 1] < Start[f + 1]
            BY <1>2, <3>1, <4>4, <6>1
          <6>3. QED
            BY <3>1, <4>4, <6>2
        <5>3. QED
          BY <5>1, <5>2
      <4>7. ~(Arrived >= Start[f + 1])
        BY <2>4, <3>1, <4>4, <4>5, <4>6
      <4>8. QED
        BY <3>3, <4>7
    <3>4. QED
      BY <3>2, <3>3
  <2>6. QED
    BY <2>2, <2>5 DEF k
<1>4. QED
  BY <1>1, <1>3 DEF ArrivedIsHandled

\* Wherever reads end, no frame is skipped and none is handled twice.
THEOREM NoFrameSkipped == DispatchSpec => []NoneSkipped
<1>1. BufferAssumption /\ DispatcherAssumption
  BY BufferAssumption, DispatcherAssumption
<1>2. FrameInv /\ [DispatchNext]_dispatchVars => FrameInv'
  BY <1>1, FrameStep
<1>3. FrameInv => NoneSkipped
  BY <1>1, FrameArrived
<1>4. QED
  BY <1>2, <1>3, FrameInit, PTL DEF DispatchSpec

\* As long as reads end gently, the frames that have arrived, up to the first
\* that is too large, are those that were handled.
THEOREM FramesHandled == DispatchSpec => []ArrivedIsHandled
<1>1. BufferAssumption /\ DispatcherAssumption
  BY BufferAssumption, DispatcherAssumption
<1>2. FrameInv /\ [DispatchNext]_dispatchVars => FrameInv'
  BY <1>1, FrameStep
<1>3. FrameInv => ArrivedIsHandled
  BY <1>1, FrameArrived
<1>4. QED
  BY <1>2, <1>3, FrameInit, PTL DEF DispatchSpec

\* What is handled are frames, or mixtures of two; every variable keeps its type.
THEOREM DispatchTypeCorrect == DispatchSpec => []DispatchTypeOK
<1>1. DispatchInit => DispatchTypeOK
  BY QueueInvInit, EmptySeq DEF DispatchInit, DispatchTypeOK, QueueInv
<1>2. ASSUME DispatchTypeOK, handleRead PROVE DispatchTypeOK'
  <2>1. QueueInv /\ QueueInv'
    <3>1. QueueInv
      BY <1>2 DEF DispatchTypeOK, QueueInv
    <3>2. QED
      BY <1>2, <3>1, HandleReadStep
  <2>2. PICK b : dispatch(b)
    BY <1>2 DEF handleRead
  <2>3. gentle' \in BOOLEAN
    BY <1>2 DEF handleRead, DispatchTypeOK
  <2>4. handled' \in Seq(0..Frames) /\ down' \in BOOLEAN
    <3>1. handled \in Seq(0..Frames) /\ down \in BOOLEAN
      BY <1>2 DEF DispatchTypeOK
    <3>2. ASSUME NEW f \in 1..Frames, Consume(f, b)
          PROVE  handled' \in Seq(0..Frames) /\ down' = down
      <4>1. PICK m \in Parsed(AsString(retrieve(b, HeaderSize), size[f]), f) :
               handled' = handled \o m
        BY <3>2 DEF Consume
      <4>2. m \in {<<f>>, <<Mixed>>, <<>>}
        BY <4>1 DEF Parsed
      <4>3. m \in Seq(0..Frames)
        <5>1. f \in 0..Frames /\ Mixed \in 0..Frames
          BY DispatcherAssumption DEF Mixed
        <5>2. \A x \in 0..Frames : <<x>> \in Seq(0..Frames)
          OBVIOUS
        <5>3. <<>> \in Seq(0..Frames)
          BY EmptySeq
        <5>4. QED
          BY <4>2, <5>1, <5>2, <5>3
      <4>4. QED
        BY <3>1, <3>2, <4>1, <4>3 DEF Consume
    <3>3. CASE handled' = handled /\ down' \in BOOLEAN
      BY <3>1, <3>3
    <3>4. QED
      BY <2>2, <3>1, <3>2, <3>3 DEF dispatch, Leave, Refuse, Misread
  <2>5. QED
    BY <2>1, <2>3, <2>4 DEF DispatchTypeOK, QueueInv
<1>3. DispatchTypeOK /\ [DispatchNext]_dispatchVars => DispatchTypeOK'
  <2>1. DispatchTypeOK /\ UNCHANGED dispatchVars => DispatchTypeOK'
    BY DEF DispatchTypeOK, dispatchVars
  <2>2. QED
    BY <1>2, <2>1 DEF DispatchNext
<1>4. QED
  BY <1>1, <1>3, PTL DEF DispatchSpec

-----------------------------------------------------------------------------
(* TcpConnection.                                                          *)

(* Writing.                                                                *)

LEMMA UnitsType ==
    ASSUME TcpAssumption, NEW m \in Nat \ {0}
    PROVE  Units(m) \in Seq(Nat) /\ Len(Units(m)) = MessageSize
<1>1. MessageSize \in Nat /\ m - 1 \in Nat
  BY DEF TcpAssumption
<1>2. MessageSize * (m - 1) \in Nat
  BY <1>1
<1>3. Units(m) \in [1..MessageSize -> Nat]
  BY <1>1, <1>2 DEF Units
<1>4. QED
  BY <1>1, <1>3, VectorIsSeq

LEMMA DropType ==
    ASSUME NEW s \in Seq(Nat), NEW n \in Nat, n <= Len(s)
    PROVE  /\ SubSeq(s, 1, n) \in Seq(Nat) /\ Drop(s, n) \in Seq(Nat)
           /\ (n = Len(s) => SubSeq(s, 1, n) = s)
           /\ (n = Len(s) => Drop(s, n) = <<>>)
<1>1. Len(s) \in Nat /\ \A i \in 1..Len(s) : s[i] \in Nat
  BY LenProperties, ElementOfSeq
<1>2. SubSeq(s, 1, n) \in Seq(Nat)
  BY <1>1, SubSeqProperties
<1>3. SubSeq(s, n + 1, Len(s)) \in Seq(Nat)
  BY <1>1, SubSeqProperties
<1>4. n = Len(s) => SubSeq(s, 1, n) = s
  BY SubSeqFull
<1>5. n = Len(s) => SubSeq(s, n + 1, Len(s)) = <<>>
  BY <1>1, SubSeqEmpty
<1>6. QED
  BY <1>2, <1>3, <1>4, <1>5 DEF Drop

\* The variables of the socket and of the output, and how they fit together.
OutputType ==
    /\ IsBuffer(outbuf) /\ wire \in Seq(Nat) /\ accepted \in Seq(Nat)
    /\ events \subseteq {"read", "write"}
    /\ peer \in {"open", "closed", "aborted", "broken"}
    /\ shut \in BOOLEAN /\ killed \in BOOLEAN

Watched == "write" \in events <=> Output # <<>>

LEMMA FailKeeps ==
    ASSUME OutputType, WriteFails \/ WriteKills, UNCHANGED <<outbuf, accepted, events>>
    PROVE  /\ OutputType'
           /\ OutputInOrder => OutputInOrder'
           /\ Watched => Watched'
           /\ shut' = shut
BY DEF OutputType, WriteFails, WriteKills, OutputInOrder, Watched, Output

\* sendInLoop, with whatever the socket takes of the message.
LEMMA SendKeeps ==
    ASSUME BufferAssumption, TcpAssumption, OutputType, OutputInOrder,
           NEW m \in Nat \ {0}, sendInLoop(m)
    PROVE  /\ OutputType' /\ OutputInOrder'
           /\ state # "disconnected" /\ Watched => Watched'
           /\ state = "disconnected" => UNCHANGED <<outbuf, events>>
           /\ shut' = shut
<1> DEFINE u == Units(m)
<1>1. u \in Seq(Nat) /\ Len(u) = MessageSize /\ MessageSize \in Nat \ {0}
  BY UnitsType DEF TcpAssumption
<1> HIDE DEF u
<1>2. Output \in Seq(Nat)
  BY ReadableProperties DEF Output, OutputType
<1>3. CASE state = "disconnected" /\ UNCHANGED <<socketVars, events>>
  BY <1>3 DEF socketVars, OutputType, OutputInOrder, Output, Watched
<1>4. ASSUME state # "disconnected", DirectWrite,
             NEW n \in 0..MessageSize, WriteTakes(u, n),
             outbuf' = IF n < MessageSize THEN append(outbuf, Drop(u, n)) ELSE outbuf,
             IF n < MessageSize THEN Watch ELSE UNCHANGED events,
             accepted' = accepted \o u
      PROVE  OutputType' /\ OutputInOrder' /\ Watched' /\ shut' = shut
  <2>1. /\ n \in Nat /\ n <= Len(u)
        /\ SubSeq(u, 1, n) \in Seq(Nat) /\ Drop(u, n) \in Seq(Nat)
        /\ (n = Len(u) => SubSeq(u, 1, n) = u)
    <3>1. n \in Nat /\ n <= Len(u)
      BY <1>1
    <3>2. QED
      BY <1>1, <3>1, DropType
  <2>2. Output = <<>> /\ "write" \notin events /\ accepted = wire
    <3>1. wire \o <<>> = wire
      BY ConcatEmptySeq DEF OutputType
    <3>2. QED
      BY <1>4, <3>1 DEF DirectWrite, OutputInOrder
  <2>3. /\ wire' = wire \o SubSeq(u, 1, n) /\ shut' = shut /\ killed' = killed
        /\ peer' \in {"open", "closed", "aborted", "broken"}
    BY <1>4 DEF WriteTakes, OutputType
  <2>4. wire' \in Seq(Nat) /\ accepted' \in Seq(Nat)
    BY <1>1, <1>4, <2>1, <2>3, ConcatProperties DEF OutputType
  <2>5. CASE n < MessageSize
    <3> DEFINE d == Drop(u, n)
    <3>1. d \in Seq(Nat)
      BY <2>1
    <3>2. d # <<>>
      <4>1. Len(SubSeq(u, n + 1, Len(u))) = IF n + 1 <= Len(u) THEN Len(u) - (n + 1) + 1
                                                             ELSE 0
        <5>1. \A i \in (n + 1)..Len(u) : u[i] \in Nat
          BY <1>1, <2>1, ElementOfSeq
        <5>2. n + 1 \in Int /\ Len(u) \in Int
          BY <1>1, <2>1
        <5>3. QED
          BY <5>1, <5>2, SubSeqProperties
      <4>2. Len(d) > 0
        BY <1>1, <2>1, <2>5, <4>1 DEF Drop
      <4>3. QED
        BY <4>2, EmptySeq
    <3> HIDE DEF d
    <3>3. IsBuffer(outbuf') /\ Readable(outbuf') = Readable(outbuf) \o d
      <4>1. outbuf' = append(outbuf, d) /\ IsBuffer(outbuf)
        BY <1>4, <2>5 DEF OutputType, d
      <4>2. QED
        BY <3>1, <4>1, AppendProperty
    <3>4. Output' = d
      <4>1. <<>> \o d = d
        BY <3>1, ConcatEmptySeq
      <4>2. QED
        BY <2>2, <3>3, <4>1 DEF Output
    <3>5. (wire \o SubSeq(u, 1, n)) \o d = wire \o u
      <4>1. (wire \o SubSeq(u, 1, n)) \o SubSeq(u, n + 1, Len(u)) = wire \o u
        BY <1>1, <2>1, InTwoParts DEF OutputType
      <4>2. QED
        BY <4>1 DEF Drop, d
    <3>6. OutputInOrder'
      BY <1>4, <2>2, <2>3, <3>4, <3>5 DEF OutputInOrder
    <3>7. events' = events \cup {"write"}
      BY <1>4, <2>5 DEF Watch
    <3>8. QED
      BY <2>3, <2>4, <3>2, <3>3, <3>4, <3>6, <3>7 DEF OutputType, Watched
  <2>6. CASE ~(n < MessageSize)
    <3>1. n = Len(u)
      BY <1>1, <2>6
    <3>2. outbuf' = outbuf /\ events' = events
      BY <1>4, <2>6
    <3>3. Output' = <<>>
      BY <2>2, <3>2 DEF Output
    <3>4. wire' = accepted'
      BY <1>4, <2>1, <2>2, <2>3, <3>1
    <3>5. wire' \o <<>> = wire'
      BY <2>4, ConcatEmptySeq
    <3>6. OutputInOrder'
      BY <3>3, <3>4, <3>5 DEF OutputInOrder
    <3>7. QED
      BY <2>2, <2>3, <2>4, <3>2, <3>3, <3>6 DEF OutputType, Watched
  <2>7. QED
    BY <2>5, <2>6
<1>5. CASE /\ state # "disconnected" /\ (WriteFails \/ WriteKills)
           /\ UNCHANGED <<outbuf, accepted, events>>
  BY <1>5, FailKeeps
<1>6. CASE /\ state # "disconnected"
           /\ outbuf' = append(outbuf, u) /\ accepted' = accepted \o u
           /\ Watch /\ UNCHANGED <<wire, peer, shut, killed>>
  <2>1. IsBuffer(outbuf') /\ Output' = Output \o u
    BY <1>1, <1>6, AppendProperty DEF OutputType, Output
  <2>2. accepted' \in Seq(Nat) /\ events' = events \cup {"write"}
    BY <1>1, <1>6, ConcatProperties DEF OutputType, Watch
  <2>3. (wire \o Output) \o u = wire \o (Output \o u)
    <3>1. \A r, s, t \in Seq(Nat) : (r \o s) \o t = r \o (s \o t)
      BY ConcatAssociative, SMTT(30)
    <3>2. wire \in Seq(Nat) /\ Output \in Seq(Nat) /\ u \in Seq(Nat)
      BY <1>1, <1>2 DEF OutputType
    <3>3. QED
      BY <3>1, <3>2, Zenon
  <2>4. OutputInOrder'
    BY <1>6, <2>1, <2>3 DEF OutputInOrder
  <2>5. Output' # <<>>
    <3>1. u # <<>>
      BY <1>1, EmptySeq
    <3>2. QED
      BY <1>1, <1>2, <2>1, <3>1, ConcatEqualIffEmpty
  <2>6. QED
    BY <1>6, <2>1, <2>2, <2>4, <2>5 DEF OutputType, Watched
<1>7. QED
  BY <1>3, <1>4, <1>5, <1>6 DEF sendInLoop, u

\* handleWrite, with whatever the socket takes of the output.
LEMMA WriteKeeps ==
    ASSUME BufferAssumption, OutputType, OutputInOrder, Watched, handleWrite
    PROVE  /\ OutputType' /\ OutputInOrder' /\ Watched'
           /\ shut' /\ ~shut => wire' = accepted'
<1>1. /\ Output \in Seq(Nat) /\ Len(Output) \in Nat /\ "write" \in events
      /\ accepted' = accepted
  BY ReadableProperties, LenProperties DEF Output, OutputType, handleWrite
<1>2. ASSUME NEW n \in 1..Len(Output),
             wire' = wire \o SubSeq(Output, 1, n),
             peer' = IF peer = "closed" THEN "broken" ELSE peer,
             outbuf' = retrieve(outbuf, n),
             events' = IF n = Len(Output) THEN events \ {"write"} ELSE events,
             IF n = Len(Output) /\ state = "disconnecting"
                THEN shutdownInLoop ELSE UNCHANGED shut,
             killed' = killed
      PROVE  /\ OutputType' /\ OutputInOrder' /\ Watched'
             /\ shut' /\ ~shut => wire' = accepted'
  <2>1. n \in Nat /\ n <= Len(Output)
    BY <1>1
  <2>2. /\ SubSeq(Output, 1, n) \in Seq(Nat)
        /\ Drop(Output, n) \in Seq(Nat)
        /\ (n = Len(Output) => SubSeq(Output, 1, n) = Output)
        /\ (n = Len(Output) => Drop(Output, n) = <<>>)
    BY <1>1, <2>1, DropType
  <2>3. IsBuffer(outbuf') /\ Output' = Drop(Output, n)
    BY <1>2, <2>1, RetrieveProperty DEF OutputType, Output, Drop
  <2>4. wire' \in Seq(Nat)
    BY <1>2, <2>2, ConcatProperties DEF OutputType
  <2>5. OutputType'
    BY <1>1, <1>2, <2>3, <2>4 DEF OutputType, shutdownInLoop
  <2>6. OutputInOrder'
    <3>1. (wire \o SubSeq(Output, 1, n)) \o SubSeq(Output, n + 1, Len(Output))
             = wire \o Output
      BY <1>1, <2>1, InTwoParts DEF OutputType
    <3>2. QED
      BY <1>1, <1>2, <2>3, <3>1 DEF OutputInOrder, Drop
  <2>7. CASE n = Len(Output)
    <3>1. wire' = accepted'
      BY <1>1, <1>2, <2>2, <2>7 DEF OutputInOrder
    <3>2. Watched'
      BY <1>2, <2>2, <2>3, <2>7 DEF Watched
    <3>3. QED
      BY <2>5, <2>6, <3>1, <3>2
  <2>8. CASE n # Len(Output)
    <3>1. Output' # <<>>
      <4>1. Len(SubSeq(Output, n + 1, Len(Output))) =
               IF n + 1 <= Len(Output) THEN Len(Output) - (n + 1) + 1 ELSE 0
        <5>1. \A i \in (n + 1)..Len(Output) : Output[i] \in Nat
          BY <1>1, <2>1, ElementOfSeq
        <5>2. n + 1 \in Int /\ Len(Output) \in Int
          BY <1>1, <2>1
        <5>3. QED
          BY <5>1, <5>2, SubSeqProperties
      <4>2. Len(Drop(Output, n)) > 0
        BY <1>1, <2>1, <2>8, <4>1 DEF Drop
      <4>3. QED
        BY <2>3, <4>2, EmptySeq
    <3>2. events' = events /\ shut' = shut
      BY <1>2, <2>8
    <3>3. QED
      BY <1>1, <2>5, <2>6, <3>1, <3>2 DEF Watched
  <2>9. QED
    BY <2>7, <2>8
<1>3. CASE (WriteFails \/ WriteKills) /\ UNCHANGED <<outbuf, events>>
  BY <1>1, <1>3, FailKeeps
<1>4. QED
  BY <1>2, <1>3 DEF handleWrite

-----------------------------------------------------------------------------
(* The type invariant.                                                     *)

LEMMA TcpTypeInit == TcpInit => TcpTypeOK /\ Output = <<>>
<1> SUFFICES ASSUME TcpInit PROVE TcpTypeOK /\ Output = <<>>
  OBVIOUS
<1>1. IsBuffer(outbuf) /\ Output = <<>>
  BY BufferAssumption, EmptyBufferProperties DEF TcpInit, Output
<1>2. <<"established", 0>> \in Functor
  BY DEF Functor
<1>3. ioQueue \in Seq(Functor) /\ mainQueue \in Seq(Functor) /\ batch \in Seq(Functor)
  BY <1>2 DEF TcpInit
<1>4. next \in 1..(Len(batch) + 1)
  BY DEF TcpInit
<1>5. sender \in [Sender -> {"idle", "found", "checked"}]
  BY DEF TcpInit
<1>6. sent \in 0..MaxMessages
  BY TcpAssumption DEF TcpInit
<1>7. wire \in Seq(Nat) /\ accepted \in Seq(Nat)
  BY DEF TcpInit
<1>8. /\ state \in {"connecting", "connected", "disconnecting", "disconnected"}
      /\ events \subseteq {"read", "write"} /\ inMap \in BOOLEAN /\ held \in BOOLEAN
      /\ calls \in {Called(0, 0), Called(1, 0), Called(1, 1)}
      /\ peer \in {"open", "closed", "aborted", "broken"}
      /\ shut \in BOOLEAN /\ killed \in BOOLEAN /\ dangling \in BOOLEAN
  BY DEF TcpInit
<1>9. QED
  BY <1>1, <1>3, <1>4, <1>5, <1>6, <1>7, <1>8 DEF TcpTypeOK

\* The functor that runs next.
LEMMA RunsType ==
    ASSUME TcpTypeOK, NEW kind, Runs(kind)
    PROVE  /\ batch[next] \in Functor /\ next \in 1..Len(batch)
           /\ next' \in 1..(Len(batch') + 1)
           /\ UNCHANGED <<mainQueue, ioQueue, batch, sender, sent>>
<1>1. Len(batch) \in Nat
  BY LenProperties DEF TcpTypeOK
<1>2. next \in 1..Len(batch) /\ batch \in Seq(Functor)
  BY <1>1 DEF Runs, TcpTypeOK
<1>3. batch[next] \in Functor
  BY <1>2, ElementOfSeq
<1>4. QED
  BY <1>1, <1>2, <1>3 DEF Runs

\* Whether a functor of this kind is still to run.
Waits(kind) ==
    \/ \E i \in 1..Len(ioQueue) : ioQueue[i][1] = kind
    \/ \E i \in next..Len(batch) : batch[i][1] = kind

Est == <<"established", 0>>

\* Until connectEstablished has run, it is all there is.
Opening ==
    state = "connecting" =>
        /\ calls = Called(0, 0) /\ events = {} /\ Output = <<>> /\ ~held /\ mainQueue = <<>>
        /\ \A s \in Sender : sender[s] = "idle"
        /\ \/ batch = <<>> /\ ioQueue = <<Est>>
           \/ batch = <<Est>> /\ next = 1 /\ ioQueue = <<>>

\* It does not run again; the connection callback has been called, and is
\* called once more at the end.
Opened ==
    state # "connecting" =>
        /\ ~Waits("established")
        /\ calls = IF state = "disconnected" THEN Called(1, 1) ELSE Called(1, 0)

\* Nothing is removed or destroyed before the connection is down, and then the
\* channel is silent.
Closing ==
    IF state = "disconnected" THEN events = {}
    ELSE mainQueue = <<>> /\ ~Waits("destroyed")

LifeOK == Opening /\ Opened /\ Closing /\ OutputIsWatched
TcpInv == TcpTypeOK /\ OutputInOrder /\ LifeOK

LEMMA TcpInvInit == TcpInit => TcpInv
<1> SUFFICES ASSUME TcpInit PROVE TcpInv
  OBVIOUS
<1>1. TcpTypeOK /\ Output = <<>>
  BY TcpTypeInit
<1>2. OutputInOrder
  BY <1>1 DEF TcpInit, OutputInOrder
<1>3. Opening /\ Opened
  BY <1>1 DEF TcpInit, Opening, Opened, Est
<1>4. ~Waits("destroyed")
  BY DEF TcpInit, Waits
<1>5. Closing /\ OutputIsWatched
  BY <1>1, <1>4 DEF TcpInit, Closing, OutputIsWatched
<1>6. QED
  BY <1>1, <1>2, <1>3, <1>5 DEF TcpInv, LifeOK

-----------------------------------------------------------------------------
(* The steps.                                                              *)

\* The steps that leave the socket and the output alone.
LEMMA SocketSame ==
    ASSUME TcpInv, UNCHANGED socketVars
    PROVE  /\ OutputInOrder' /\ Output' = Output
           /\ IsBuffer(outbuf') /\ wire' \in Seq(Nat) /\ accepted' \in Seq(Nat)
           /\ peer' \in {"open", "closed", "aborted", "broken"}
           /\ shut' \in BOOLEAN /\ killed' \in BOOLEAN
           /\ shut' = shut
BY DEF TcpInv, TcpTypeOK, socketVars, OutputInOrder, Output

\* The steps that move output and change nothing of the connection's life.
LEMMA OutputStep ==
    ASSUME TcpInv, OutputType', OutputInOrder',
           UNCHANGED <<state, inMap, held, calls, sender>>, UNCHANGED queueVars,
           sent' \in 0..MaxMessages, dangling' \in BOOLEAN,
           state # "connecting",
           state = "disconnected" => UNCHANGED <<outbuf, events>>,
           state # "disconnected" => Watched'
    PROVE  TcpInv'
<1>1. TcpTypeOK'
  BY DEF TcpInv, TcpTypeOK, OutputType, queueVars
<1>2. Waits("established")' = Waits("established")
      /\ Waits("destroyed")' = Waits("destroyed")
  BY DEF Waits, queueVars
<1>3. Opening' /\ Opened' /\ Closing'
  BY <1>2 DEF TcpInv, LifeOK, Opening, Opened, Closing, queueVars
<1>4. OutputIsWatched'
  BY DEF OutputIsWatched, Watched, TcpInv, LifeOK
<1>5. QED
  BY <1>1, <1>3, <1>4 DEF TcpInv, LifeOK

LEMMA SendHereStep == TcpInv /\ SendHere => TcpInv' /\ shut' = shut
<1> SUFFICES ASSUME TcpInv, SendHere
             PROVE  TcpInv' /\ shut' = shut
  OBVIOUS
<1>1. sent + 1 \in Nat \ {0} /\ sent' \in 0..MaxMessages
  BY TcpAssumption DEF SendHere, TcpInv, TcpTypeOK
<1>2. OutputType /\ OutputInOrder /\ Watched /\ state = "connected"
  BY DEF TcpInv, TcpTypeOK, OutputType, SendHere, LifeOK, OutputIsWatched, Watched
<1>3. sendInLoop(sent + 1)
  BY DEF SendHere
<1>4. OutputType' /\ OutputInOrder' /\ Watched' /\ shut' = shut
  BY <1>1, <1>2, <1>3, SendKeeps, BufferAssumption, TcpAssumption
<1>5. QED
  BY <1>1, <1>2, <1>4, OutputStep DEF SendHere, TcpInv, TcpTypeOK

LEMMA handleWriteStep ==
    TcpInv /\ handleWrite => TcpInv' /\ (shut' /\ ~shut => wire' = accepted')
<1> SUFFICES ASSUME TcpInv, handleWrite
             PROVE  TcpInv' /\ (shut' /\ ~shut => wire' = accepted')
  OBVIOUS
<1>1. state # "disconnected" /\ state # "connecting"
  BY DEF handleWrite, TcpInv, LifeOK, Opening, Closing
<1>2. OutputType /\ OutputInOrder /\ Watched
  BY <1>1 DEF TcpInv, TcpTypeOK, OutputType, LifeOK, OutputIsWatched, Watched
<1>3. /\ OutputType' /\ OutputInOrder' /\ Watched'
      /\ shut' /\ ~shut => wire' = accepted'
  BY <1>2, WriteKeeps, BufferAssumption
<1>4. QED
  BY <1>1, <1>3, OutputStep DEF handleWrite, TcpInv, TcpTypeOK

LEMMA shutdownStep ==
    TcpInv /\ shutdown => TcpInv' /\ (shut' /\ ~shut => wire' = accepted')
<1> SUFFICES ASSUME TcpInv, shutdown
             PROVE  TcpInv' /\ (shut' /\ ~shut => wire' = accepted')
  OBVIOUS
<1>1. /\ state = "connected" /\ state' = "disconnecting"
      /\ UNCHANGED <<events, inMap, held, calls, queueVars, sender, sent, dangling,
                     outbuf, wire, accepted, peer, killed>>
      /\ shut' = (shut \/ "write" \notin events')
  BY DEF shutdown, shutdownInLoop
<1>2. TcpTypeOK' /\ OutputInOrder'
  BY <1>1 DEF TcpInv, TcpTypeOK, OutputInOrder, Output, queueVars
<1>3. Waits("established")' = Waits("established")
      /\ Waits("destroyed")' = Waits("destroyed")
  BY <1>1 DEF Waits, queueVars
<1>4. LifeOK'
  BY <1>1, <1>3 DEF TcpInv, LifeOK, Opening, Opened, Closing, OutputIsWatched, Output,
                    queueVars
<1>5. shut' /\ ~shut => wire' = accepted'
  <2>1. wire \in Seq(Nat)
    BY DEF TcpInv, TcpTypeOK
  <2>2. wire \o <<>> = wire
    BY <2>1, ConcatEmptySeq
  <2>3. "write" \notin events => Output = <<>>
    BY <1>1 DEF TcpInv, LifeOK, OutputIsWatched
  <2>4. QED
    BY <1>1, <2>2, <2>3 DEF TcpInv, OutputInOrder
<1>6. QED
  BY <1>2, <1>4, <1>5 DEF TcpInv

\* What one more functor, and one run or taken, does to the queues.
LEMMA WaitsAppend ==
    ASSUME TcpTypeOK, NEW kind, NEW m, <<kind, m>> \in Functor,
           ioQueue' = Append(ioQueue, <<kind, m>>), UNCHANGED <<batch, next>>
    PROVE  /\ ioQueue' \in Seq(Functor)
           /\ \A k : k # kind /\ ~Waits(k) => ~Waits(k)'
<1>1. ioQueue \in Seq(Functor) /\ Len(ioQueue) \in Nat
  BY LenProperties DEF TcpTypeOK
<1>2. /\ ioQueue' \in Seq(Functor) /\ Len(ioQueue') = Len(ioQueue) + 1
      /\ \A i \in 1..Len(ioQueue) : ioQueue'[i] = ioQueue[i]
      /\ ioQueue'[Len(ioQueue) + 1] = <<kind, m>>
  BY <1>1, AppendProperties
<1>3. ASSUME NEW k, k # kind, ~Waits(k)
      PROVE  ~Waits(k)'
  <2>1. ASSUME NEW i \in 1..Len(ioQueue')
        PROVE  ioQueue'[i][1] # k
    <3>1. CASE i \in 1..Len(ioQueue)
      BY <1>2, <1>3, <3>1 DEF Waits
    <3>2. CASE i = Len(ioQueue) + 1
      BY <1>2, <1>3, <3>2
    <3>3. QED
      BY <1>1, <1>2, <3>1, <3>2
  <2>2. QED
    BY <1>3, <2>1 DEF Waits
<1>4. QED
  BY <1>2, <1>3

LEMMA WaitsRuns ==
    ASSUME TcpTypeOK, NEW kind, Runs(kind)
    PROVE  /\ Waits(kind)
           /\ \A k : ~Waits(k) => ~Waits(k)'
<1>1. /\ next \in 1..Len(batch) /\ Len(batch) \in Nat /\ next' = next + 1
      /\ batch[next][1] = kind /\ UNCHANGED <<batch, ioQueue>>
  BY RunsType, LenProperties DEF Runs, TcpTypeOK
<1>2. \A i \in next'..Len(batch') : i \in next..Len(batch)
  BY <1>1
<1>3. next \in next..Len(batch)
  BY <1>1
<1>4. QED
  BY <1>1, <1>2, <1>3 DEF Waits

LEMMA BatchStep == TcpInv /\ (TakeBatch \/ EndBatch) => TcpInv' /\ shut' = shut
<1> SUFFICES ASSUME TcpInv, TakeBatch \/ EndBatch
             PROVE  TcpInv' /\ shut' = shut
  OBVIOUS
<1>1. UNCHANGED <<mainQueue, ownVars, socketVars, sender, sent, dangling>>
      /\ next' = 1
  BY DEF TakeBatch, EndBatch
<1>2. /\ OutputInOrder' /\ Output' = Output /\ shut' = shut
      /\ IsBuffer(outbuf') /\ wire' \in Seq(Nat) /\ accepted' \in Seq(Nat)
      /\ peer' \in {"open", "closed", "aborted", "broken"}
      /\ shut' \in BOOLEAN /\ killed' \in BOOLEAN
  BY <1>1, SocketSame
<1>3. /\ Len(batch) \in Nat /\ Len(ioQueue) \in Nat
      /\ batch \in Seq(Functor) /\ ioQueue \in Seq(Functor)
  BY LenProperties DEF TcpInv, TcpTypeOK
<1>4. /\ batch' \in Seq(Functor) /\ ioQueue' \in Seq(Functor)
      /\ next' \in 1..(Len(batch') + 1)
      /\ \A k : ~Waits(k) => ~Waits(k)'
      /\ state = "connecting" => batch' = <<Est>> /\ ioQueue' = <<>>
  <2>1. CASE TakeBatch
    <3>1. batch = <<>> /\ batch' = ioQueue /\ ioQueue' = <<>> /\ next' = 1
      BY <2>1 DEF TakeBatch
    <3>2. ASSUME NEW k, ~Waits(k) PROVE ~Waits(k)'
      <4>1. Len(ioQueue') = 0 /\ \A i \in 1..Len(ioQueue) : ioQueue[i][1] # k
        BY <3>1, <3>2 DEF Waits
      <4>2. QED
        BY <3>1, <4>1 DEF Waits
    <3>3. state = "connecting" => ioQueue = <<Est>>
      BY <3>1 DEF TcpInv, LifeOK, Opening, Est
    <3>4. QED
      BY <1>3, <3>1, <3>2, <3>3
  <2>2. CASE EndBatch
    <3>1. batch' = <<>> /\ ioQueue' = ioQueue /\ next' = 1 /\ next > Len(batch)
      BY <2>2 DEF EndBatch
    <3>2. ASSUME NEW k, ~Waits(k) PROVE ~Waits(k)'
      <4>1. Len(batch') = 0 /\ \A i \in 1..Len(ioQueue) : ioQueue[i][1] # k
        BY <3>1, <3>2 DEF Waits
      <4>2. QED
        BY <3>1, <4>1 DEF Waits
    <3>3. state # "connecting"
      BY <2>2, <3>1 DEF EndBatch, TcpInv, LifeOK, Opening
    <3>4. QED
      BY <1>3, <3>1, <3>2, <3>3
  <2>3. QED
    BY <2>1, <2>2
<1>5. TcpTypeOK'
  BY <1>1, <1>2, <1>4 DEF TcpInv, TcpTypeOK, ownVars
<1>6. LifeOK'
  BY <1>1, <1>2, <1>4
     DEF TcpInv, LifeOK, Opening, Opened, Closing, OutputIsWatched, ownVars
<1>7. QED
  BY <1>2, <1>5, <1>6 DEF TcpInv

LEMMA connectEstablishedStep ==
    TcpInv /\ connectEstablished => TcpInv' /\ shut' = shut
<1> SUFFICES ASSUME TcpInv, connectEstablished
             PROVE  TcpInv' /\ shut' = shut
  OBVIOUS
<1>1. /\ Runs("established") /\ state' = "connected" /\ events' = {"read"}
      /\ calls' = [calls EXCEPT !.up = @ + 1] /\ held' = TRUE
      /\ UNCHANGED <<inMap, socketVars, dangling>>
  BY DEF connectEstablished
<1>2. TcpTypeOK
  BY DEF TcpInv
<1>3. Waits("established")
  BY <1>1, <1>2, WaitsRuns
<1>4. state = "connecting"
  BY <1>3 DEF TcpInv, LifeOK, Opened
<1>5. /\ batch = <<Est>> /\ next = 1 /\ ioQueue = <<>> /\ mainQueue = <<>>
      /\ Output = <<>> /\ calls = Called(0, 0)
  <2>1. next \in 1..Len(batch)
    BY <1>1, <1>2, RunsType
  <2>2. batch # <<>>
    BY <2>1
  <2>3. QED
    BY <1>4, <2>2 DEF TcpInv, LifeOK, Opening
<1>6. /\ OutputInOrder' /\ Output' = Output /\ shut' = shut
      /\ IsBuffer(outbuf') /\ wire' \in Seq(Nat) /\ accepted' \in Seq(Nat)
      /\ peer' \in {"open", "closed", "aborted", "broken"}
      /\ shut' \in BOOLEAN /\ killed' \in BOOLEAN
  BY <1>1, SocketSame
<1>7. /\ next' \in 1..(Len(batch') + 1) /\ next' = 2
      /\ UNCHANGED <<mainQueue, ioQueue, batch, sender, sent>>
  BY <1>1, <1>2, <1>5, RunsType DEF Runs
<1>8. calls' = Called(1, 0)
  BY <1>1, <1>5 DEF Called
<1>9. TcpTypeOK'
  BY <1>1, <1>6, <1>7, <1>8 DEF TcpInv, TcpTypeOK
<1>10. ~Waits("established")' /\ ~Waits("destroyed")'
  <2>1. Len(batch') = 1 /\ Len(ioQueue') = 0
    BY <1>5, <1>7
  <2>2. QED
    BY <1>7, <2>1 DEF Waits
<1>11. LifeOK'
  BY <1>1, <1>5, <1>6, <1>7, <1>8, <1>10
     DEF LifeOK, Opening, Opened, Closing, OutputIsWatched
<1>12. QED
  BY <1>6, <1>9, <1>11 DEF TcpInv

LEMMA SendQueuedStep == TcpInv /\ SendQueued => TcpInv' /\ shut' = shut
<1> SUFFICES ASSUME TcpInv, SendQueued
             PROVE  TcpInv' /\ shut' = shut
  OBVIOUS
<1>1. /\ Runs("send") /\ UNCHANGED <<state, inMap, held, calls>> /\ TcpTypeOK
      /\ \/ dangling' = TRUE /\ UNCHANGED <<socketVars, events>>
         \/ sendInLoop(batch[next][2]) /\ UNCHANGED dangling
  BY DEF SendQueued, TcpInv
<1>2. /\ batch[next] \in Functor /\ next' \in 1..(Len(batch') + 1)
      /\ UNCHANGED <<mainQueue, ioQueue, batch, sender, sent>>
  BY <1>1, RunsType
<1>3. batch[next][2] \in Nat \ {0}
  <2>1. batch[next][1] = "send"
    BY <1>1 DEF Runs
  <2>2. QED
    BY <1>2, <2>1 DEF Functor
<1>4. Waits("send") /\ \A k : ~Waits(k) => ~Waits(k)'
  BY <1>1, WaitsRuns
<1>5. state # "connecting"
  <2>1. next \in 1..Len(batch) /\ batch[next][1] = "send"
    BY <1>1, RunsType DEF Runs
  <2>2. batch # <<>> /\ (next = 1 => batch # <<Est>>)
    BY <2>1 DEF Est
  <2>3. QED
    BY <2>2 DEF TcpInv, LifeOK, Opening
<1>6. /\ OutputType' /\ OutputInOrder' /\ shut' = shut
      /\ state # "disconnected" => Watched'
      /\ state = "disconnected" => UNCHANGED <<outbuf, events>>
  <2>1. OutputType /\ OutputInOrder /\ (state # "disconnected" => Watched)
    BY DEF TcpInv, TcpTypeOK, OutputType, LifeOK, OutputIsWatched, Watched
  <2>2. CASE UNCHANGED <<socketVars, events>>
    BY <2>1, <2>2 DEF socketVars, OutputType, OutputInOrder, Output, Watched
  <2>3. CASE sendInLoop(batch[next][2])
    <3> DEFINE m == batch[next][2]
    <3>1. m \in Nat \ {0} /\ sendInLoop(m)
      BY <1>3, <2>3
    <3> HIDE DEF m
    <3>2. QED
      BY <2>1, <3>1, SendKeeps, BufferAssumption, TcpAssumption
  <2>4. QED
    BY <1>1, <2>2, <2>3
<1>7. TcpTypeOK'
  BY <1>1, <1>2, <1>6 DEF TcpTypeOK, OutputType
<1>8. LifeOK'
  BY <1>1, <1>2, <1>4, <1>5, <1>6
     DEF TcpInv, LifeOK, Opening, Opened, Closing, OutputIsWatched, Watched
<1>9. QED
  BY <1>6, <1>7, <1>8 DEF TcpInv

LEMMA connectDestroyedStep ==
    TcpInv /\ connectDestroyed => TcpInv' /\ shut' = shut
<1> SUFFICES ASSUME TcpInv, connectDestroyed
             PROVE  TcpInv' /\ shut' = shut
  OBVIOUS
<1>1. Runs("destroyed") /\ TcpTypeOK /\ UNCHANGED socketVars
  BY DEF connectDestroyed, TcpInv
<1>2. Waits("destroyed") /\ \A k : ~Waits(k) => ~Waits(k)'
  BY <1>1, WaitsRuns
<1>3. state = "disconnected"
  BY <1>2 DEF TcpInv, LifeOK, Closing
<1>4. UNCHANGED <<state, calls, held, inMap, dangling>> /\ events' = {}
  BY <1>3 DEF connectDestroyed
<1>5. /\ next' \in 1..(Len(batch') + 1)
      /\ UNCHANGED <<mainQueue, ioQueue, batch, sender, sent>>
  BY <1>1, RunsType
<1>6. /\ OutputInOrder' /\ Output' = Output /\ shut' = shut
      /\ IsBuffer(outbuf') /\ wire' \in Seq(Nat) /\ accepted' \in Seq(Nat)
      /\ peer' \in {"open", "closed", "aborted", "broken"}
      /\ shut' \in BOOLEAN /\ killed' \in BOOLEAN
  BY <1>1, SocketSame
<1>7. TcpTypeOK'
  BY <1>1, <1>4, <1>5, <1>6 DEF TcpTypeOK
<1>8. LifeOK'
  BY <1>2, <1>3, <1>4 DEF TcpInv, LifeOK, Opening, Opened, Closing, OutputIsWatched
<1>9. QED
  BY <1>6, <1>7, <1>8 DEF TcpInv

LEMMA handlerCloseStep == TcpInv /\ handlerClose => TcpInv' /\ shut' = shut
<1> SUFFICES ASSUME TcpInv, handlerClose
             PROVE  TcpInv' /\ shut' = shut
  OBVIOUS
<1>1. /\ "read" \in events /\ state' = "disconnected" /\ events' = {}
      /\ calls' = [calls EXCEPT !.down = @ + 1] /\ held' = FALSE
      /\ mainQueue' = Append(mainQueue, <<"remove", 0>>)
      /\ UNCHANGED <<inMap, ioQueue, batch, next, socketVars, sender, sent, dangling>>
  BY DEF handlerClose, DisableAll
<1>2. state # "connecting" /\ state # "disconnected"
  BY <1>1 DEF TcpInv, LifeOK, Opening, Closing
<1>3. calls = Called(1, 0) /\ ~Waits("established")
  BY <1>2 DEF TcpInv, LifeOK, Opened
<1>4. calls' = Called(1, 1)
  BY <1>1, <1>3 DEF Called
<1>5. mainQueue' \in Seq(Functor)
  <2>1. <<"remove", 0>> \in Functor /\ mainQueue \in Seq(Functor)
    BY DEF Functor, TcpInv, TcpTypeOK
  <2>2. QED
    BY <1>1, <2>1, AppendProperties
<1>6. /\ OutputInOrder' /\ shut' = shut
      /\ IsBuffer(outbuf') /\ wire' \in Seq(Nat) /\ accepted' \in Seq(Nat)
      /\ peer' \in {"open", "closed", "aborted", "broken"}
      /\ shut' \in BOOLEAN /\ killed' \in BOOLEAN
  BY <1>1, SocketSame
<1>7. TcpTypeOK'
  BY <1>1, <1>4, <1>5, <1>6 DEF TcpInv, TcpTypeOK
<1>8. ~Waits("established")'
  BY <1>1, <1>3 DEF Waits
<1>9. LifeOK'
  BY <1>1, <1>4, <1>8 DEF LifeOK, Opening, Opened, Closing, OutputIsWatched
<1>10. QED
  BY <1>6, <1>7, <1>9 DEF TcpInv

LEMMA removeConnectionStep ==
    TcpInv /\ removeConnection => TcpInv' /\ shut' = shut
<1> SUFFICES ASSUME TcpInv, removeConnection
             PROVE  TcpInv' /\ shut' = shut
  OBVIOUS
<1>1. /\ mainQueue # <<>> /\ mainQueue' = Tail(mainQueue) /\ inMap' = FALSE
      /\ ioQueue' = Append(ioQueue, <<"destroyed", 0>>)
      /\ UNCHANGED <<batch, next, state, events, held, calls, socketVars, sender,
                     sent, dangling>>
  BY DEF removeConnection
<1>2. state = "disconnected" /\ ~Waits("established")
  BY <1>1 DEF TcpInv, LifeOK, Opened, Closing
<1>3. mainQueue' \in Seq(Functor)
  <2>1. mainQueue \in Seq(Functor)
    BY DEF TcpInv, TcpTypeOK
  <2>2. QED
    BY <1>1, <2>1, HeadTailProperties
<1>4. ioQueue' \in Seq(Functor) /\ ~Waits("established")'
  <2>1. <<"destroyed", 0>> \in Functor /\ TcpTypeOK
    BY DEF Functor, TcpInv
  <2>2. QED
    BY <1>1, <1>2, <2>1, WaitsAppend
<1>5. /\ OutputInOrder' /\ shut' = shut
      /\ IsBuffer(outbuf') /\ wire' \in Seq(Nat) /\ accepted' \in Seq(Nat)
      /\ peer' \in {"open", "closed", "aborted", "broken"}
      /\ shut' \in BOOLEAN /\ killed' \in BOOLEAN
  BY <1>1, SocketSame
<1>6. TcpTypeOK'
  BY <1>1, <1>3, <1>4, <1>5 DEF TcpInv, TcpTypeOK
<1>7. LifeOK'
  BY <1>1, <1>2, <1>4 DEF TcpInv, LifeOK, Opening, Opened, Closing, OutputIsWatched
<1>8. QED
  BY <1>5, <1>6, <1>7 DEF TcpInv

\* Senders of other loops: they have found the connection, so it is not
\* "connecting" any more.
LEMMA SenderStep ==
    ASSUME TcpInv, NEW s \in Sender, FindConn(s) \/ TestState(s) \/ QueueSend(s)
    PROVE  TcpInv' /\ shut' = shut
<1>1. UNCHANGED <<mainQueue, batch, next, ownVars, socketVars, dangling>>
  BY DEF FindConn, TestState, QueueSend, queueVars
<1>2. state # "connecting"
  BY DEF FindConn, TestState, QueueSend, TcpInv, LifeOK, Opening
<1>3. sender' \in [Sender -> {"idle", "found", "checked"}]
  BY DEF FindConn, TestState, QueueSend, TcpInv, TcpTypeOK
<1>4. /\ ioQueue' \in Seq(Functor) /\ sent' \in 0..MaxMessages
      /\ ~Waits("established") => ~Waits("established")'
      /\ ~Waits("destroyed") => ~Waits("destroyed")'
  <2>1. CASE UNCHANGED <<ioQueue, sent>>
    BY <1>1, <2>1 DEF TcpInv, TcpTypeOK, Waits
  <2>2. CASE /\ sent < MaxMessages /\ sent' = sent + 1
             /\ ioQueue' = Append(ioQueue, <<"send", sent + 1>>)
    <3>1. <<"send", sent + 1>> \in Functor /\ sent' \in 0..MaxMessages /\ TcpTypeOK
      BY <2>2, TcpAssumption DEF Functor, TcpInv, TcpTypeOK
    <3>2. QED
      BY <1>1, <2>2, <3>1, WaitsAppend
  <2>3. QED
    BY <2>1, <2>2 DEF FindConn, TestState, QueueSend, queueVars
<1>5. /\ OutputInOrder' /\ Output' = Output /\ shut' = shut
      /\ IsBuffer(outbuf') /\ wire' \in Seq(Nat) /\ accepted' \in Seq(Nat)
      /\ peer' \in {"open", "closed", "aborted", "broken"}
      /\ shut' \in BOOLEAN /\ killed' \in BOOLEAN
  BY <1>1, SocketSame
<1>6. TcpTypeOK'
  BY <1>1, <1>3, <1>4, <1>5 DEF TcpInv, TcpTypeOK, ownVars
<1>7. LifeOK'
  BY <1>1, <1>2, <1>4, <1>5
     DEF TcpInv, LifeOK, Opening, Opened, Closing, OutputIsWatched, ownVars
<1>8. QED
  BY <1>5, <1>6, <1>7 DEF TcpInv

LEMMA PeerStep ==
    TcpInv /\ (PeerCloses \/ UNCHANGED tcpVars) => TcpInv' /\ shut' = shut
<1> SUFFICES ASSUME TcpInv, PeerCloses \/ UNCHANGED tcpVars
             PROVE  TcpInv' /\ shut' = shut
  OBVIOUS
<1>1. /\ UNCHANGED <<outbuf, wire, accepted, shut, killed, queueVars, ownVars, sender,
                     sent, dangling>>
      /\ peer' \in {"open", "closed", "aborted", "broken"}
  BY DEF PeerCloses, tcpVars, socketVars, TcpInv, TcpTypeOK
<1>2. TcpTypeOK' /\ OutputInOrder' /\ Output' = Output
  BY <1>1 DEF TcpInv, TcpTypeOK, OutputInOrder, Output, queueVars, ownVars
<1>3. Waits("established")' = Waits("established")
      /\ Waits("destroyed")' = Waits("destroyed")
  BY <1>1 DEF Waits, queueVars
<1>4. LifeOK'
  BY <1>1, <1>2, <1>3
     DEF TcpInv, LifeOK, Opening, Opened, Closing, OutputIsWatched, queueVars, ownVars
<1>5. QED
  BY <1>1, <1>2, <1>4 DEF TcpInv

LEMMA TcpInvStep ==
    TcpInv /\ [TcpNext]_tcpVars => TcpInv' /\ (shut' /\ ~shut => wire' = accepted')
<1> SUFFICES ASSUME TcpInv, [TcpNext]_tcpVars
             PROVE  TcpInv' /\ (shut' /\ ~shut => wire' = accepted')
  OBVIOUS
<1>1. CASE TakeBatch \/ EndBatch
  BY <1>1, BatchStep
<1>2. CASE connectEstablished
  BY <1>2, connectEstablishedStep
<1>3. CASE SendQueued
  BY <1>3, SendQueuedStep
<1>4. CASE connectDestroyed
  BY <1>4, connectDestroyedStep
<1>5. CASE handlerClose
  BY <1>5, handlerCloseStep
<1>6. CASE SendHere
  BY <1>6, SendHereStep
<1>7. CASE handleWrite
  BY <1>7, handleWriteStep
<1>8. CASE shutdown
  BY <1>8, shutdownStep
<1>9. CASE removeConnection
  BY <1>9, removeConnectionStep
<1>10. ASSUME NEW s \in Sender, FindConn(s) \/ TestState(s) \/ QueueSend(s)
       PROVE  TcpInv' /\ shut' = shut
  BY <1>10, SenderStep
<1>11. CASE PeerCloses \/ UNCHANGED tcpVars
  BY <1>11, PeerStep
<1>12. QED
  BY <1>1, <1>2, <1>3, <1>4, <1>5, <1>6, <1>7, <1>8, <1>9, <1>10, <1>11
     DEF TcpNext, IoLoop, OtherThreads

-----------------------------------------------------------------------------
(* The theorems.                                                           *)

LEMMA TcpInvCorrect == TcpSpec => []TcpInv
<1>1. TcpInv /\ [TcpNext]_tcpVars => TcpInv'
  BY TcpInvStep
<1>2. QED
  BY <1>1, TcpInvInit, PTL DEF TcpSpec

\* Every variable of a TcpConnection keeps its type, its output buffer has its
\* indices in order, and the connection callback is called once when the
\* connection is up and once when it is down.
THEOREM TcpTypeCorrect == TcpSpec => []TcpTypeOK
<1>1. TcpInv => TcpTypeOK
  BY DEF TcpInv
<1>2. QED
  BY <1>1, TcpInvCorrect, PTL

\* However a socket splits the messages, and whatever the output buffer does
\* with its vector, the units go out as sendInLoop took them over.
THEOREM OutputOrderCorrect == TcpSpec => []OutputInOrder
<1>1. TcpInv => OutputInOrder
  BY DEF TcpInv
<1>2. QED
  BY <1>1, TcpInvCorrect, PTL

\* EPOLLOUT is asked for exactly while there is output.
THEOREM OutputWatchedCorrect == TcpSpec => []OutputIsWatched
<1>1. TcpInv => OutputIsWatched
  BY DEF TcpInv, LifeOK
<1>2. QED
  BY <1>1, TcpInvCorrect, PTL

\* No output is lost to a shutdown.
THEOREM FlushedCorrect == TcpSpec => FlushedBeforeShutdown
<1>1. TcpInv /\ [TcpNext]_tcpVars => [shut' /\ ~shut => wire' = accepted']_tcpVars
  BY TcpInvStep
<1>2. QED
  BY <1>1, TcpInvCorrect, PTL DEF TcpSpec, FlushedBeforeShutdown
=============================================================================
