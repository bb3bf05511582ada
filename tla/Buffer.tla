------------------------------- MODULE Buffer -------------------------------
(***************************************************************************)
(* Buffer of MyMuduo: a vector with a reader and a writer index, read from *)
(* a socket with readv, filled with append, emptied with retrieve.         *)
(*                                                                         *)
(* ProtocolDispatcher uses one for the input of a connection (Dispatcher), *)
(* TcpConnection another for its output.                                   *)
(*                                                                         *)
(* A buffer is a record: data is the vector (position i of the code is     *)
(* data[i + 1]), reader and writer are the two indices.  Bytes are         *)
(* numbers, so that two bytes are never confused.                          *)
(***************************************************************************)
EXTENDS Integers, Sequences

CONSTANTS
    KCheapPrepend, KInitialSize,
    ExtraSize    \* sizeof(extrabuffer)

ASSUME BufferAssumption ==
    KCheapPrepend \in Nat /\ KInitialSize \in Nat /\ ExtraSize \in Nat

readableBytes(b) == b.writer - b.reader
writeableBytes(b) == Len(b.data) - b.writer
prependableBytes(b) == b.reader
Readable(b) == SubSeq(b.data, b.reader + 1, b.writer)

EmptyBuffer ==
    [data |-> [i \in 1..(KCheapPrepend + KInitialSize) |-> 0],
     reader |-> KCheapPrepend, writer |-> KCheapPrepend]

\* The indices are in order and within the vector, behind the prepend area.
IsBuffer(b) ==
    /\ b \in [data : Seq(Nat), reader : Nat, writer : Nat]
    /\ KCheapPrepend <= b.reader /\ b.reader <= b.writer
    /\ b.writer <= Len(b.data)

-----------------------------------------------------------------------------
\* Mutant: the indices are set, the bytes stay where they are.
MoveToFront_NotCopied(b) ==
    [b EXCEPT !.reader = KCheapPrepend,
              !.writer = KCheapPrepend + readableBytes(b)]

\* makePlace, when the room before the bytes is enough.
MoveToFront(b) ==
    [data |-> [i \in 1..Len(b.data) |->
                  IF i \in (KCheapPrepend + 1)..(KCheapPrepend + readableBytes(b))
                  THEN b.data[i - KCheapPrepend + b.reader] ELSE b.data[i]],
     reader |-> KCheapPrepend, writer |-> KCheapPrepend + readableBytes(b)]

\* Mutant: a new vector, the old bytes are left behind.
Resized_NotCopied(b, size) == [b EXCEPT !.data = [i \in 1..size |-> 0]]

\* vector::resize(size): the new elements are 0.
Resized(b, size) ==
    [b EXCEPT !.data = [i \in 1..size |->
                           IF i <= Len(b.data) THEN b.data[i] ELSE 0]]

makePlace(b, len) ==
    IF writeableBytes(b) + prependableBytes(b) < len + KCheapPrepend
    THEN Resized(b, b.writer + len)
    ELSE MoveToFront(b)

ensureWriteableBytes(b, len) ==
    IF len > writeableBytes(b) THEN makePlace(b, len) ELSE b

\* std::copy to beginWrite(), which stays within the vector if makePlace does
\* its work, and the writer index moves.
Filled(b, bytes) ==
    [b EXCEPT !.data = [i \in 1..Len(@) |->
                           IF i \in (b.writer + 1)..(b.writer + Len(bytes))
                           THEN bytes[i - b.writer] ELSE @[i]],
              !.writer = @ + Len(bytes)]

append(b, bytes) == Filled(ensureWriteableBytes(b, Len(bytes)), bytes)

\* readfd: as much as fits into the vector, the rest through extrabuffer.
readfd(b, bytes) ==
    LET writeable == writeableBytes(b) IN
    IF Len(bytes) <= writeable
    THEN Filled(b, bytes)
    ELSE append(Filled(b, SubSeq(bytes, 1, writeable)),
                SubSeq(bytes, writeable + 1, Len(bytes)))

\* The most that readv may read: extrabuffer is used only if it is larger
\* than the vector's room.
ReadLimit(b) ==
    writeableBytes(b) + IF writeableBytes(b) < ExtraSize THEN ExtraSize ELSE 0

retrieveAll(b) == [b EXCEPT !.reader = KCheapPrepend, !.writer = KCheapPrepend]

retrieve(b, len) ==
    IF len < readableBytes(b) THEN [b EXCEPT !.reader = @ + len]
                              ELSE retrieveAll(b)

\* retrieveAsString: the string may reach behind the readable bytes, and where
\* the vector has ended nothing is known of it.
NoByte == 0
AsString(b, len) ==
    [i \in 1..len |-> IF b.reader + i <= Len(b.data) THEN b.data[b.reader + i]
                                                     ELSE NoByte]

=============================================================================
