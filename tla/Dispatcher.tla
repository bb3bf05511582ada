----------------------------- MODULE Dispatcher -----------------------------
(***************************************************************************)
(* ProtocolDispatcher::dispatch on the input buffer of one connection,     *)
(* called by TcpConnection::handleRead after every read.                   *)
(*                                                                         *)
(* The client sends frames 1, 2, ...: a header of HeaderSize bytes with    *)
(* the size of the body, and the body, a JSON text.  TCP keeps the order   *)
(* of the bytes and nothing else: a read may end anywhere.  The n-th byte  *)
(* of the stream has the value n, and the buffer is that of module Buffer, *)
(* with what it does to its vector.                                        *)
(***************************************************************************)
EXTENDS Buffer

CONSTANTS
    Frames,       \* how many frames the client sends
    Sizes,        \* the sizes its bodies may have
    HeaderSize,   \* sizeof(size)
    MaxFrameSize  \* the limit of dispatch, 1024

ASSUME DispatcherAssumption ==
    /\ Frames \in Nat /\ HeaderSize \in Nat \ {0} /\ MaxFrameSize \in Nat
    /\ Sizes \subseteq Nat \ {0}

VARIABLES
    size,         \* the sizes of the frames of this client
    buf,          \* the input buffer of its connection
    given,        \* the bytes that have left it
    handled,      \* the messages taken for parser and handler, by frame; or
                  \* Mixed
    down,         \* an exception ended the process
    gentle        \* so far every read ended gently (history)

dispatchVars == <<size, buf, given, handled, down, gentle>>

\* A message parsed from a part of a frame and bytes of an earlier one.
Mixed == 0

\* Where each frame starts; Start[Frames + 1] is the end of the stream.
Start ==
    LET S[f \in 1..(Frames + 1)] ==
            IF f = 1 THEN 0 ELSE S[f - 1] + HeaderSize + size[f - 1]
    IN  S
StreamEnd == Start[Frames + 1]

DispatchTypeOK ==
    /\ size \in [1..Frames -> Sizes]
    /\ IsBuffer(buf) /\ given \in Seq(Nat)
    /\ handled \in Seq(0..Frames)
    /\ down \in BOOLEAN /\ gentle \in BOOLEAN

DispatchInit ==
    /\ size \in [1..Frames -> Sizes]
    /\ buf = EmptyBuffer /\ given = <<>>
    /\ handled = <<>> /\ down = FALSE /\ gentle = TRUE

-----------------------------------------------------------------------------
\* What has been taken from the stream, and what has come of it.
Read == Len(given)
Arrived == Read + readableBytes(buf)

Positions(start, n) == [i \in 1..n |-> start + i]
Header(f) == Positions(Start[f], HeaderSize)
Body(f) == Positions(Start[f] + HeaderSize, size[f])

\* A read is gentle when it ends in or after the header of a frame, or at its
\* end, and goes no further.
Gentle(end) ==
    \E f \in 1..Frames :
        /\ Start[f] <= Arrived /\ Arrived < Start[f + 1]
        /\ end \in (Start[f] + 1)..(Start[f] + HeaderSize) \cup {Start[f + 1]}

\* Nothing is done: the buffer stays as it is.
Leave(b) == buf' = b /\ UNCHANGED <<given, handled, down>>

\* Mutant: what is too large is thrown away.
Refuse_Discard(b) ==
    /\ buf' = retrieveAll(b) /\ given' = given \o Readable(b)
    /\ UNCHANGED <<handled, down>>
\* The frame is too large: return.
Refuse(b) == Leave(b)

\* Mutant: > for >=.
IsConsumed_Strict(f, b) == size[f] > readableBytes(b) - HeaderSize
\* size >= buf->readableBytes() - 4
IsConsumed(f, b) == size[f] >= readableBytes(b) - HeaderSize

\* What the parser makes of a text that was taken for the body of frame f.
\* Bytes that earlier frames left in the vector may stand for missing ones, or
\* even be the same; bytes that were never written parse as nothing.
Parsed(text, f) ==
    IF text = Body(f) THEN {<<f>>}
    ELSE IF \E i \in 1..Len(text) : text[i] = NoByte THEN {<<>>}
    ELSE {<<f>>, <<Mixed>>, <<>>}

\* retrieve(sizeof(size)), retrieveAsString(size), and the handler.  A frame
\* whose text is no JSON, or whose protocol has no handler, is taken all the
\* same and only logged: its number in handled says that its turn has come.
Consume(f, b) ==
    LET body == retrieve(b, HeaderSize)
        taken == HeaderSize + size[f]
    IN  /\ buf' = retrieve(body, size[f])
        /\ given' = given \o SubSeq(Readable(b), 1,
                         IF taken < readableBytes(b) THEN taken ELSE readableBytes(b))
        /\ \E messages \in Parsed(AsString(body, size[f]), f) :
               handled' = handled \o messages
        /\ UNCHANGED down

\* A header made of body bytes is larger than any limit, or, if the first of
\* them is not ASCII, negative: then it is a huge size_t in the comparison and
\* the construction of the string throws.
Misread(b) ==
    /\ buf' = b /\ UNCHANGED <<given, handled>>
    /\ down' \in BOOLEAN

\* dispatch on buffer b.
dispatch(b) ==
    LET IsHeaderOf(f) == AsString(b, HeaderSize) = Header(f) IN
    \/ /\ readableBytes(b) <= HeaderSize
       /\ Leave(b)
    \/ /\ readableBytes(b) > HeaderSize
       /\ \E f \in 1..Frames :
             /\ IsHeaderOf(f)
             /\ IF size[f] > MaxFrameSize THEN Refuse(b)
                ELSE IF IsConsumed(f, b) THEN Consume(f, b)
                ELSE Leave(b)
    \/ /\ readableBytes(b) > HeaderSize
       /\ \A f \in 1..Frames : ~IsHeaderOf(f)
       /\ Misread(b)

\* handleRead: what has come is read into the buffer and dispatched.
handleRead ==
    /\ ~down
    /\ \E n \in 1..ReadLimit(buf) :
          /\ Arrived + n <= StreamEnd
          /\ gentle' = (gentle /\ Gentle(Arrived + n))
          /\ dispatch(readfd(buf, Positions(Arrived, n)))
    /\ UNCHANGED size

DispatchNext == handleRead
DispatchSpec == DispatchInit /\ [][DispatchNext]_dispatchVars

-----------------------------------------------------------------------------
(* Properties.                                                             *)

\* As long as reads end gently, exactly the frames that have arrived have been
\* handled, each once and in order, up to the first that is too large.  (Reads
\* that end elsewhere break this: see the two properties at the end.)
ArrivedIsHandled ==
    gentle =>
        /\ handled = [f \in 1..Len(handled) |-> f]
        /\ \A f \in 1..Frames :
              (\A g \in 1..f : size[g] <= MaxFrameSize) =>
                  (Arrived >= Start[f + 1] <=> Len(handled) >= f)

\* Wherever reads end, no frame is skipped and none is handled twice: what
\* goes wrong stops the connection instead.
NoneSkipped == \A n \in 1..Len(handled) : handled[n] \in {n, Mixed}

\* What the buffer does to its vector, growing it in the middle of a readv,
\* setting its indices back or moving its bytes to the front, loses no byte
\* and changes no order: it implements ByteQueue.
Queue == INSTANCE ByteQueue WITH content <- Readable(buf)
BufferIsQueue == Queue!QueueSpec

\* "First see whether there is a complete message"
\* (ProtocolDispatcher.cc:25): only complete messages leave the buffer.
OnlyWholeFramesConsumed == \E f \in 1..(Frames + 1) : Read = Start[f]

\* "There is a complete message" (ProtocolDispatcher.cc:39) is what is true
\* when there is one: a frame of legal size at the front of the buffer does
\* not stay there once it is complete.
CompleteFramesAreTaken ==
    \A f \in 1..Frames :
        Read = Start[f] /\ size[f] <= MaxFrameSize => Arrived < Start[f + 1]
=============================================================================
