----------------------------- MODULE ByteQueue ------------------------------
(***************************************************************************)
(* What Buffer promises: bytes come out in the order in which they went    *)
(* in, none lost, none twice.  The n-th byte to go in has the value n.     *)
(***************************************************************************)
EXTENDS Integers, Sequences

VARIABLES
    content,     \* the bytes that are readable
    given        \* the bytes that the reader has taken

queueVars == <<content, given>>

\* k new bytes, numbered after n.
Fresh(n, k) == [i \in 1..k |-> n + i]

\* A step puts bytes in behind those that are there, takes bytes from the
\* front, or does both; how many is up to the step.
Pass ==
    LET all == given \o content
        put == Len(given' \o content') - Len(all)
    IN  /\ put >= 0 /\ Len(given') >= Len(given)
        /\ given' \o content' = all \o Fresh(Len(all), put)

QueueInit == content = <<>> /\ given = <<>>
QueueNext == Pass
QueueSpec == QueueInit /\ [][QueueNext]_queueVars
=============================================================================
