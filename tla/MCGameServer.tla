---------------------------- MODULE MCGameServer ----------------------------
(* The game on two loops: connection c2 is on loop "b", all others on "a". *)
EXTENDS GameServer

CONSTANTS c2, Points   \* Points: what every account starts with

MCLoopOf == [c \in Conn |-> IF c = c2 THEN "b" ELSE "a"]
MCInitPoints == [u \in User |-> Points]

Interchangeable == Permutations(User) \cup Permutations(Conn \ {c2})
=============================================================================
