--------------------------- MODULE MCMatchmaking ----------------------------
(***************************************************************************)
(* Matchmaking on two loops: connection c2 is on loop "b", all others on   *)
(* loop "a".  Users are interchangeable while all of them are in one tier, *)
(* and so are the connections of one loop.                                 *)
(***************************************************************************)
EXTENDS Matchmaking

CONSTANTS c2, HighTier   \* HighTier: the users of the middle tier

MCLoopOf == [c \in Conn |-> IF c = c2 THEN "b" ELSE "a"]
MCInitPoints == [u \in User |-> IF u \in HighTier THEN 2000 ELSE 1000]

Interchangeable == Permutations(User) \cup Permutations(Conn \ {c2})
=============================================================================
