----------------------------- MODULE MCSessions -----------------------------
(* Sessions on two IO loops: connections 1 and 3 on loop "a", 2 on "b".    *)
EXTENDS Sessions

MCLoopOf == [c \in Conn |-> IF c % 2 = 1 THEN "a" ELSE "b"]
=============================================================================
