------------------------------ MODULE MCBoard -------------------------------
(* Lines of a board of 7 by 7 that touch its edges: a row and a column, and  *)
(* two diagonals.                                                            *)
EXTENDS Board

MCLayouts ==
    { {<<0, y>> : y \in 0..5} \cup {<<x, 0>> : x \in 0..5},
      {<<i, i>> : i \in 1..6} \cup {<<i, 6 - i>> : i \in 1..6} }
=============================================================================
