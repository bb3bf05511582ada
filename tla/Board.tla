------------------------------- MODULE Board --------------------------------
(***************************************************************************)
(* The board of GameRoomInfo and its search for five in a row.             *)
(*                                                                         *)
(* Clients take turns and put their stones on empty positions of the       *)
(* board: the room looks at neither (isValidPosition has no caller), and a *)
(* game ends when a win was reported.                                      *)
(***************************************************************************)
EXTENDS Integers, FiniteSets

CONSTANTS
    BoardSize,   \* BOARD_SIZE, 15
    Layouts      \* bound: a game's stones are put on one of these sets

ASSUME BoardAssumption ==
    /\ BoardSize \in Nat
    /\ \A s \in Layouts : s \subseteq (0..(BoardSize - 1)) \X (0..(BoardSize - 1))

VARIABLES
    positions,   \* the positions this game's stones are put on
    board,       \* _board
    turn,        \* whose turn it is
    winner       \* for whom handleChess returned true, or None

boardVars == <<positions, board, turn, winner>>

None == 0
White == 1
Black == 2
Squares == (0..(BoardSize - 1)) \X (0..(BoardSize - 1))

BoardTypeOK ==
    /\ positions \in Layouts
    /\ board \in [Squares -> {None, White, Black}]
    /\ turn \in {"whiteId", "blackId"} /\ winner \in {None, White, Black}
    /\ LET Stones(colour) == Cardinality({p \in Squares : board[p] = colour})
       IN  Stones(White) - Stones(Black) \in {-1, 0, 1}

BoardInit ==
    /\ positions \in Layouts
    /\ board = [p \in Squares |-> None]
    /\ turn \in {"whiteId", "blackId"} /\ winner = None

-----------------------------------------------------------------------------
\* k positions from p in the direction d.
Step(p, d, k) == <<p[1] + k * d[1], p[2] + k * d[2]>>

\* The first loop of five: how many stones of the colour follow p in the
\* direction d before another position or the edge of the board.
Follow(b, p, d, colour) ==
    CHOOSE n \in 0..BoardSize :
        /\ \A k \in 1..n : Step(p, d, k) \in Squares /\ b[Step(p, d, k)] = colour
        /\ Step(p, d, n + 1) \notin Squares \/ b[Step(p, d, n + 1)] # colour

\* The second loop goes the other way.
CountBack(b, p, d, colour) == Follow(b, p, <<-d[1], -d[2]>>, colour)

\* Exactly five: a longer row does not win.
five(b, p, d, colour) ==
    1 + Follow(b, p, d, colour) + CountBack(b, p, d, colour) = 5

\* Mutant: one diagonal is forgotten.
Directions_Three == {<<1, 0>>, <<0, 1>>, <<-1, -1>>}
\* checkWin asks for four directions.
Directions == {<<1, 0>>, <<0, 1>>, <<-1, -1>>, <<-1, 1>>}
checkWin(b, p, colour) == \E d \in Directions : five(b, p, d, colour)

chess(userId) == IF userId = "whiteId" THEN White ELSE Black

\* handleChess, by the player whose turn it is.
handleChess(p) ==
    /\ board' = [board EXCEPT ![p] = chess(turn)]
    /\ winner' = IF checkWin(board', p, chess(turn)) THEN chess(turn) ELSE None
    /\ turn' = IF turn = "whiteId" THEN "blackId" ELSE "whiteId"

BoardNext ==
    /\ winner = None
    /\ \E p \in positions : board[p] = None /\ handleChess(p)
    /\ UNCHANGED positions

BoardSpec == BoardInit /\ [][BoardNext]_boardVars

-----------------------------------------------------------------------------
(* Properties.                                                             *)

\* Rows of exactly five, without a word about moves: five positions on a line,
\* the colour on all of them and on neither end.
Line(p, d) == {Step(p, d, k) : k \in 0..4}
Owns(colour, p) == p \in Squares /\ board[p] = colour
RowOfFive(colour) ==
    \E p \in positions : \E d \in {<<1, 0>>, <<0, 1>>, <<1, 1>>, <<1, -1>>} :
        /\ \A q \in Line(p, d) : Owns(colour, q)
        /\ ~Owns(colour, Step(p, d, -1)) /\ ~Owns(colour, Step(p, d, 5))

\* A player wins exactly when it has a row of exactly five, in whatever
\* direction it lies, in whatever order its stones were put and wherever the
\* edges are.
WinIsRowOfFive ==
    \A colour \in {White, Black} : winner = colour <=> RowOfFive(colour)
=============================================================================
