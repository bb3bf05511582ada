---------------------------- MODULE BoardProofs -----------------------------
(***************************************************************************)
(* The board, for every size and whatever positions a game uses: the win   *)
(* that handleChess reports is a row of exactly five.  five() looks only   *)
(* at the line through the last stone and counts step by step; what it     *)
(* counts is found by the least number of steps at which the colour ends.  *)
(***************************************************************************)
EXTENDS Board, FiniteSetTheorems, NaturalsInduction, WellFoundedInduction, TLAPS

\* A set of natural numbers that is not empty has a least member.
LEMMA LeastMember ==
    ASSUME NEW T \in SUBSET Nat, T # {}
    PROVE  \E x \in T : \A y \in T : x <= y
<1> DEFINE R == {p \in Nat \X Nat : p[1] < p[2]}
<1>1. IsWellFoundedOn(R, Nat)
  BY NatLessThanWellFounded DEF OpToRel
<1>2. PICK x \in T : \A y \in T : ~(<<y, x>> \in R)
  <2> HIDE DEF R
  <2> QED
    BY <1>1, WFMin
<1>3. ASSUME NEW y \in T PROVE x <= y
  <2>1. <<y, x>> \in Nat \X Nat /\ ~(<<y, x>> \in R)
    BY <1>2
  <2>2. ~(y < x)
    BY <2>1
  <2>3. QED
    BY <2>2
<1>4. QED
  BY <1>3

Boards == [Squares -> {None, White, Black}]
\* The directions of a line, and the other way along each.
Straight == {<<1, 0>>, <<0, 1>>, <<1, 1>>, <<1, -1>>}
Backward == {<<-1, 0>>, <<0, -1>>, <<-1, -1>>, <<-1, 1>>}

\* The colour is on the k-th position from p.
Has(b, p, d, colour, k) == Step(p, d, k) \in Squares /\ b[Step(p, d, k)] = colour

\* Whoever goes far enough leaves the board.
LEMMA LinesEnd ==
    ASSUME NEW p \in Squares, NEW d \in Straight \cup Backward
    PROVE  Step(p, d, BoardSize + 1) \notin Squares
<1>1. BoardSize \in Nat
  BY BoardAssumption
<1>2. p[1] \in 0..(BoardSize - 1) /\ p[2] \in 0..(BoardSize - 1)
  BY DEF Squares
<1>3. Step(p, d, BoardSize + 1) \in Squares =>
          /\ p[1] + (BoardSize + 1) * d[1] \in 0..(BoardSize - 1)
          /\ p[2] + (BoardSize + 1) * d[2] \in 0..(BoardSize - 1)
  BY DEF Step, Squares
<1>4. d[1] = 1 \/ d[1] = -1 \/ d[2] = 1 \/ d[2] = -1
  BY DEF Straight, Backward
<1>5. QED
  BY <1>1, <1>2, <1>3, <1>4

\* What the loops of five count: the colour is on that many positions, and not
\* on the next.
LEMMA FollowProperty ==
    ASSUME NEW b \in Boards, NEW p \in Squares, NEW d \in Straight \cup Backward,
           NEW colour
    PROVE  /\ Follow(b, p, d, colour) \in 0..BoardSize
           /\ \A k \in 1..Follow(b, p, d, colour) : Has(b, p, d, colour, k)
           /\ ~Has(b, p, d, colour, Follow(b, p, d, colour) + 1)
<1> DEFINE Ends(n) == ~Has(b, p, d, colour, n + 1)
           T == {n \in Nat : Ends(n)}
<1>1. BoardSize \in T
  BY LinesEnd, BoardAssumption DEF Has
<1>2. PICK n \in T : \A m \in T : n <= m
  <2> HIDE DEF T
  <2>1. T \in SUBSET Nat
    BY DEF T
  <2>2. QED
    BY <1>1, <2>1, LeastMember
<1>3. n \in 0..BoardSize
  BY <1>1, <1>2, BoardAssumption
<1>4. ASSUME NEW k \in 1..n PROVE Has(b, p, d, colour, k)
  <2>1. k - 1 \in Nat /\ k - 1 < n /\ (k - 1) + 1 = k
    BY <1>2
  <2>2. k - 1 \notin T
    BY <2>1, <1>2
  <2>3. QED
    BY <2>1, <2>2
<1>5. ~Has(b, p, d, colour, n + 1)
  BY <1>2
<1>6. Follow(b, p, d, colour) =
          CHOOSE m \in 0..BoardSize :
             /\ \A k \in 1..m : Has(b, p, d, colour, k)
             /\ ~Has(b, p, d, colour, m + 1)
  BY DEF Follow, Has
<1>7. QED
  <2> HIDE DEF T
  <2> QED
    BY <1>3, <1>4, <1>5, <1>6

\* A step in the other direction is a step back.
LEMMA StepBack ==
    ASSUME NEW p \in Int \X Int, NEW d \in Straight \cup Backward, NEW k \in Int
    PROVE  /\ <<-d[1], -d[2]>> \in Straight \cup Backward
           /\ Step(p, <<-d[1], -d[2]>>, k) = Step(p, d, -k)
<1>1. <<-d[1], -d[2]>> \in Straight \cup Backward
  BY DEF Straight, Backward
<1>2. d[1] \in {-1, 0, 1} /\ d[2] \in {-1, 0, 1}
  BY DEF Straight, Backward
<1>3. k * (-d[1]) = (-k) * d[1] /\ k * (-d[2]) = (-k) * d[2]
  BY <1>2
<1>4. QED
  BY <1>1, <1>3 DEF Step

\* five() is true when the last stone is the j-th of a row of exactly five.
LEMMA FiveProperty ==
    ASSUME NEW b \in Boards, NEW p \in Squares, NEW d \in Straight \cup Backward,
           NEW colour, b[p] = colour
    PROVE  five(b, p, d, colour) <=>
             \E j \in 0..4 : /\ \A i \in 0..4 : Has(b, p, d, colour, i - j)
                             /\ ~Has(b, p, d, colour, -1 - j)
                             /\ ~Has(b, p, d, colour, 5 - j)
<1> DEFINE e == <<-d[1], -d[2]>>
           f == Follow(b, p, d, colour)
           r == Follow(b, p, e, colour)
           On(k) == Has(b, p, d, colour, k)
<1>1. p \in Int \X Int
  BY BoardAssumption DEF Squares
<1>2. /\ f \in Nat /\ ~On(f + 1)
      /\ \A k \in 1..f : On(k)
  BY FollowProperty, BoardAssumption
<1>3. /\ r \in Nat /\ ~On(-1 - r)
      /\ \A k \in 1..r : On(-k)
  <2>1. e \in Straight \cup Backward
    BY <1>1, StepBack
  <2>2. /\ r \in Nat /\ ~Has(b, p, e, colour, r + 1)
        /\ \A k \in 1..r : Has(b, p, e, colour, k)
    <3> HIDE DEF e
    <3> QED
      BY <2>1, FollowProperty, BoardAssumption
  <2>3. ASSUME NEW k \in Int PROVE Has(b, p, e, colour, k) <=> On(-k)
    BY <1>1, StepBack DEF Has
  <2> HIDE DEF r, On, e
  <2>4. r + 1 \in Int /\ -(r + 1) = -1 - r
    BY <2>2
  <2>5. QED
    BY <2>2, <2>3, <2>4
<1>4. On(0)
  <2>1. Step(p, d, 0) = p
    BY <1>1 DEF Step, Straight, Backward
  <2>2. QED
    BY <2>1 DEF Has
<1>5. five(b, p, d, colour) <=> 1 + f + r = 5
  BY DEF five, CountBack
<1> HIDE DEF On, f, r, e
<1>6. ASSUME 1 + f + r = 5
      PROVE  \E j \in 0..4 : (\A i \in 0..4 : On(i - j)) /\ ~On(-1 - j) /\ ~On(5 - j)
  <2>1. r \in 0..4 /\ 5 - r = f + 1
    BY <1>6, <1>2, <1>3
  <2>2. ASSUME NEW i \in 0..4 PROVE On(i - r)
    <3>1. CASE i < r
      <4>1. r - i \in 1..r /\ i - r = -(r - i)
        BY <3>1, <2>1
      <4>2. QED
        BY <4>1, <1>3
    <3>2. CASE i = r
      BY <3>2, <2>1, <1>4
    <3>3. CASE i > r
      <4>1. i - r \in 1..f
        BY <3>3, <2>1, <1>6, <1>2
      <4>2. QED
        BY <4>1, <1>2
    <3>4. QED
      BY <3>1, <3>2, <3>3, <2>1
  <2>3. QED
    BY <2>1, <2>2, <1>2, <1>3
<1>7. ASSUME NEW j \in 0..4, \A i \in 0..4 : On(i - j), ~On(-1 - j), ~On(5 - j)
      PROVE  1 + f + r = 5
  <2>1. ASSUME f < 4 - j PROVE FALSE
    <3>1. f + 1 + j \in 0..4 /\ (f + 1 + j) - j = f + 1
      BY <2>1, <1>2
    <3>2. QED
      BY <3>1, <1>7, <1>2
  <2>2. ASSUME f > 4 - j PROVE FALSE
    <3>1. 5 - j \in 1..f
      BY <2>2, <1>2
    <3>2. QED
      BY <3>1, <1>7, <1>2
  <2>3. ASSUME r < j PROVE FALSE
    <3>1. j - 1 - r \in 0..4 /\ (j - 1 - r) - j = -1 - r
      BY <2>3, <1>3
    <3>2. QED
      BY <3>1, <1>7, <1>3
  <2>4. ASSUME r > j PROVE FALSE
    <3>1. j + 1 \in 1..r /\ -(j + 1) = -1 - j
      BY <2>4, <1>3
    <3>2. QED
      BY <3>1, <1>7, <1>3
  <2>5. QED
    BY <2>1, <2>2, <2>3, <2>4, <1>2, <1>3
<1>8. QED
  <2>1. five(b, p, d, colour) <=>
          \E j \in 0..4 : (\A i \in 0..4 : On(i - j)) /\ ~On(-1 - j) /\ ~On(5 - j)
    BY <1>5, <1>6, <1>7
  <2>2. QED
    BY <2>1 DEF On

-----------------------------------------------------------------------------
\* The other way along a line the same stones are counted, so checkWin asks for
\* every line through the last stone.
LEMMA LinesProperty ==
    ASSUME NEW b \in Boards, NEW p \in Squares, NEW colour
    PROVE  checkWin(b, p, colour) <=> \E d \in Straight : five(b, p, d, colour)
<1>1. ASSUME NEW d \in Straight, NEW e \in Backward,
             <<-d[1], -d[2]>> = e, <<-e[1], -e[2]>> = d
      PROVE  five(b, p, e, colour) <=> five(b, p, d, colour)
  <2>1. /\ CountBack(b, p, d, colour) = Follow(b, p, e, colour)
        /\ CountBack(b, p, e, colour) = Follow(b, p, d, colour)
    BY <1>1 DEF CountBack
  <2>2. Follow(b, p, d, colour) \in Int /\ Follow(b, p, e, colour) \in Int
    BY FollowProperty, BoardAssumption
  <2>3. QED
    BY <2>1, <2>2 DEF five
<1>2. five(b, p, <<-1, -1>>, colour) <=> five(b, p, <<1, 1>>, colour)
  <2> DEFINE d == <<1, 1>>
             e == <<-1, -1>>
  <2>1. d \in Straight /\ e \in Backward
    BY DEF Straight, Backward
  <2>2. /\ d[1] \in Int /\ e[1] \in Int /\ d[1] + e[1] = 0
        /\ d[2] \in Int /\ e[2] \in Int /\ d[2] + e[2] = 0
        /\ d = <<d[1], d[2]>> /\ e = <<e[1], e[2]>>
    OBVIOUS
  <2> HIDE DEF d, e
  <2>3. -d[1] = e[1] /\ -d[2] = e[2] /\ -e[1] = d[1] /\ -e[2] = d[2]
    BY <2>2
  <2>4. <<-d[1], -d[2]>> = e /\ <<-e[1], -e[2]>> = d
    BY <2>2, <2>3, Zenon
  <2>5. five(b, p, e, colour) <=> five(b, p, d, colour)
    BY <1>1, <2>1, <2>4
  <2>6. QED
    BY <2>5 DEF d, e
<1>3. five(b, p, <<-1, 1>>, colour) <=> five(b, p, <<1, -1>>, colour)
  <2> DEFINE d == <<1, -1>>
             e == <<-1, 1>>
  <2>1. d \in Straight /\ e \in Backward
    BY DEF Straight, Backward
  <2>2. /\ d[1] \in Int /\ e[1] \in Int /\ d[1] + e[1] = 0
        /\ d[2] \in Int /\ e[2] \in Int /\ d[2] + e[2] = 0
        /\ d = <<d[1], d[2]>> /\ e = <<e[1], e[2]>>
    OBVIOUS
  <2> HIDE DEF d, e
  <2>3. -d[1] = e[1] /\ -d[2] = e[2] /\ -e[1] = d[1] /\ -e[2] = d[2]
    BY <2>2
  <2>4. <<-d[1], -d[2]>> = e /\ <<-e[1], -e[2]>> = d
    BY <2>2, <2>3, Zenon
  <2>5. five(b, p, e, colour) <=> five(b, p, d, colour)
    BY <1>1, <2>1, <2>4
  <2>6. QED
    BY <2>5 DEF d, e
<1>4. QED
  BY <1>2, <1>3 DEF checkWin, Directions, Straight

\* Every stone is on one of the positions of this game.
Placed == \A p \in Squares : board[p] # None => p \in positions
Typed ==
    /\ positions \subseteq Squares /\ board \in Boards
    /\ turn \in {"whiteId", "blackId"} /\ winner \in {None, White, Black}
Balanced ==
    LET Stones(colour) == Cardinality({p \in Squares : board[p] = colour})
    IN  Stones(White) - Stones(Black) \in
            IF turn = "whiteId" THEN {-1, 0} ELSE {0, 1}
BoardInv == Typed /\ Placed /\ WinIsRowOfFive

LEMMA BoardInitially == BoardInit => BoardInv /\ Balanced
<1> SUFFICES ASSUME BoardInit PROVE BoardInv /\ Balanced
  OBVIOUS
<1>1. Typed /\ Placed
  BY BoardAssumption DEF BoardInit, Typed, Placed, Boards, Squares
<1>2. ASSUME NEW colour \in {White, Black} PROVE ~RowOfFive(colour)
  <2>1. ASSUME NEW p, NEW d, \A q \in Line(p, d) : Owns(colour, q) PROVE FALSE
    <3>1. Step(p, d, 0) \in Line(p, d)
      BY DEF Line
    <3>2. QED
      BY <2>1, <3>1 DEF Owns, BoardInit, None, White, Black
  <2>2. QED
    BY <2>1 DEF RowOfFive
<1>3. WinIsRowOfFive
  BY <1>2 DEF WinIsRowOfFive, BoardInit, None, White, Black
<1>4. ASSUME NEW colour \in {White, Black}
      PROVE  Cardinality({p \in Squares : board[p] = colour}) = 0
  <2>1. {p \in Squares : board[p] = colour} = {}
    BY DEF BoardInit, None, White, Black
  <2>2. QED
    BY <2>1, FS_EmptySet
<1>5. Balanced
  BY <1>4, <1>1 DEF Balanced, Typed
<1>6. QED
  BY <1>1, <1>3, <1>5 DEF BoardInv

-----------------------------------------------------------------------------
\* A row on board b whose first stone is on one of the positions P, ...
RowIn(b, P, colour) ==
    \E q \in P : \E d \in Straight :
        /\ \A i \in 0..4 : Has(b, q, d, colour, i)
        /\ ~Has(b, q, d, colour, -1)
        /\ ~Has(b, q, d, colour, 5)

\* ... which is what RowOfFive says of the board, ...
LEMMA RowsOfBoard ==
    ASSUME NEW colour
    PROVE  /\ RowOfFive(colour) <=> RowIn(board, positions, colour)
           /\ RowOfFive(colour)' <=> RowIn(board', positions', colour)
<1>1. ASSUME NEW p, NEW d
      PROVE  /\ (\A q \in Line(p, d) : Owns(colour, q))
                  <=> (\A i \in 0..4 : Has(board, p, d, colour, i))
             /\ (\A q \in Line(p, d) : Owns(colour, q)')
                  <=> (\A i \in 0..4 : Has(board', p, d, colour, i))
  BY DEF Line, Owns, Has
<1>2. QED
  BY <1>1 DEF RowOfFive, RowIn, Owns, Has, Straight

\* ... and what it is from one of its five stones.
RowThrough(b, p, d, colour, j) ==
    /\ \A i \in 0..4 : Has(b, p, d, colour, i - j)
    /\ ~Has(b, p, d, colour, -1 - j)
    /\ ~Has(b, p, d, colour, 5 - j)

LEMMA StepsAddUp ==
    ASSUME NEW p \in Int \X Int, NEW d \in Straight, NEW i \in Int, NEW j \in Int
    PROVE  /\ Step(Step(p, d, j), d, i) = Step(p, d, i + j)
           /\ Step(p, d, j) \in Int \X Int
           /\ Step(p, d, 0) = p
BY DEF Step, Straight

\* The same row from its first and from its j-th stone.
LEMMA SameRow ==
    ASSUME NEW b, NEW q \in Int \X Int, NEW d \in Straight, NEW colour,
           NEW j \in 0..4
    PROVE  /\ \A i \in 0..4 : Has(b, q, d, colour, i)
           /\ ~Has(b, q, d, colour, -1)
           /\ ~Has(b, q, d, colour, 5)
           <=> RowThrough(b, Step(q, d, j), d, colour, j)
<1>1. ASSUME NEW i \in Int
      PROVE  Has(b, Step(q, d, j), d, colour, i - j) <=> Has(b, q, d, colour, i)
  <2>1. i - j \in Int /\ j \in Int /\ (i - j) + j = i
    OBVIOUS
  <2>2. Step(Step(q, d, j), d, i - j) = Step(q, d, i)
    BY <2>1, StepsAddUp
  <2>3. QED
    BY <2>2 DEF Has
<1>2. QED
  BY <1>1 DEF RowThrough

\* All stones are on the positions P; c is b with a stone more.
StonesOn(b, P) == \A s \in Squares : b[s] # None => s \in P
Puts(b, c, p, colour) ==
    /\ b[p] = None /\ c[p] = colour
    /\ \A s \in Squares : s # p => c[s] = b[s]

\* A stone makes a row of its own colour exactly when five() finds one through
\* it, and none of the other colour.
LEMMA StoneMakesRow ==
    ASSUME NEW b \in Boards, NEW P \in SUBSET Squares, NEW p \in P, StonesOn(b, P),
           NEW colour \in {White, Black}, NEW other \in {White, Black},
           other # colour,
           ~RowIn(b, P, White), ~RowIn(b, P, Black),
           NEW c \in Boards, Puts(b, c, p, colour)
    PROVE  /\ checkWin(c, p, colour) <=> RowIn(c, P, colour)
           /\ ~RowIn(c, P, other)
<1>1. c[p] = colour /\ b[p] = None /\ p \in Squares /\ p \in Int \X Int
  BY BoardAssumption DEF Squares, Puts
<1>2. /\ \A s \in Squares : s # p => c[s] = b[s]
      /\ \A s \in Squares : b[s] # None => s \in P
  BY DEF Puts, StonesOn
<1>3. checkWin(c, p, colour)
        <=> \E d \in Straight : \E j \in 0..4 : RowThrough(c, p, d, colour, j)
  <2>1. ASSUME NEW d \in Straight
        PROVE  five(c, p, d, colour) <=> \E j \in 0..4 : RowThrough(c, p, d, colour, j)
    BY <1>1, FiveProperty DEF RowThrough
  <2>2. QED
    BY <1>1, <2>1, LinesProperty
<1>4. ASSUME NEW d \in Straight, NEW j \in 0..4, RowThrough(c, p, d, colour, j)
      PROVE  RowIn(c, P, colour)
  <2> DEFINE q == Step(p, d, -j)
  <2>1. q \in Int \X Int /\ Step(q, d, j) = p
    <3>1. -j \in Int /\ j \in Int /\ j + (-j) = 0
      OBVIOUS
    <3>2. QED
      BY <3>1, <1>1, StepsAddUp
  <2>2. q \in P
    <3>1. Has(c, p, d, colour, 0 - j) /\ 0 - j = -j
      BY <1>4 DEF RowThrough
    <3>2. q \in Squares /\ c[q] = colour
      BY <3>1 DEF Has
    <3>3. CASE q = p
      BY <3>3
    <3>4. CASE q # p
      <4>1. b[q] # None
        BY <3>2, <3>4, <1>2 DEF None, White, Black
      <4>2. QED
        BY <4>1, <3>2, <1>2
    <3>5. QED
      BY <3>3, <3>4
  <2> HIDE DEF q
  <2>3. QED
    BY <2>1, <2>2, <1>4, SameRow DEF RowIn
<1>5. ASSUME NEW k \in {White, Black}, NEW q \in P, NEW d \in Straight,
             \A i \in 0..4 : Has(c, q, d, k, i), ~Has(c, q, d, k, -1),
             ~Has(c, q, d, k, 5)
      PROVE  k = colour /\ \E j \in 0..4 : p = Step(q, d, j)
  <2>1. SUFFICES ASSUME k # colour \/ \A j \in 0..4 : p # Step(q, d, j)
                 PROVE  FALSE
    OBVIOUS
  <2>2. ASSUME NEW i \in 0..4 PROVE Step(q, d, i) \in Squares /\ Step(q, d, i) # p
    BY <1>5, <2>1, <1>1 DEF Has
  <2>3. ASSUME NEW i \in 0..4 PROVE Has(b, q, d, k, i)
    BY <2>2, <1>5, <1>2 DEF Has
  <2>4. ASSUME NEW i \in {-1, 5} PROVE ~Has(b, q, d, k, i)
    BY <1>5, <1>1, <1>2 DEF Has, None, White, Black
  <2>5. RowIn(b, P, k)
    BY <2>3, <2>4 DEF RowIn
  <2>6. QED
    BY <2>5
<1>6. ASSUME RowIn(c, P, colour)
      PROVE  \E d \in Straight : \E j \in 0..4 : RowThrough(c, p, d, colour, j)
  <2>1. PICK q \in P : \E d \in Straight :
            /\ \A i \in 0..4 : Has(c, q, d, colour, i)
            /\ ~Has(c, q, d, colour, -1)
            /\ ~Has(c, q, d, colour, 5)
    BY <1>6 DEF RowIn
  <2>2. PICK d \in Straight :
            /\ \A i \in 0..4 : Has(c, q, d, colour, i)
            /\ ~Has(c, q, d, colour, -1)
            /\ ~Has(c, q, d, colour, 5)
    BY <2>1
  <2>3. PICK j \in 0..4 : p = Step(q, d, j)
    BY <2>2, <1>5
  <2>4. q \in Int \X Int
    BY BoardAssumption DEF Squares
  <2>5. RowThrough(c, p, d, colour, j)
    BY <2>2, <2>3, <2>4, SameRow
  <2>6. QED
    BY <2>5
<1>7. ~RowIn(c, P, other)
  BY <1>5 DEF RowIn
<1>8. QED
  BY <1>3, <1>4, <1>6, <1>7

-----------------------------------------------------------------------------
LEMMA BoardStep == BoardInv /\ [BoardNext]_boardVars => BoardInv'
<1> SUFFICES ASSUME BoardInv, [BoardNext]_boardVars PROVE BoardInv'
  OBVIOUS
<1> USE DEF BoardInv
<1>1. CASE UNCHANGED boardVars
  BY <1>1 DEF boardVars, Typed, Placed, WinIsRowOfFive, RowOfFive, Line, Owns
<1>2. CASE BoardNext
  <2>1. PICK p \in positions : board[p] = None /\ handleChess(p)
    BY <1>2 DEF BoardNext
  <2>2. winner = None /\ positions' = positions
    BY <1>2 DEF BoardNext
  <2>a. PICK colour \in {White, Black} : colour = chess(turn)
    BY DEF chess
  <2>b. PICK other \in {White, Black} : other # colour
    BY DEF White, Black
  <2>3. {White, Black} = {colour, other} /\ other # None /\ colour # None
    BY <2>b DEF White, Black, None
  <2>4. /\ board' = [board EXCEPT ![p] = colour]
        /\ winner' = IF checkWin(board', p, colour) THEN colour ELSE None
        /\ turn' = IF turn = "whiteId" THEN "blackId" ELSE "whiteId"
    BY <2>1, <2>a DEF handleChess
  <2>5. Typed' /\ Placed'
    BY <2>1, <2>2, <2>3, <2>4 DEF Typed, Placed, Boards
  <2>6. ~RowIn(board, positions, White) /\ ~RowIn(board, positions, Black)
    BY <2>2, RowsOfBoard DEF WinIsRowOfFive, None, White, Black
  <2>c. /\ board \in Boards /\ positions \in SUBSET Squares
        /\ \A s \in Squares : board[s] # None => s \in positions
    BY DEF Typed, Placed
  <2>7. /\ checkWin(board', p, colour) <=> RowIn(board', positions, colour)
        /\ ~RowIn(board', positions, other)
    <3>1. PICK b, P, c : b = board /\ P = positions /\ c = board'
      OBVIOUS
    <3>2. /\ b \in Boards /\ P \in SUBSET Squares /\ p \in P
          /\ ~RowIn(b, P, White) /\ ~RowIn(b, P, Black)
      BY <2>c, <2>6, <3>1
    <3>3. StonesOn(b, P)
      BY <2>c, <3>1 DEF StonesOn
    <3>4. c \in Boards /\ Puts(b, c, p, colour)
      BY <2>1, <2>c, <2>4, <2>a, <3>1 DEF Puts, Boards
    <3>5. /\ checkWin(c, p, colour) <=> RowIn(c, P, colour)
          /\ ~RowIn(c, P, other)
      BY <3>2, <3>3, <3>4, <2>a, <2>b, StoneMakesRow
    <3>6. QED
      BY <3>1, <3>5
  <2>8. /\ (winner' = colour) <=> RowOfFive(colour)'
        /\ ~RowOfFive(other)' /\ winner' # other
    <3>1. /\ RowOfFive(colour)' <=> RowIn(board', positions, colour)
          /\ RowOfFive(other)' <=> RowIn(board', positions, other)
      BY <2>2, RowsOfBoard
    <3>2. QED
      BY <3>1, <2>b, <2>3, <2>4, <2>7
  <2>9. WinIsRowOfFive'
    BY <2>3, <2>8 DEF WinIsRowOfFive
  <2>10. QED
    BY <2>5, <2>9
<1>3. QED
  BY <1>1, <1>2

\* One stone more of one colour, by turns.
LEMMA BalanceStep == BoardInv /\ Balanced /\ [BoardNext]_boardVars => Balanced'
<1> SUFFICES ASSUME BoardInv, Balanced, [BoardNext]_boardVars PROVE Balanced'
  OBVIOUS
<1> DEFINE Stones(b, colour) == {s \in Squares : b[s] = colour}
<1>1. CASE UNCHANGED boardVars
  BY <1>1 DEF boardVars, Balanced
<1>2. CASE BoardNext
  <2>1. PICK p \in positions : board[p] = None /\ handleChess(p)
    BY <1>2 DEF BoardNext
  <2>2. p \in Squares /\ board \in Boards /\ turn \in {"whiteId", "blackId"}
    BY <2>1 DEF BoardInv, Typed
  <2>3. ASSUME NEW colour PROVE IsFiniteSet(Stones(board, colour))
    <3>1. IsFiniteSet(0..(BoardSize - 1))
      BY BoardAssumption, FS_Interval
    <3>2. IsFiniteSet(Squares)
      BY <3>1, FS_Product DEF Squares
    <3>3. QED
      BY <3>2, FS_Subset
  <2>4. ASSUME NEW colour \in {White, Black}
        PROVE  /\ Cardinality(Stones(board, colour)) \in Nat
               /\ Cardinality(Stones(board', colour)) =
                      IF colour = chess(turn) THEN Cardinality(Stones(board, colour)) + 1
                                              ELSE Cardinality(Stones(board, colour))
    <3>1. CASE colour = chess(turn)
      <4>1. Stones(board', colour) = Stones(board, colour) \cup {p}
        BY <2>1, <2>2, <3>1 DEF handleChess, Boards
      <4>2. p \notin Stones(board, colour)
        BY <2>1 DEF None, White, Black
      <4>3. QED
        BY <4>1, <4>2, <3>1, <2>3, FS_AddElement, FS_CardinalityType
    <3>2. CASE colour # chess(turn)
      <4>1. Stones(board', colour) = Stones(board, colour)
        BY <2>1, <2>2, <3>2 DEF handleChess, Boards, None, White, Black
      <4>2. QED
        BY <4>1, <3>2, <2>3, FS_CardinalityType
    <3>3. QED
      BY <3>1, <3>2
  <2>5. turn' = IF turn = "whiteId" THEN "blackId" ELSE "whiteId"
    BY <2>1 DEF handleChess
  <2>6. Cardinality(Stones(board, White)) - Cardinality(Stones(board, Black)) \in
            IF turn = "whiteId" THEN {-1, 0} ELSE {0, 1}
    BY DEF Balanced
  <2>7. Cardinality(Stones(board', White)) - Cardinality(Stones(board', Black)) \in
            IF turn' = "whiteId" THEN {-1, 0} ELSE {0, 1}
    <3> DEFINE w == Cardinality(Stones(board, White))
               b == Cardinality(Stones(board, Black))
    <3>1. w \in Nat /\ b \in Nat
      BY <2>4
    <3>2. CASE turn = "whiteId"
      <4>1. /\ Cardinality(Stones(board', White)) = w + 1
            /\ Cardinality(Stones(board', Black)) = b
        BY <2>4, <3>2 DEF chess, White, Black
      <4> HIDE DEF w, b
      <4>2. w - b \in {-1, 0}
        BY <2>6, <3>2 DEF w, b
      <4>3. (w + 1) - b \in {0, 1}
        BY <3>1, <4>2
      <4>4. QED
        BY <4>1, <4>3, <2>5, <3>2
    <3>3. CASE turn = "blackId"
      <4>1. /\ Cardinality(Stones(board', White)) = w
            /\ Cardinality(Stones(board', Black)) = b + 1
        BY <2>4, <3>3 DEF chess, White, Black
      <4> HIDE DEF w, b
      <4>2. w - b \in {0, 1}
        BY <2>6, <3>3 DEF w, b
      <4>3. w - (b + 1) \in {-1, 0}
        BY <3>1, <4>2
      <4>4. QED
        BY <4>1, <4>3, <2>5, <3>3
    <3>4. QED
      BY <3>2, <3>3, <2>2
  <2>8. QED
    BY <2>7 DEF Balanced
<1>3. QED
  BY <1>1, <1>2

\* Every variable keeps its type and the players' stones differ by at most one
\* (handleChess, GameRoomInfo.cc:29).
THEOREM BoardTypeCorrect == BoardSpec => []BoardTypeOK
<1>1. BoardInit => positions \in Layouts
  BY DEF BoardInit
<1>2. positions \in Layouts /\ [BoardNext]_boardVars => (positions \in Layouts)'
  BY DEF BoardNext, handleChess, boardVars
<1>3. positions \in Layouts /\ BoardInv /\ Balanced => BoardTypeOK
  <2> SUFFICES ASSUME positions \in Layouts, BoardInv, Balanced PROVE BoardTypeOK
    OBVIOUS
  <2>1. /\ board \in [Squares -> {None, White, Black}]
        /\ turn \in {"whiteId", "blackId"} /\ winner \in {None, White, Black}
    BY DEF BoardInv, Typed, Boards
  <2>2. Cardinality({p \in Squares : board[p] = White})
          - Cardinality({p \in Squares : board[p] = Black}) \in {-1, 0, 1}
    BY <2>1 DEF Balanced
  <2>3. QED
    BY <2>1, <2>2 DEF BoardTypeOK
<1>4. QED
  BY BoardInitially, BoardStep, BalanceStep, <1>1, <1>2, <1>3, PTL DEF BoardSpec

\* handleChess reports a win exactly when the player has a row of exactly five
\* (checkWin, GameRoomInfo.cc:88), on a board of any size.
THEOREM WinsAreRowsOfFive == BoardSpec => []WinIsRowOfFive
<1>1. BoardInv => WinIsRowOfFive
  BY DEF BoardInv
<1>2. QED
  BY BoardInitially, BoardStep, <1>1, PTL DEF BoardSpec
=============================================================================
