------------------------------ MODULE Threads -------------------------------
(***************************************************************************)
(* What the server's modules share: the IO loops, the match thread, the    *)
(* user ids and the values that stand for "no user" and "not locked".      *)
(***************************************************************************)
CONSTANTS
    Loop,        \* the IO event loops (threads)
    Matcher,     \* the match thread
    User,        \* user ids of registered accounts
    NoUser,      \* user id 0
    NoThread     \* an unlocked mutex

ASSUME ThreadsAssumption ==
    /\ Matcher \notin Loop
    /\ NoThread \notin Loop \cup {Matcher}
    /\ NoUser \notin User
=============================================================================
