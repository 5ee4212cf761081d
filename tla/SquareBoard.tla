----------------------------- MODULE SquareBoard -----------------------------
(***************************************************************************)
(* What the squares of a pool promise to the people who play: the board    *)
(* changes in single steps, each made by one user.  Anyone may take free   *)
(* squares, an owner may give up claims that are not paid, and a manager   *)
(* may rewrite squares.  PoolSquares implements this with interleaved      *)
(* requests, stale copies, row locks and rollbacks.                        *)
(***************************************************************************)
EXTENDS Naturals

CONSTANTS Users, Managers, Squares, Names, Roll100, None

States == {"unclaimed", "claimed", "paid-partial", "paid-full"}

Free == [state |-> "unclaimed", claimant |-> None, owner |-> None, parent |-> None]

Taken == [state : States \ {"unclaimed"}, claimant : Names, owner : Users,
          parent : Squares \cup {None}]

VARIABLE board

Init == board = [s \in Squares |-> Free]

Claim(u, n, parent) ==
  [state |-> "claimed", claimant |-> n, owner |-> u, parent |-> parent]

\* u takes the free square s.
TakeOne(u, s, n) ==
  /\ board[s] = Free
  /\ board' = [board EXCEPT ![s] = Claim(u, n, None)]

\* u takes two free squares together, the second as secondary of the first.
TakeTwo(u, s, second, n) ==
  /\ Roll100
  /\ s # second
  /\ board[s] = Free
  /\ board[second] = Free
  /\ board' = [board EXCEPT ![s] = Claim(u, n, None), ![second] = Claim(u, n, s)]

\* u gives up unpaid claims, and only claims of u.
GiveUp(u) ==
  \E given \in SUBSET Squares :
    /\ \A s \in given : board[s].owner = u /\ board[s].state = "claimed"
    /\ board' = [s \in Squares |-> IF s \in given THEN Free ELSE board[s]]

\* A manager frees squares or rewrites them; he never links one to another.
Administer ==
  /\ Managers # {}
  /\ board' \in [Squares -> Taken \cup {Free}]
  /\ \A s \in Squares : board'[s].parent \in {board[s].parent, None}

Next ==
  \/ \E u \in Users, s \in Squares, n \in Names :
       \/ TakeOne(u, s, n)
       \/ \E second \in Squares : TakeTwo(u, s, second, n)
  \/ \E u \in Users : GiveUp(u)
  \/ Administer

Spec == Init /\ [][Next]_board
=============================================================================
