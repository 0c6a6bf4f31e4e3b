----------------------------- MODULE BoseNelson ------------------------------
(***************************************************************************)
(* The sorting networks of Bose and Nelson that                            *)
(* src/deprecated/palgorithm/bose-nelson generates: for each size a list   *)
(* of pairs of positions, from 0, to be compared and exchanged in turn.    *)
(***************************************************************************)
EXTENDS Integers, Sequences

P(i, j) == << <<i, j>> >>

(* Merges x sorted items from position i on with y from position j on. *)
Pbracket[a \in Nat \X Nat \X Nat \X Nat] ==
  LET i == a[1]  x == a[2]  j == a[3]  y == a[4]
      half == x \div 2
      other == IF x % 2 = 1 THEN y \div 2 ELSE (y + 1) \div 2
  IN  IF x = 1 /\ y = 1 THEN P(i, j)
      ELSE IF x = 1 /\ y = 2 THEN P(i, j + 1) \o P(i, j)
      ELSE IF x = 2 /\ y = 1 THEN P(i, j) \o P(i + 1, j)
      ELSE Pbracket[<<i, half, j, other>>]
             \o Pbracket[<<i + half, x - half, j + other, y - other>>]
             \o Pbracket[<<i + half, x - half, j, other>>]

(* Sorts m items from position i on. *)
Pstar[a \in Nat \X Nat] ==
  LET i == a[1]  m == a[2]  half == m \div 2
  IN  IF m <= 1 THEN <<>>
      ELSE Pstar[<<i, half>>] \o Pstar[<<i + half, m - half>>]
             \o Pbracket[<<i, half, i + half, m - half>>]

Swaps(n) == Pstar[<<0, n>>]

=============================================================================
