----------------------------- MODULE Positions -----------------------------
(***************************************************************************)
(* Moving one of the items of an ordered list of a dialplan to another     *)
(* position.  The rows in the database and the objects in memory are moved *)
(* by different algorithms; both are functions of the positions pos of an  *)
(* item n and of its siblings.  The place to move to is any but 0, also a  *)
(* negative one.  (The statements are those of the global variables too,   *)
(* which have no second algorithm: they are read again from the table.)    *)
(***************************************************************************)
EXTENDS Integers

(* The statements of the transaction: make room behind the new place, put  *)
(* the item there, close the gap at its old place, which is the one it has *)
(* in memory.  Rows move in two halves, through negative positions, so     *)
(* that no two meet; the second half takes whatever is negative (in the    *)
(* whole table: what is left there by a move is not).                      *)
Behind(pos, place, step) ==
  [m \in DOMAIN pos |-> IF pos[m] > place THEN -(pos[m] + step) ELSE pos[m]]

Flipped(pos) == [m \in DOMAIN pos |-> IF pos[m] < 0 THEN -pos[m] ELSE pos[m]]

MakeRoom(pos, old, to) == Flipped(Behind(pos, IF old > to THEN to - 1 ELSE to, 1))

Put(pos, n, old, to) ==
  [MakeRoom(pos, old, to) EXCEPT ![n] = IF old > to THEN to ELSE to + 1]

MoveRows(pos, n, old, to) == Flipped(Behind(Put(pos, n, old, to), old, -1))

(* In memory the items between the two places step aside.                  *)
MoveObjects(pos, n, to) ==
  [m \in DOMAIN pos |->
     IF m = n THEN to
     ELSE IF pos[n] > to /\ pos[m] >= to /\ pos[m] < pos[n] THEN pos[m] + 1
     ELSE IF pos[n] <= to /\ pos[m] > pos[n] /\ pos[m] <= to THEN pos[m] - 1
     ELSE pos[m]]
=============================================================================
