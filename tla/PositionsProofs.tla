-------------------------- MODULE PositionsProofs --------------------------
(***************************************************************************)
(* The two algorithms of Positions agree, and keep positions apart, for    *)
(* any list, also one with gaps, which deletions leave, and for any        *)
(* positive place to move to, also one behind the last item.  For a        *)
(* negative place, which the requests let through, they do not agree.      *)
(***************************************************************************)
EXTENDS Positions, TLAPS

Distinct(pos) == \A m, k \in DOMAIN pos : pos[m] = pos[k] => m = k

(* The transaction of db.Move* and the loop after it (db/dialplanDb.go)    *)
(* give every row and every object of the list the same position, if they  *)
(* had the same before and the place to move to is positive.               *)
THEOREM MovesAgree ==
  ASSUME NEW S, NEW pos \in [S -> Nat \ {0}], Distinct(pos),
         NEW n \in S, NEW to \in Nat \ {0}
  PROVE  MoveRows(pos, n, pos[n], to) = MoveObjects(pos, n, to)
<1>1. ASSUME NEW m \in S
      PROVE  MoveRows(pos, n, pos[n], to)[m] = MoveObjects(pos, n, to)[m]
  <2>1. pos[m] \in Nat \ {0} /\ pos[n] \in Nat \ {0}
    OBVIOUS
  <2>2. CASE m = n
    BY <2>1, <2>2 DEF MoveRows, MoveObjects, Put, MakeRoom, Behind, Flipped
  <2>3. CASE m # n
    <3>1. pos[m] # pos[n]
      BY <2>3 DEF Distinct
    <3>2. QED
      BY <2>1, <2>3, <3>1 DEF MoveRows, MoveObjects, Put, MakeRoom, Behind, Flipped
  <2>4. QED
    BY <2>2, <2>3
<1>2. /\ MoveRows(pos, n, pos[n], to) = [m \in S |-> MoveRows(pos, n, pos[n], to)[m]]
      /\ MoveObjects(pos, n, to) = [m \in S |-> MoveObjects(pos, n, to)[m]]
  BY DEF MoveRows, MoveObjects, Put, MakeRoom, Behind, Flipped
<1>3. QED
  BY <1>1, <1>2

(* The handlers refuse only 0 (web/dialplanWs.go).  Of an item sent to a   *)
(* negative place the row ends at the positive one, as the last statement  *)
(* flips it, with the rows that were before it one further; the object has *)
(* the negative one until the next start.                                  *)
THEOREM NegativePlacesDisagree ==
  ASSUME NEW S, NEW pos \in [S -> Nat \ {0}], Distinct(pos),
         NEW n \in S, NEW to \in Int, to < 0
  PROVE  /\ MoveRows(pos, n, pos[n], to)[n] = -to
         /\ MoveObjects(pos, n, to)[n] = to
         /\ \A m \in S \ {n} :
              MoveRows(pos, n, pos[n], to)[m] = IF pos[m] < pos[n] THEN pos[m] + 1 ELSE pos[m]
<1>1. pos[n] \in Nat \ {0} /\ to - 1 < 0
  OBVIOUS
<1>2. /\ MoveRows(pos, n, pos[n], to)[n] = -to
      /\ MoveObjects(pos, n, to)[n] = to
  BY <1>1 DEF MoveRows, MoveObjects, Put, MakeRoom, Behind, Flipped
<1>3. ASSUME NEW m \in S \ {n}
      PROVE  MoveRows(pos, n, pos[n], to)[m] = IF pos[m] < pos[n] THEN pos[m] + 1 ELSE pos[m]
  <2>1. pos[m] \in Nat \ {0} /\ pos[m] # pos[n]
    BY DEF Distinct
  <2>2. QED
    BY <1>1, <2>1 DEF MoveRows, Put, MakeRoom, Behind, Flipped
<1>4. QED
  BY <1>2, <1>3

(* Whatever the place, no position in the table is left negative.          *)
LEMMA RowsArePositive ==
  ASSUME NEW S, NEW pos \in [S -> Int], NEW n \in S, NEW old \in Int, NEW to \in Int
  PROVE  MoveRows(pos, n, old, to) \in [S -> Nat]
<1> DEFINE put == Put(pos, n, old, to)
           behind == Behind(put, old, -1)
<1>1. put \in [S -> Int]
  BY DEF Put, MakeRoom, Flipped, Behind
<1> HIDE DEF put
<1>2. behind \in [S -> Int]
  BY <1>1 DEF Behind
<1> HIDE DEF behind
<1>3. Flipped(behind) \in [S -> Nat]
  BY <1>2 DEF Flipped
<1>4. QED
  BY <1>3 DEF MoveRows, behind, put

(* After a move to a positive place no two items share a position, and     *)
(* every position is still one that a client may name.                     *)
THEOREM MoveKeepsApart ==
  ASSUME NEW S, NEW pos \in [S -> Nat \ {0}], Distinct(pos),
         NEW n \in S, NEW to \in Nat \ {0}
  PROVE  /\ MoveObjects(pos, n, to) \in [S -> Nat \ {0}]
         /\ Distinct(MoveObjects(pos, n, to))
<1> DEFINE new == MoveObjects(pos, n, to)
<1>1. \A m \in S : new[m] \in Nat \ {0}
  <2>1. TAKE m \in S
  <2>2. pos[m] \in Nat \ {0} /\ pos[n] \in Nat \ {0}
    OBVIOUS
  <2>3. QED
    BY <2>2 DEF MoveObjects
<1>2. ASSUME NEW m \in S, NEW k \in S, new[m] = new[k], m # k
      PROVE  FALSE
  <2>1. /\ pos[m] \in Nat \ {0} /\ pos[k] \in Nat \ {0} /\ pos[n] \in Nat \ {0}
        /\ pos[m] # pos[k]
    BY <1>2 DEF Distinct
  <2>2. /\ m # n => pos[m] # pos[n]
        /\ k # n => pos[k] # pos[n]
    BY DEF Distinct
  <2>3. QED
    BY <1>2, <2>1, <2>2 DEF MoveObjects
<1>3. new \in [S -> Nat \ {0}] /\ DOMAIN new = S
  BY <1>1 DEF MoveObjects
<1>4. QED
  BY <1>2, <1>3 DEF Distinct
=============================================================================
