-------------------------- MODULE MCDialplanCache --------------------------
EXTENDS DialplanCache

CONSTANTS a, b, x, y, z

(* Two extensions of one context, one of them with two conditions; two     *)
(* contexts with an extension of the same name.                            *)
OneContext ==
  [n \in 1 .. 5 |-> CASE n = 1 -> Item("context", Top, a, 0, NoName)
                      [] n = 2 -> Item("extension", 1, a, 1, x)
                      [] n = 3 -> Item("extension", 1, b, 3, x)
                      [] n = 4 -> Item("condition", 2, NoName, 1, x)
                      [] n = 5 -> Item("condition", 2, NoName, 2, y)]

OneCondition ==
  [n \in 1 .. 5 |-> CASE n = 1 -> Item("context", Top, a, 0, NoName)
                      [] n = 2 -> Item("extension", 1, a, 1, x)
                      [] n = 3 -> Item("condition", 2, NoName, 1, x)
                      [] n = 4 -> Item("action", 3, NoName, 1, x)
                      [] n = 5 -> Item("regex", 3, NoName, 0, y)]

TwoContexts ==
  [n \in 1 .. 4 |-> CASE n = 1 -> Item("context", Top, a, 0, NoName)
                      [] n = 2 -> Item("context", Top, b, 0, NoName)
                      [] n = 3 -> Item("extension", 1, a, 1, x)
                      [] n = 4 -> Item("extension", 2, a, 1, x)]

(* y is a condition on the year, which a call may clear to x; z is one on  *)
(* the day of the month.                                                   *)
MCClears == {<<y, x>>}
MCDayless == [says \in {z} |-> x]

MCTargets == {-2, -1, 1, 2, 3, 4}

MCLoaded == {OneContext, OneCondition, TwoContexts}
=============================================================================
