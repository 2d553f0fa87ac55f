--------------------------- MODULE WebhookPromise ---------------------------
(***************************************************************************)
(* What the call webhook promises the CRM: an event that was accepted for  *)
(* delivery reaches the CRM once or is lost, never twice.                  *)
(***************************************************************************)
EXTENDS Naturals, Sequences

CONSTANT Tickets   \* one for every acceptance of an event

VARIABLES
  pending,   \* accepted and neither delivered nor lost
  received   \* what the CRM was sent, in order

pvars == <<pending, received>>

Init == pending = {} /\ received = <<>>

Fresh(n) == n \notin pending /\ \A i \in DOMAIN received : received[i] # n

Accept(n) ==
  /\ Fresh(n)
  /\ pending' = pending \cup {n}
  /\ UNCHANGED received

Receive(n) ==
  /\ n \in pending
  /\ pending' = pending \ {n}
  /\ received' = Append(received, n)

Lose(lost) ==
  /\ lost \subseteq pending
  /\ pending' = pending \ lost
  /\ UNCHANGED received

Next == \/ \E n \in Tickets : Accept(n) \/ Receive(n)
        \/ \E lost \in SUBSET Tickets : Lose(lost)

Spec == Init /\ [][Next]_pvars
=============================================================================
