-------------------------- MODULE DurableRecording --------------------------
(***************************************************************************)
(* What CustomPBX promises about call recordings, whatever fails: once     *)
(* FreeSWITCH has written a recording there is always a copy of it, the    *)
(* copy in the local spool is given up only after one is in object         *)
(* storage, and a recording is announced to the CRM only when object       *)
(* storage can serve it.                                                   *)
(***************************************************************************)
CONSTANT Calls

VARIABLES
  spooled,    \* calls whose recording is in the local spool
  stored,     \* calls whose recording is in object storage
  announced   \* calls whose recording has been reported ready

dvars == <<spooled, stored, announced>>

Init == spooled = {} /\ stored = {} /\ announced = {}

Record(c) ==
  /\ c \notin stored
  /\ spooled' = spooled \cup {c}
  /\ UNCHANGED <<stored, announced>>

Store(c) ==
  /\ c \in spooled
  /\ stored' = stored \cup {c}
  /\ UNCHANGED <<spooled, announced>>

Announce(c) ==
  /\ c \in stored
  /\ announced' = announced \cup {c}
  /\ UNCHANGED <<spooled, stored>>

Discard(c) ==
  /\ c \in announced
  /\ spooled' = spooled \ {c}
  /\ UNCHANGED <<stored, announced>>

Next == \E c \in Calls : Record(c) \/ Store(c) \/ Announce(c) \/ Discard(c)

Spec == Init /\ [][Next]_dvars
=============================================================================
