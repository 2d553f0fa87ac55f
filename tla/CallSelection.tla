---------------------------- MODULE CallSelection ----------------------------
(***************************************************************************)
(* Which of a user's calls the user is shown with: refreshCallStateLocked  *)
(* walks the map activeCalls, in whatever order Go's range gives, and      *)
(* keeps the oldest creation time, and the UUID and direction of the call  *)
(* to show.  SetCall and ReplaceCalls change the map and walk it again,    *)
(* under the cache's mutex.                                                *)
(***************************************************************************)
EXTENDS Integers

CONSTANTS
  Uuids,     \* the UUIDs of calls
  NoUuid,    \* the empty string
  Times      \* creation times in seconds; 0 is "could not be parsed"

ASSUME SelectionAssumption ==
  /\ NoUuid \notin Uuids
  /\ Times \subseteq Nat /\ 0 \in Times

VARIABLES
  activeCalls,       \* the user's calls, by UUID
  todo,              \* the calls the loop has still to visit
  talking,           \* Talking
  callDate,          \* CallDate
  lastUuid,          \* LastUuid
  direction,         \* the call whose Direction CallDirection is
  selectedTalkingAt  \* the local variable of that name

vars == <<activeCalls, todo, talking, callDate, lastUuid, direction, selectedTalkingAt>>

NoCall    == [createdAt |-> 0, talking |-> FALSE, present |-> FALSE]
CallState == [createdAt : Times, talking : BOOLEAN, present : {TRUE}]

(* The keys of a map of calls.  (Mutant: a removed call is still visited.)  *)
EveryKey(m) == Uuids
Keys(m) == {c \in Uuids : m[c].present}

Present   == Keys(activeCalls)
Visited   == Present \ todo
CreatedAt(c) == activeCalls[c].createdAt
Talks(S)  == {c \in S : activeCalls[c].talking}

(***************************************************************************)
(* Changing the map starts the loop with everything reset.                 *)
(***************************************************************************)
Walk ==
  /\ todo' = Keys(activeCalls')
  /\ talking' = FALSE
  /\ callDate' = 0
  /\ lastUuid' = NoUuid
  /\ direction' = NoUuid
  /\ selectedTalkingAt' = 0

SetCall(c) ==
  /\ todo = {}
  /\ \E s \in CallState \cup {NoCall} : activeCalls' = [activeCalls EXCEPT ![c] = s]
  /\ Walk

ReplaceCalls ==
  /\ todo = {}
  /\ activeCalls' \in [Uuids -> CallState \cup {NoCall}]
  /\ Walk

(* The first "if" of the loop's body: an older call, or the first one whose *)
(* creation time is known. (Mutant: calls of unknown age count as older.)  *)
NotYounger(c) == callDate = 0 \/ CreatedAt(c) < callDate
IsOldest(c) == callDate = 0 \/ (CreatedAt(c) > 0 /\ CreatedAt(c) < callDate)

(* The second: the same among the calls that talk, compared with the one   *)
(* already selected.  (Mutant: compared with the oldest call instead.)     *)
TalkingOldest(c) ==
  /\ activeCalls[c].talking
  /\ ~talking \/ IsOldest(c)
IsSelectedTalking(c) ==
  /\ activeCalls[c].talking
  /\ \/ ~talking
     \/ selectedTalkingAt = 0
     \/ CreatedAt(c) > 0 /\ CreatedAt(c) < selectedTalkingAt

Visit(c) ==
  /\ c \in todo
  /\ todo' = todo \ {c}
  /\ callDate' = IF IsOldest(c) THEN CreatedAt(c) ELSE callDate
  /\ talking' = (talking \/ IsSelectedTalking(c))
  /\ lastUuid' = IF IsSelectedTalking(c) \/ (IsOldest(c) /\ ~talking)
                 THEN c ELSE lastUuid
  /\ direction' = IF IsSelectedTalking(c) \/ IsOldest(c) THEN c ELSE direction
  /\ selectedTalkingAt' =
       IF IsSelectedTalking(c) THEN CreatedAt(c) ELSE selectedTalkingAt
  /\ UNCHANGED activeCalls

Init ==
  /\ activeCalls = [c \in Uuids |-> NoCall]
  /\ todo = {}
  /\ talking = FALSE
  /\ callDate = 0
  /\ lastUuid = NoUuid
  /\ direction = NoUuid
  /\ selectedTalkingAt = 0

Next == ReplaceCalls \/ \E c \in Uuids : SetCall(c) \/ Visit(c)

Spec == Init /\ [][Next]_vars

-----------------------------------------------------------------------------
(* Every variable stays in its range, and the loop visits the user's calls. *)
TypeOK ==
  /\ activeCalls \in [Uuids -> CallState \cup {NoCall}]
  /\ todo \subseteq {c \in Uuids : activeCalls[c].present}
  /\ talking \in BOOLEAN
  /\ callDate \in Times
  /\ lastUuid \in Uuids \cup {NoUuid}
  /\ direction \in Uuids \cup {NoUuid}
  /\ selectedTalkingAt \in Times

(* c is a first choice among S: the oldest call whose age is known, or any *)
(* call when no age is known.                                              *)
FirstChoice(c, S) ==
  /\ c \in S
  /\ \A d \in S : CreatedAt(d) > 0 =>
                    CreatedAt(c) > 0 /\ CreatedAt(c) <= CreatedAt(d)

(* Whatever order the map is walked in, the user is shown talking exactly  *)
(* when one of the calls is, with the oldest creation time, and with the   *)
(* UUID of the oldest talking call, or of the oldest call when none talks. *)
(* What is kept after each iteration is right for the calls visited.       *)
ShownWith(S) ==
  /\ talking <=> Talks(S) # {}
  /\ S = {} => lastUuid = NoUuid /\ callDate = 0
  /\ S # {} => /\ FirstChoice(lastUuid, IF talking THEN Talks(S) ELSE S)
               /\ \E c \in S : FirstChoice(c, S) /\ callDate = CreatedAt(c)
SelectionIsRight == todo = {} => ShownWith(Present)

(* The direction shown is that of the call shown, or that of an older call *)
(* that is not talking: which one depends on the order of the walk.        *)
DirectionOfACandidate(S) ==
  S # {} => \/ direction = lastUuid
            \/ talking /\ FirstChoice(direction, S)
DirectionIsExplained == todo = {} => DirectionOfACandidate(Present)

(* The loop's invariant. *)
LoopInv ==
  /\ ShownWith(Visited)
  /\ DirectionOfACandidate(Visited)
  /\ talking => selectedTalkingAt = CreatedAt(lastUuid)
=============================================================================
