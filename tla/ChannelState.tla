---------------------------- MODULE ChannelState ----------------------------
(***************************************************************************)
(* The live-call state of CustomPBX: how FreeSWITCH channel events and the *)
(* 30-second "show channels" reconciliation maintain                       *)
(*                                                                         *)
(*   - the channels cache            (mainStruct.Channels),                *)
(*   - each user's active calls      (cache.userCache.activeCalls),        *)
(*   - what web clients were told    (the events sent on eventChannel),    *)
(*   - the CDR rows                  (cdrwriter.Persist), and              *)
(*   - the lifecycle events published (callwebhook.Publish).               *)
(*                                                                         *)
(* Every event is handled in a goroutine of its own that takes             *)
(* channelStateMu, so pending events form a set.  A handler is one step.   *)
(* GetChannels holds the same mutex over a round trip to FreeSWITCH, so it *)
(* is two steps between which calls go on but no handler runs.             *)
(***************************************************************************)
EXTENDS Integers, FiniteSets

CONSTANTS
  Legs,         \* channel UUIDs; FreeSWITCH never reuses one
  Users,        \* ids of directory users; a deleted id is never reused
  NoUser, NoLeg,
  Owner,        \* the user a leg's presence id names, or NoUser
  OtherLeg,     \* the Other-Leg-Unique-ID header of a leg's events, or NoLeg
  Direction,    \* "inbound" or "outbound"
  Originated,   \* legs whose events carry an originating-leg header
  Reordering,   \* may the goroutines of one leg's events run out of order?
  FailureKinds, \* subset of {"link", "database"}
  MaxFailures,  \* bound on the failures of a behaviour
  DirectoryChanges  \* may directory users be added and deleted?

ASSUME ConstantsAssumption ==
  /\ NoUser \notin Users
  /\ IsFiniteSet(Legs) /\ NoLeg \notin Legs
  /\ Owner \in [Legs -> Users \cup {NoUser}]
  /\ OtherLeg \in [Legs -> Legs \cup {NoLeg}]
  /\ \A l \in Legs : OtherLeg[l] # l
  /\ Direction \in [Legs -> {"inbound", "outbound"}]
  /\ Originated \subseteq Legs
  /\ Reordering \in BOOLEAN
  /\ FailureKinds \subseteq {"link", "database"}
  /\ MaxFailures \in Nat
  /\ DirectoryChanges \in BOOLEAN

VARIABLES
  leg,          \* FreeSWITCH: the state of each leg
  pending,      \* events received whose handler has not run yet
  connected,    \* is the event socket up?
  failures,     \* how many failures have happened (bound: MaxFailures)
  directory,    \* the directory users in the database
  cached,       \* Channels.byUuid: absent, or the cached call state
  cachedUser,   \* Channel.DirectoryUserID of each cached channel
  calls,        \* userCache.byId[u].activeCalls: absent, or its Talking flag
  snapshot,     \* the "show channels" reply being applied, or NoSnapshot
  dashboard,    \* the call counters last sent to web clients
  shown,        \* the user state last sent to web clients
  cdr,          \* legs with a row in table cdr
  published     \* lifecycle events handed to callwebhook.Publish

vars == <<leg, pending, connected, failures, directory, cached, cachedUser,
          calls, snapshot, dashboard, shown, cdr, published>>

(***************************************************************************)
(* Values.  "ringing" stands for every Callstate other than ACTIVE.        *)
(***************************************************************************)
Live     == {"ringing", "active"}
Gone     == {"missed", "completed"}
LegState == {"idle"} \cup Live \cup Gone
Entry    == {"none"} \cup Live
Kinds    == {"create", "answer", "destroy"}
Event    == [kind : Kinds, leg : Legs]
Ev(k, l) == [kind |-> k, leg |-> l]
Lifecycle == {"ringing", "answered", "missed", "completed"}
Publication == [event : Lifecycle, leg : Legs]

NoSnapshot  == [l \in Legs |-> "unknown"]
MutexFree   == snapshot = NoSnapshot

(* What "show channels" lists of a leg.  (Mutant: legs not yet or no       *)
(* longer live are listed too.)                                            *)
ListedAll(s) == s
Listed(s)   == IF s \in Live THEN s ELSE "none"

(* refreshCountersLocked *)
Counters(c) == [total    |-> Cardinality({l \in Legs : c[l] # "none"}),
                answered |-> Cardinality({l \in Legs : c[l] = "active"})]

(* The call part of a user as updateUserLocked copies it; the choice of one *)
(* call among several is module CallSelection.                              *)
Presence(c) == [inCall  |-> \E l \in Legs : c[l] # "none",
                talking |-> \E l \in Legs : c[l] = "active"]

NoCalls == [l \in Legs |-> "none"]

(* isPrimaryCallLeg *)
IsPrimaryCallLeg(l) ==
  Direction[l] # "outbound" \/ (OtherLeg[l] = NoLeg /\ l \notin Originated)

(* The guard at the top of cdrwriter.buildRecord. *)
HasRecord(l) == Direction[l] = "inbound" \/ OtherLeg[l] = NoLeg

(***************************************************************************)
(* Failures.  May(k) says that a failure of kind k can still happen.       *)
(***************************************************************************)
May(k) == k \in FailureKinds /\ failures < MaxFailures

(* getUserByPresence: the user is looked up in the database each time. *)
Known(l) == Owner[l] # NoUser /\ directory[Owner[l]] = "present"
Lookup(l, dbUp) == IF dbUp /\ Known(l) THEN Owner[l] ELSE NoUser

DatabaseAnswers(dbUp) ==
  IF dbUp THEN failures' = failures
          ELSE May("database") /\ failures' = failures + 1

-----------------------------------------------------------------------------
(***************************************************************************)
(* FreeSWITCH: a leg rings, may be answered, and ends.  Its events reach   *)
(* CustomPBX only while the event socket is up.                            *)
(***************************************************************************)
Emit(k, l) == pending' = IF connected THEN pending \cup {Ev(k, l)} ELSE pending

(* A forked device leg that is answered gets bridged, and then points back *)
(* to its other leg; one that does not is cancelled while it rings.        *)
NeverAnswered(l) == l \in Originated /\ OtherLeg[l] = NoLeg

SwitchStep(l, from, to, k) ==
  /\ leg[l] = from
  /\ leg' = [leg EXCEPT ![l] = to]
  /\ Emit(k, l)
  /\ UNCHANGED <<connected, failures, directory, cached, cachedUser, calls,
                 snapshot, dashboard, shown, cdr, published>>

Ring(l)     == SwitchStep(l, "idle", "ringing", "create")
Answer(l)   == ~NeverAnswered(l) /\ SwitchStep(l, "ringing", "active", "answer")
Abandon(l)  == SwitchStep(l, "ringing", "missed", "destroy")
Complete(l) == SwitchStep(l, "active", "completed", "destroy")

(***************************************************************************)
(* Handlers.  InTurn is the order in which goroutines win channelStateMu.  *)
(***************************************************************************)
Before(k) == CASE k = "create"  -> {}
               [] k = "answer"  -> {"create"}
               [] k = "destroy" -> {"create", "answer"}

InTurn(k, l) == Reordering \/ \A j \in Before(k) : Ev(j, l) \notin pending

Begin(k, l) ==
  /\ MutexFree
  /\ Ev(k, l) \in pending
  /\ InTurn(k, l)
  /\ pending' = pending \ {Ev(k, l)}
  /\ UNCHANGED <<leg, connected, directory, snapshot>>

(* publishCallEvent *)
PublishCallEvent(e, l) ==
  published' = IF IsPrimaryCallLeg(l)
               THEN published \cup {[event |-> e, leg |-> l]} ELSE published

(* Channels.Set, MarkAnswered or RemoveByUUID, then publishChannelCounters *)
PutChannel(l, s) ==
  /\ cached' = [cached EXCEPT ![l] = s]
  /\ dashboard' = Counters(cached')

(* userCache.SetCall(user, ..., active), then eventChannel <- user *)
SetCall(u, l, s) ==
  IF u = NoUser
  THEN UNCHANGED <<calls, shown>>
  ELSE /\ calls' = [calls EXCEPT ![u] = [@ EXCEPT ![l] = s]]
       /\ shown' = [shown EXCEPT ![u] = Presence(calls'[u])]

ChannelCreateHandler(l) ==
  \E dbUp \in BOOLEAN :
    LET user == Lookup(l, dbUp) IN
    /\ Begin("create", l)
    /\ DatabaseAnswers(dbUp)
    /\ PublishCallEvent("ringing", l)
    /\ PutChannel(l, "ringing")
    /\ cachedUser' = [cachedUser EXCEPT ![l] = user]
    /\ SetCall(user, l, "ringing")
    /\ UNCHANGED cdr

(* The user id is assigned to the copy MarkAnswered returns, so the cached *)
(* channel keeps the one it had.                                           *)
ChannelAnswerHandler(l) ==
  \E dbUp \in BOOLEAN :
    /\ Begin("answer", l)
    /\ DatabaseAnswers(dbUp)
    /\ PublishCallEvent("answered", l)
    /\ IF cached[l] = "none"
       THEN UNCHANGED <<cached, dashboard, calls, shown>>
       ELSE PutChannel(l, "active") /\ SetCall(Lookup(l, dbUp), l, "active")
    /\ UNCHANGED <<cachedUser, cdr>>

(* RemoveByUUID(uuid, otherLegUUID): the channel itself, or else the other *)
(* leg, or else nothing.  (Mutant: the other leg is tried first.)          *)
RemovedOtherFirst(l) ==
  IF OtherLeg[l] # NoLeg /\ cached[OtherLeg[l]] # "none" THEN OtherLeg[l]
  ELSE IF cached[l] # "none" THEN l
  ELSE NoLeg
Removed(l) ==
  IF cached[l] # "none" THEN l
  ELSE IF OtherLeg[l] # NoLeg /\ cached[OtherLeg[l]] # "none" THEN OtherLeg[l]
  ELSE NoLeg

(* cdrwriter.Persist: INSERT ... WHERE NOT EXISTS *)
Persist(l, dbUp) == cdr' = IF HasRecord(l) /\ dbUp THEN cdr \cup {l} ELSE cdr

(* What a destroy event does once its channel has been looked for.         *)
(* (Mutant: the call taken off the user is the event's, not the removed    *)
(* channel's.)                                                             *)
ForgetEventLeg(l, channel, dbUp) ==
  IF channel = NoLeg
  THEN /\ SetCall(Lookup(l, dbUp), l, "none")
       /\ UNCHANGED <<cached, cachedUser, dashboard>>
  ELSE /\ PutChannel(channel, "none")
       /\ cachedUser' = [cachedUser EXCEPT ![channel] = NoUser]
       /\ SetCall(Lookup(l, dbUp), l, "none")

(* Without a channel to remove, cleanupUnknownDestroyedChannel still takes *)
(* the call off the user that the event names.                             *)
Forget(l, channel, dbUp) ==
  IF channel = NoLeg
  THEN /\ SetCall(Lookup(l, dbUp), l, "none")
       /\ UNCHANGED <<cached, cachedUser, dashboard>>
  ELSE /\ PutChannel(channel, "none")
       /\ cachedUser' = [cachedUser EXCEPT ![channel] = NoUser]
       /\ SetCall(Lookup(channel, dbUp), channel, "none")

ChannelDestroyHandler(l) ==
  \E dbUp \in BOOLEAN :
    /\ Begin("destroy", l)
    /\ DatabaseAnswers(dbUp)
    /\ Persist(l, dbUp)
    /\ PublishCallEvent(leg[l], l)
    /\ Forget(l, Removed(l), dbUp)

Handle(k, l) ==
  \/ k = "create"  /\ ChannelCreateHandler(l)
  \/ k = "answer"  /\ ChannelAnswerHandler(l)
  \/ k = "destroy" /\ ChannelDestroyHandler(l)

(***************************************************************************)
(* GetChannels: lock, ask FreeSWITCH, replace both caches, unlock.         *)
(***************************************************************************)
AskWhenEmpty ==  \* mutant: only the collection after connecting, no ticker
  /\ MutexFree
  /\ connected
  /\ cached = NoCalls
  /\ snapshot' = [l \in Legs |-> Listed(leg[l])]
  /\ UNCHANGED <<leg, pending, connected, failures, directory, cached,
                 cachedUser, calls, dashboard, shown, cdr, published>>

AskChannels ==
  /\ MutexFree
  /\ connected
  /\ snapshot' = [l \in Legs |-> Listed(leg[l])]
  /\ UNCHANGED <<leg, pending, connected, failures, directory, cached,
                 cachedUser, calls, dashboard, shown, cdr, published>>

(* SendApiCmd or json.Unmarshal returned an error: nothing is replaced. *)
ChannelsUnavailable ==
  /\ ~MutexFree
  /\ May("link")
  /\ snapshot' = NoSnapshot
  /\ failures' = failures + 1
  /\ UNCHANGED <<leg, pending, connected, directory, cached, cachedUser,
                 calls, dashboard, shown, cdr, published>>

(* ActiveCallUserIDs  (Mutant: users without channels are not refreshed.) *)
NoActiveCallUsers == {}
ActiveCallUsers == {u \in Users : calls[u] # NoCalls}

(* The loop over the reply: each listed leg is attributed to the user that *)
(* its presence id names, unless the database fails to look that user up.  *)
Attribution(lost) ==
  [l \in Legs |-> IF snapshot[l] = "none" THEN NoUser ELSE Lookup(l, l \notin lost)]

CallsByUser(user) ==
  [u \in Users |-> [l \in Legs |-> IF user[l] = u THEN snapshot[l] ELSE "none"]]

(* usersByID: users with a listed leg, and those who had calls before, as  *)
(* far as the database finds them.                                         *)
UsersByID(user, missed) ==
  {u \in Users : \/ \E l \in Legs : user[l] = u
                 \/ /\ u \in ActiveCallUsers
                    /\ directory[u] = "present"
                    /\ u \notin missed}

ReplaceChannels ==
  \E lost \in SUBSET Legs, missed \in SUBSET Users :
    /\ ~MutexFree
    /\ DatabaseAnswers(lost = {} /\ missed = {})
    /\ cached' = snapshot
    /\ cachedUser' = Attribution(lost)
    /\ calls' = CallsByUser(cachedUser')
    /\ dashboard' = Counters(snapshot)
    /\ shown' = [u \in Users |-> IF u \in UsersByID(cachedUser', missed)
                                THEN Presence(calls'[u]) ELSE shown[u]]
    /\ snapshot' = NoSnapshot
    /\ UNCHANGED <<leg, pending, connected, directory, cdr, published>>

(***************************************************************************)
(* The event socket drops, with what it had not delivered; ESLConnectKeeper *)
(* reconnects.  The keeper also runs GetChannels, so it cannot reconnect   *)
(* while a snapshot is on its way.                                         *)
(***************************************************************************)
LoseConnection ==
  /\ connected
  /\ May("link")
  /\ connected' = FALSE
  /\ failures' = failures + 1
  /\ pending' \in SUBSET pending
  /\ UNCHANGED <<leg, directory, cached, cachedUser, calls, snapshot,
                 dashboard, shown, cdr, published>>

Reconnect ==
  /\ ~connected
  /\ MutexFree
  /\ connected' = TRUE
  /\ UNCHANGED <<leg, pending, failures, directory, cached, cachedUser, calls,
                 snapshot, dashboard, shown, cdr, published>>

(***************************************************************************)
(* Directory administration. Neither operation touches the user cache.     *)
(***************************************************************************)
ChangeUser(u, from, to) ==
  /\ DirectoryChanges
  /\ directory[u] = from
  /\ directory' = [directory EXCEPT ![u] = to]
  /\ UNCHANGED <<leg, pending, connected, failures, cached, cachedUser, calls,
                 snapshot, dashboard, shown, cdr, published>>

AddUser(u)    == ChangeUser(u, "absent", "present")
DeleteUser(u) == ChangeUser(u, "present", "deleted")

-----------------------------------------------------------------------------
(* CustomPBX starts with empty caches while FreeSWITCH may have calls up. *)
Init ==
  /\ leg \in [Legs -> {"idle"} \cup Live]
  /\ \A l \in Legs : NeverAnswered(l) => leg[l] # "active"
  /\ pending = {}
  /\ connected = TRUE
  /\ failures = 0
  /\ directory \in [Users -> IF DirectoryChanges THEN {"absent", "present"}
                                                  ELSE {"present"}]
  /\ cached = NoCalls
  /\ cachedUser = [l \in Legs |-> NoUser]
  /\ calls = [u \in Users |-> NoCalls]
  /\ snapshot = NoSnapshot
  /\ dashboard = Counters(NoCalls)
  /\ shown = [u \in Users |-> Presence(NoCalls)]
  /\ cdr = {}
  /\ published = {}

Switch == \E l \in Legs : Ring(l) \/ Answer(l) \/ Abandon(l) \/ Complete(l)
Handlers == \E k \in Kinds, l \in Legs : Handle(k, l)
Reconcile == AskChannels \/ ReplaceChannels \/ ChannelsUnavailable
Link == LoseConnection \/ Reconnect
Administration == \E u \in Users : AddUser(u) \/ DeleteUser(u)

Next == Switch \/ Handlers \/ Reconcile \/ Link \/ Administration

Spec == Init /\ [][Next]_vars

(* Go's mutex hands over to a waiter after a millisecond, so a pending     *)
(* handler is not starved by reconciliations; the ticker fires every 30 s; *)
(* a reply arrives or fails; the keeper retries a lost link every 10 s.    *)
Fairness ==
  /\ SF_vars(Handlers)
  /\ WF_vars(AskChannels)
  /\ WF_vars(ReplaceChannels)
  /\ WF_vars(Reconnect)

FairSpec == Spec /\ Fairness

-----------------------------------------------------------------------------
(* Every variable stays in its range: the caches hold only known legs and  *)
(* users, and the failure budget is respected.                             *)
TypeOK ==
  /\ leg \in [Legs -> LegState]
  /\ pending \subseteq Event
  /\ connected \in BOOLEAN
  /\ failures \in 0 .. MaxFailures
  /\ directory \in [Users -> {"absent", "present", "deleted"}]
  /\ cached \in [Legs -> Entry]
  /\ cachedUser \in [Legs -> Users \cup {NoUser}]
  /\ calls \in [Users -> [Legs -> Entry]]
  /\ snapshot \in [Legs -> Entry] \cup {NoSnapshot}
  /\ dashboard \in [total : Nat, answered : Nat]
  /\ shown \in [Users -> [inCall : BOOLEAN, talking : BOOLEAN]]
  /\ cdr \subseteq Legs
  /\ published \subseteq Publication

(* A pending event has happened. *)
EventsOccurred ==
  \A l \in Legs :
    /\ Ev("create", l) \in pending => leg[l] # "idle"
    /\ Ev("answer", l) \in pending => leg[l] \in {"active", "completed"}
    /\ Ev("destroy", l) \in pending => leg[l] \in Gone
TypeInv == TypeOK /\ EventsOccurred

(* The two caches agree.  A call listed for a directory user is a cached   *)
(* channel in the same state, and a channel that was attributed to a user  *)
(* is among that user's calls.  The handlers keep this across reordered    *)
(* events, reconciliations, other-leg removals and directory changes,      *)
(* because all update both caches under channelStateMu; it is what lets    *)
(* ActiveCallUserIDs find every user a reconciliation must clear.          *)
NoStrayCall ==
  \A u \in Users, l \in Legs :
    directory[u] # "deleted" /\ calls[u][l] # "none" =>
      Owner[l] = u /\ cached[l] = calls[u][l]
NoLostCall ==
  \A l \in Legs :
    LET u == cachedUser[l] IN
    u # NoUser => /\ cached[l] # "none"
                  /\ directory[u] # "deleted" => calls[u][l] = cached[l]
CallsMatchChannels ==
  "database" \notin FailureKinds => NoStrayCall /\ NoLostCall

(* Why the caches agree.  A call is only ever attributed to a user who was *)
(* in the directory, so a user who is not there yet has no calls, and a    *)
(* channel keeps the id of the user its presence id names, or none.        *)
AttributedToOwner ==
  /\ \A u \in Users : directory[u] = "absent" => \A l \in Legs : calls[u][l] = "none"
  /\ \A l \in Legs : cachedUser[l] # NoUser =>
                      cachedUser[l] = Owner[l] /\ directory[Owner[l]] # "absent"
CachesInv == AttributedToOwner /\ NoStrayCall /\ NoLostCall

(* Web clients are not left with a stale picture: the last counters and    *)
(* the last state of each user sent on eventChannel are those of the       *)
(* caches, on every path of every handler (early returns included) and     *)
(* after each reconciliation.                                              *)
ClientsCurrent ==
  "database" \notin FailureKinds =>
    /\ dashboard = Counters(cached)
    /\ \A u \in Users : directory[u] # "deleted" => shown[u] = Presence(calls[u])

(* When each leg's events are handled in order and nothing fails, the      *)
(* cache is behind FreeSWITCH only by events still to be handled: a cached *)
(* channel that has ended has its destroy pending, one that was answered   *)
(* its answer, and none is shown answered before it was.  Snapshots taken  *)
(* while events are pending, and create events older than the snapshot,    *)
(* are the hard part.                                                      *)
InOrderAccuracy ==
  ~Reordering /\ failures = 0 =>
    \A l \in Legs :
      /\ cached[l] # "none" /\ leg[l] \in Gone => Ev("destroy", l) \in pending
      /\ cached[l] = "ringing" /\ leg[l] = "active" => Ev("answer", l) \in pending
      /\ cached[l] = "active" => leg[l] \in {"active", "completed"}

(* Why it is accurate: an earlier event of a leg is never pending, nor a   *)
(* snapshot in hand, without the later events that will correct it.        *)
LagInv ==
  connected /\ \A l \in Legs :
    LET Awaits(k) == Ev(k, l) \in pending IN
    /\ cached[l] # "none" /\ leg[l] \in Gone => Awaits("destroy")
    /\ cached[l] = "ringing" /\ leg[l] = "active" => Awaits("answer")
    /\ cached[l] = "active" => leg[l] \in {"active", "completed"}
    /\ snapshot[l] \in Live /\ leg[l] \in Gone => Awaits("destroy")
    /\ snapshot[l] = "ringing" /\ leg[l] = "active" => Awaits("answer")
    /\ snapshot[l] = "active" => leg[l] \in {"active", "completed"}
    /\ (Awaits("create") \/ Awaits("answer")) /\ leg[l] \in Gone => Awaits("destroy")
    /\ Awaits("create") /\ leg[l] = "active" => Awaits("answer")

(* Whatever order the events come in, whatever was lost with the socket    *)
(* and whichever live leg an other-leg removal took, the caches end up     *)
(* equal to FreeSWITCH: the 30-second reconciliation repairs them.         *)
Exact ==
  /\ \A l \in Legs : cached[l] = Listed(leg[l])
  /\ \A u \in Users, l \in Legs :
       calls[u][l] = IF Known(l) /\ Owner[l] = u THEN Listed(leg[l]) ELSE "none"
EventuallyExact == <>[]Exact

(* A destroy event whose channel is no longer cached (a duplicate, or one  *)
(* the last snapshot already left out) does not change the counters:       *)
(* mainStruct/channels_test.go requires it of RemoveByUUID.                *)
DestroyIsIdempotent ==
  [][\A l \in Legs :
       cached[l] = "none" /\ ChannelDestroyHandler(l) => dashboard' = dashboard]_vars

(* The legs with a CDR are legs whose lifecycle is published: the comment  *)
(* in publishCallEvent says that the authoritative leg is also the one     *)
(* used by CDR persistence.                                                *)
CdrLegIsLifecycleLeg == \A l \in cdr : IsPrimaryCallLeg(l)
=============================================================================
