------------------------- MODULE ChannelStateProofs -------------------------
(***************************************************************************)
(* Machine-checked proofs about ChannelState, for any finite set of legs,  *)
(* any users, owners and other-leg headers, and any failure budget.        *)
(***************************************************************************)
EXTENDS ChannelState, FiniteSetTheorems, TLAPS

(* The counters of any cache are natural numbers, as there are finitely    *)
(* many legs.                                                              *)
LEMMA CountersType ==
  ASSUME NEW c
  PROVE  Counters(c) \in [total : Nat, answered : Nat]
<1>1. ASSUME NEW S \in SUBSET Legs
      PROVE  Cardinality(S) \in Nat
  BY ConstantsAssumption, FS_Subset, FS_CardinalityType
<1>2. {l \in Legs : c[l] # "none"} \in SUBSET Legs
  OBVIOUS
<1>3. {l \in Legs : c[l] = "active"} \in SUBSET Legs
  OBVIOUS
<1> QED
  BY <1>1, <1>2, <1>3 DEF Counters

(* getUserByPresence finds a directory user: the leg's owner, or nobody. *)
LEMMA LookupResult ==
  ASSUME NEW l \in Legs, NEW dbUp \in BOOLEAN
  PROVE  /\ Lookup(l, dbUp) \in Users \cup {NoUser}
         /\ Lookup(l, dbUp) # NoUser =>
              Lookup(l, dbUp) = Owner[l] /\ directory[Owner[l]] = "present"
         /\ Lookup(l, TRUE) = NoUser =>
              Owner[l] = NoUser \/ directory[Owner[l]] # "present"
BY ConstantsAssumption DEF Lookup, Known

(* SetCall changes one call of one user and tells the clients about it. *)
LEMMA SetCallEffect ==
  ASSUME TypeOK, NEW u \in Users \cup {NoUser}, NEW l \in Legs, NEW s \in Entry,
         SetCall(u, l, s)
  PROVE  /\ calls' \in [Users -> [Legs -> Entry]]
         /\ shown' \in [Users -> [inCall : BOOLEAN, talking : BOOLEAN]]
         /\ \A v \in Users, m \in Legs :
              calls'[v][m] = IF v = u /\ m = l THEN s ELSE calls[v][m]
         /\ \A v \in Users : v # u => calls'[v] = calls[v] /\ shown'[v] = shown[v]
         /\ u \in Users => shown'[u] = Presence(calls'[u])
<1>1. CASE u = NoUser
  BY <1>1, ConstantsAssumption DEF SetCall, TypeOK
<1>2. CASE u \in Users
  <2>1. u # NoUser
    BY <1>2, ConstantsAssumption
  <2>2. /\ calls' = [calls EXCEPT ![u] = [@ EXCEPT ![l] = s]]
        /\ shown' = [shown EXCEPT ![u] = Presence(calls'[u])]
    BY <2>1 DEF SetCall
  <2>3. calls' \in [Users -> [Legs -> Entry]]
    BY <2>2 DEF TypeOK
  <2>4. Presence(calls'[u]) \in [inCall : BOOLEAN, talking : BOOLEAN]
    BY DEF Presence
  <2> QED
    BY <1>2, <2>2, <2>3, <2>4 DEF TypeOK
<1> QED
  BY <1>1, <1>2

(* The channel a destroy event removes, if any, is cached. *)
LEMMA RemovedChannel ==
  ASSUME NEW l \in Legs
  PROVE  /\ Removed(l) \in Legs \cup {NoLeg}
         /\ Removed(l) \in Legs => cached[Removed(l)] # "none"
         /\ Removed(l) = NoLeg => cached[l] = "none"
         /\ cached[l] # "none" => Removed(l) = l
BY ConstantsAssumption DEF Removed

(* PutChannel stores one entry of the channels cache. *)
LEMMA PutChannelEffect ==
  ASSUME TypeOK, NEW l \in Legs, NEW s \in Entry, PutChannel(l, s)
  PROVE  /\ cached' \in [Legs -> Entry]
         /\ dashboard' \in [total : Nat, answered : Nat]
         /\ cached' = [cached EXCEPT ![l] = s]
         /\ dashboard' = Counters(cached')
<1>1. cached' = [cached EXCEPT ![l] = s] /\ dashboard' = Counters(cached')
  BY DEF PutChannel
<1>2. Counters(cached') \in [total : Nat, answered : Nat]
  BY CountersType
<1> QED
  BY <1>1, <1>2 DEF TypeOK

-----------------------------------------------------------------------------
(* TypeOK. *)

(* Taking an event from the pending ones keeps them events. *)
LEMMA BeginType ==
  ASSUME TypeOK, NEW k \in Kinds, NEW l \in Legs, NEW dbUp \in BOOLEAN,
         Begin(k, l), DatabaseAnswers(dbUp)
  PROVE  /\ leg' \in [Legs -> LegState]
         /\ pending' \subseteq Event
         /\ connected' \in BOOLEAN
         /\ failures' \in 0 .. MaxFailures
         /\ directory' \in [Users -> {"absent", "present", "deleted"}]
         /\ snapshot' \in [Legs -> Entry] \cup {NoSnapshot}
<1>1. failures' \in 0 .. MaxFailures
  BY ConstantsAssumption DEF TypeOK, DatabaseAnswers, May
<1> QED
  BY <1>1 DEF TypeOK, Begin, NoSnapshot

(* publishCallEvent adds at most one publication. *)
LEMMA PublishType ==
  ASSUME TypeOK, NEW e \in Lifecycle, NEW l \in Legs, PublishCallEvent(e, l)
  PROVE  published' \subseteq Publication
BY DEF TypeOK, PublishCallEvent, Publication

(* The event handlers keep the types of all they change. *)
LEMMA HandlersType == TypeInv /\ Handlers => TypeOK'
<1> SUFFICES ASSUME TypeOK, EventsOccurred, NEW k \in Kinds, NEW l \in Legs, Handle(k, l)
             PROVE  TypeOK'
  BY DEF Handlers, TypeInv
<1> USE DEF Entry, Live
<1>1. ASSUME ChannelCreateHandler(l)
      PROVE  TypeOK'
  <2> PICK dbUp \in BOOLEAN :
        /\ Begin("create", l)
        /\ DatabaseAnswers(dbUp)
        /\ PublishCallEvent("ringing", l)
        /\ PutChannel(l, "ringing")
        /\ cachedUser' = [cachedUser EXCEPT ![l] = Lookup(l, dbUp)]
        /\ SetCall(Lookup(l, dbUp), l, "ringing")
        /\ UNCHANGED cdr
    BY <1>1 DEF ChannelCreateHandler
  <2>1. Lookup(l, dbUp) \in Users \cup {NoUser}
    BY LookupResult
  <2>2. cachedUser' \in [Legs -> Users \cup {NoUser}]
    BY <2>1 DEF TypeOK
  <2>3. published' \subseteq Publication
    BY PublishType DEF Lifecycle
  <2>4. /\ cached' \in [Legs -> Entry]
        /\ dashboard' \in [total : Nat, answered : Nat]
    BY PutChannelEffect
  <2>5. /\ calls' \in [Users -> [Legs -> Entry]]
        /\ shown' \in [Users -> [inCall : BOOLEAN, talking : BOOLEAN]]
    BY <2>1, SetCallEffect
  <2> QED
    BY <2>2, <2>3, <2>4, <2>5, BeginType DEF TypeOK, Kinds
<1>2. ASSUME ChannelAnswerHandler(l)
      PROVE  TypeOK'
  <2> PICK dbUp \in BOOLEAN :
        /\ Begin("answer", l)
        /\ DatabaseAnswers(dbUp)
        /\ PublishCallEvent("answered", l)
        /\ IF cached[l] = "none"
           THEN UNCHANGED <<cached, dashboard, calls, shown>>
           ELSE /\ PutChannel(l, "active")
                /\ SetCall(Lookup(l, dbUp), l, "active")
        /\ UNCHANGED <<cachedUser, cdr>>
    BY <1>2 DEF ChannelAnswerHandler
  <2>1. published' \subseteq Publication
    BY PublishType DEF Lifecycle
  <2>2. /\ cached' \in [Legs -> Entry]
        /\ dashboard' \in [total : Nat, answered : Nat]
        /\ calls' \in [Users -> [Legs -> Entry]]
        /\ shown' \in [Users -> [inCall : BOOLEAN, talking : BOOLEAN]]
    <3>1. CASE cached[l] = "none"
      BY <3>1 DEF TypeOK
    <3>2. CASE cached[l] # "none"
      BY <3>2, LookupResult, PutChannelEffect, SetCallEffect
    <3> QED
      BY <3>1, <3>2
  <2> QED
    BY <2>1, <2>2, BeginType DEF TypeOK, Kinds
<1>3. ASSUME ChannelDestroyHandler(l), k = "destroy"
      PROVE  TypeOK'
  <2> PICK dbUp \in BOOLEAN :
        /\ Begin("destroy", l)
        /\ DatabaseAnswers(dbUp)
        /\ Persist(l, dbUp)
        /\ PublishCallEvent(leg[l], l)
        /\ Forget(l, Removed(l), dbUp)
    BY <1>3 DEF ChannelDestroyHandler
  <2>1. published' \subseteq Publication
    <3>1. leg[l] \in Lifecycle
      BY DEF Begin, EventsOccurred, Gone, Lifecycle
    <3> QED
      BY <3>1, PublishType
  <2>2. /\ cached' \in [Legs -> Entry]
        /\ cachedUser' \in [Legs -> Users \cup {NoUser}]
        /\ dashboard' \in [total : Nat, answered : Nat]
        /\ calls' \in [Users -> [Legs -> Entry]]
        /\ shown' \in [Users -> [inCall : BOOLEAN, talking : BOOLEAN]]
    <3>1. CASE Removed(l) = NoLeg
      BY <3>1, LookupResult, SetCallEffect DEF Forget, TypeOK
    <3>2. CASE Removed(l) \in Legs
      <4>1. Removed(l) # NoLeg
        BY <3>2, ConstantsAssumption
      <4>2. Lookup(Removed(l), dbUp) \in Users \cup {NoUser}
        BY <3>2, LookupResult
      <4>3. /\ PutChannel(Removed(l), "none")
            /\ cachedUser' = [cachedUser EXCEPT ![Removed(l)] = NoUser]
            /\ SetCall(Lookup(Removed(l), dbUp), Removed(l), "none")
        BY <4>1 DEF Forget
      <4>4. /\ cached' \in [Legs -> Entry]
            /\ dashboard' \in [total : Nat, answered : Nat]
        BY <3>2, <4>3, PutChannelEffect
      <4>5. /\ calls' \in [Users -> [Legs -> Entry]]
            /\ shown' \in [Users -> [inCall : BOOLEAN, talking : BOOLEAN]]
        BY <3>2, <4>2, <4>3, SetCallEffect
      <4>6. cachedUser' \in [Legs -> Users \cup {NoUser}]
        BY <4>3 DEF TypeOK
      <4> QED
        BY <4>4, <4>5, <4>6
    <3> QED
      BY <3>1, <3>2, RemovedChannel
  <2>3. cdr' \subseteq Legs
    BY DEF Persist, TypeOK
  <2> QED
    BY <2>1, <2>2, <2>3, BeginType DEF TypeOK, Kinds
<1> QED
  BY <1>1, <1>2, <1>3 DEF Handle

(* GetChannels keeps the types of the caches it replaces. *)
LEMMA ReconcileType == TypeOK /\ Reconcile => TypeOK'
<1> SUFFICES ASSUME TypeOK, Reconcile
             PROVE  TypeOK'
  OBVIOUS
<1>1. CASE AskChannels
  <2>1. snapshot' \in [Legs -> Entry]
    BY <1>1 DEF AskChannels, Listed, Entry, Live
  <2> QED
    BY <1>1, <2>1 DEF AskChannels, TypeOK
<1>2. CASE ChannelsUnavailable
  <2>1. failures' \in 0 .. MaxFailures
    BY <1>2, ConstantsAssumption DEF ChannelsUnavailable, TypeOK, May
  <2> QED
    BY <1>2, <2>1 DEF ChannelsUnavailable, TypeOK
<1>3. CASE ReplaceChannels
  <2>1. PICK lost \in SUBSET Legs, missed \in SUBSET Users :
          /\ ~MutexFree
          /\ DatabaseAnswers(lost = {} /\ missed = {})
          /\ cached' = snapshot
          /\ cachedUser' = Attribution(lost)
          /\ calls' = CallsByUser(cachedUser')
          /\ dashboard' = Counters(snapshot)
          /\ shown' = [u \in Users |-> IF u \in UsersByID(cachedUser', missed)
                                      THEN Presence(calls'[u]) ELSE shown[u]]
          /\ snapshot' = NoSnapshot
          /\ UNCHANGED <<leg, pending, connected, directory, cdr, published>>
    BY <1>3 DEF ReplaceChannels
  <2>2. snapshot \in [Legs -> Entry]
    BY <2>1 DEF MutexFree, TypeOK
  <2>3. failures' \in 0 .. MaxFailures
    BY <2>1, ConstantsAssumption DEF DatabaseAnswers, May, TypeOK
  <2>4. \A l \in Legs : Lookup(l, l \notin lost) \in Users \cup {NoUser}
    BY LookupResult
  <2>5. cachedUser' \in [Legs -> Users \cup {NoUser}]
    BY <2>1, <2>4 DEF Attribution
  <2>6. calls' \in [Users -> [Legs -> Entry]]
    BY <2>1, <2>2 DEF Entry, CallsByUser
  <2>7. shown' \in [Users -> [inCall : BOOLEAN, talking : BOOLEAN]]
    <3>1. \A u \in Users : Presence(calls'[u]) \in [inCall : BOOLEAN, talking : BOOLEAN]
      BY DEF Presence
    <3> QED
      BY <2>1, <3>1 DEF TypeOK
  <2>8. dashboard' \in [total : Nat, answered : Nat]
    BY <2>1, CountersType
  <2> QED
    BY <2>1, <2>2, <2>3, <2>5, <2>6, <2>7, <2>8 DEF TypeOK
<1> QED
  BY <1>1, <1>2, <1>3 DEF Reconcile

(* FreeSWITCH, the link and directory changes keep the types. *)
LEMMA EnvironmentType ==
  TypeOK /\ (Switch \/ Link \/ Administration) => TypeOK'
<1> SUFFICES ASSUME TypeOK
             PROVE  (Switch \/ Link \/ Administration) => TypeOK'
  OBVIOUS
<1>1. ASSUME NEW l \in Legs, NEW k \in Kinds, NEW from, NEW to \in LegState,
             SwitchStep(l, from, to, k)
      PROVE  TypeOK'
  BY <1>1 DEF SwitchStep, Emit, TypeOK, Event, Ev
<1>2. Switch => TypeOK'
  BY <1>1 DEF Switch, Ring, Answer, Abandon, Complete, Kinds, LegState, Live, Gone
<1>3. Link => TypeOK'
  <2>1. ASSUME LoseConnection
        PROVE  TypeOK'
    <3>1. failures' \in 0 .. MaxFailures
      BY <2>1, ConstantsAssumption DEF LoseConnection, TypeOK, May
    <3>2. pending' \subseteq Event
      BY <2>1 DEF LoseConnection, TypeOK
    <3> QED
      BY <2>1, <3>1, <3>2 DEF LoseConnection, TypeOK
  <2>2. Reconnect => TypeOK'
    BY DEF Reconnect, TypeOK
  <2> QED
    BY <2>1, <2>2 DEF Link
<1>4. Administration => TypeOK'
  BY DEF Administration, AddUser, DeleteUser, ChangeUser, TypeOK
<1> QED
  BY <1>2, <1>3, <1>4

(* Pending events are those of the leg's past: only FreeSWITCH adds to     *)
(* them, and a leg never goes back.                                        *)
LEMMA EventsStep == TypeInv /\ [Next]_vars => EventsOccurred'
<1> SUFFICES ASSUME TypeOK, EventsOccurred, [Next]_vars
             PROVE  EventsOccurred'
  BY DEF TypeInv
<1>1. ASSUME leg' = leg, pending' \subseteq pending
      PROVE  EventsOccurred'
  BY <1>1 DEF EventsOccurred
<1>2. CASE Switch
  <2> PICK l \in Legs : Ring(l) \/ Answer(l) \/ Abandon(l) \/ Complete(l)
    BY <1>2 DEF Switch
  <2> USE DEF SwitchStep, Emit, EventsOccurred, TypeOK, Ev, Gone
  <2>1. CASE Ring(l)
    BY <2>1 DEF Ring
  <2>2. CASE Answer(l)
    BY <2>2 DEF Answer
  <2>3. CASE Abandon(l)
    BY <2>3 DEF Abandon
  <2>4. CASE Complete(l)
    BY <2>4 DEF Complete
  <2> QED
    BY <2>1, <2>2, <2>3, <2>4
<1>3. CASE Handlers
  <2> PICK k \in Kinds, l \in Legs : Handle(k, l)
    BY <1>3 DEF Handlers
  <2>1. leg' = leg /\ pending' \subseteq pending
    BY DEF Handle, ChannelCreateHandler, ChannelAnswerHandler,
           ChannelDestroyHandler, Begin
  <2> QED
    BY <1>1, <2>1
<1>4. CASE Reconcile
  BY <1>1, <1>4 DEF Reconcile, AskChannels, ReplaceChannels, ChannelsUnavailable
<1>5. CASE Link
  BY <1>1, <1>5 DEF Link, LoseConnection, Reconnect
<1>6. CASE Administration
  BY <1>1, <1>6 DEF Administration, AddUser, DeleteUser, ChangeUser
<1>7. CASE UNCHANGED vars
  BY <1>1, <1>7 DEF vars
<1> QED
  BY <1>2, <1>3, <1>4, <1>5, <1>6, <1>7 DEF Next

(* A fresh CustomPBX beside a FreeSWITCH with calls satisfies the invariant. *)
LEMMA InitTypeInv == Init => TypeInv
<1> SUFFICES ASSUME Init
             PROVE  TypeInv
  OBVIOUS
<1>1. Counters(NoCalls) \in [total : Nat, answered : Nat]
  BY CountersType
<1>2. Presence(NoCalls) \in [inCall : BOOLEAN, talking : BOOLEAN]
  BY DEF Presence
<1>3. TypeOK
  BY <1>1, <1>2, ConstantsAssumption
  DEF Init, TypeOK, NoCalls, LegState, Entry, Live, Event, Publication
<1> QED
  BY <1>3 DEF TypeInv, EventsOccurred, Init

(* The type invariant is inductive with "a pending event has happened". *)
LEMMA TypeInvStep == TypeInv /\ [Next]_vars => TypeInv'
<1> SUFFICES ASSUME TypeInv, [Next]_vars
             PROVE  TypeOK'
  BY EventsStep DEF TypeInv
<1>1. CASE UNCHANGED vars
  BY <1>1 DEF TypeInv, TypeOK, vars
<1> QED
  BY <1>1, HandlersType, ReconcileType, EnvironmentType DEF Next, TypeInv

(* Every variable stays in its range, and only events that have happened   *)
(* are ever pending.                                                       *)
THEOREM TypeCorrect == Spec => []TypeInv
BY InitTypeInv, TypeInvStep, PTL DEF Spec

(* Every variable of the call state stays in its range. *)
THEOREM TypeCorrectOK == Spec => []TypeOK
BY TypeCorrect, PTL DEF TypeInv

-----------------------------------------------------------------------------
(* The two caches agree. *)

(* Without database failures every lookup succeeds. *)
LEMMA DatabaseUp ==
  ASSUME "database" \notin FailureKinds, NEW dbUp \in BOOLEAN, DatabaseAnswers(dbUp)
  PROVE  dbUp
BY DEF DatabaseAnswers, May

(* One entry s of channel l is written to both caches, for the user that   *)
(* the directory names: what each of the three handlers comes down to.     *)
LEMMA EntryStep ==
  ASSUME TypeOK, CachesInv, NEW l \in Legs, NEW s \in Entry,
         directory' = directory,
         cached' = [cached EXCEPT ![l] = s],
         SetCall(Lookup(l, TRUE), l, s),
         \/ cachedUser' = [cachedUser EXCEPT ![l] = Lookup(l, TRUE)] /\ s # "none"
         \/ cachedUser' = [cachedUser EXCEPT ![l] = NoUser]
         \/ cachedUser' = cachedUser /\ s # "none"
  PROVE  CachesInv'
<1> DEFINE user == Lookup(l, TRUE)
<1>1. user \in Users \cup {NoUser}
  BY LookupResult
<1>2. /\ user # NoUser => user = Owner[l] /\ directory[Owner[l]] = "present"
      /\ user = NoUser => Owner[l] = NoUser \/ directory[Owner[l]] # "present"
  BY LookupResult
<1> SetCall(user, l, s)
  OBVIOUS
<1> HIDE DEF user
<1>3. \A v \in Users, m \in Legs :
        calls'[v][m] = IF v = user /\ m = l THEN s ELSE calls[v][m]
  BY <1>1, SetCallEffect
<1>4. \A m \in Legs : cached'[m] = IF m = l THEN s ELSE cached[m]
  BY DEF TypeOK
<1>5. \A m \in Legs : m # l => cachedUser'[m] = cachedUser[m]
  BY DEF TypeOK
<1>6. \/ cachedUser'[l] = user /\ s # "none"
      \/ cachedUser'[l] = NoUser
      \/ cachedUser'[l] = cachedUser[l] /\ s # "none"
  BY DEF TypeOK, user
<1>7. AttributedToOwner'
  <2>1. ASSUME NEW u \in Users, NEW m \in Legs, directory[u] = "absent"
        PROVE  calls'[u][m] = "none"
    <3>1. u # user
      BY <2>1, <1>2, ConstantsAssumption
    <3> QED
      BY <2>1, <3>1, <1>3 DEF CachesInv, AttributedToOwner
  <2>2. ASSUME NEW m \in Legs, cachedUser'[m] # NoUser
        PROVE  cachedUser'[m] = Owner[m] /\ directory[Owner[m]] # "absent"
    <3>1. cachedUser'[m] = cachedUser[m] \/ (m = l /\ cachedUser'[m] = user)
      BY <2>2, <1>5, <1>6
    <3> QED
      BY <2>2, <3>1, <1>2 DEF CachesInv, AttributedToOwner
  <2> QED
    BY <2>1, <2>2 DEF AttributedToOwner
<1>8. NoStrayCall'
  <2> SUFFICES ASSUME NEW u \in Users, NEW m \in Legs,
                      directory[u] # "deleted", calls'[u][m] # "none"
               PROVE  Owner[m] = u /\ cached'[m] = calls'[u][m]
    BY DEF NoStrayCall
  <2>1. CASE m # l
    BY <2>1, <1>3, <1>4 DEF CachesInv, NoStrayCall
  <2>2. CASE m = l /\ u = user
    BY <2>2, <1>2, <1>3, <1>4, ConstantsAssumption
  <2>3. CASE m = l /\ u # user
    <3>1. calls[u][l] # "none"
      BY <2>3, <1>3
    <3>2. Owner[l] = u /\ directory[u] # "absent"
      BY <3>1 DEF CachesInv, NoStrayCall, AttributedToOwner
    <3>3. directory[u] = "present"
      BY <3>2 DEF TypeOK
    <3> QED
      BY <3>2, <3>3, <2>3, <1>2, ConstantsAssumption
  <2> QED
    BY <2>1, <2>2, <2>3
<1>9. NoLostCall'
  <2> SUFFICES ASSUME NEW m \in Legs, cachedUser'[m] # NoUser
               PROVE  /\ cached'[m] # "none"
                      /\ directory[cachedUser'[m]] # "deleted" =>
                           calls'[cachedUser'[m]][m] = cached'[m]
    BY DEF NoLostCall
  <2>1. CASE m # l
    <3>1. cachedUser'[m] = cachedUser[m] /\ cachedUser[m] \in Users
      BY <2>1, <1>5 DEF TypeOK
    <3> QED
      BY <3>1, <2>1, <1>3, <1>4 DEF CachesInv, NoLostCall
  <2>2. CASE m = l
    <3>1. s # "none" /\ (cachedUser'[l] = user \/ cachedUser'[l] = cachedUser[l])
      BY <2>2, <1>6
    <3>2. /\ cachedUser'[l] = Owner[l] /\ cachedUser'[l] \in Users
          /\ directory[Owner[l]] # "absent"
      BY <3>1, <2>2, <1>1, <1>2 DEF CachesInv, AttributedToOwner, TypeOK
    <3>3. directory[Owner[l]] # "deleted" => Owner[l] = user
      BY <3>2, <1>2, ConstantsAssumption DEF TypeOK
    <3> QED
      BY <3>1, <3>2, <3>3, <2>2, <1>3, <1>4
  <2> QED
    BY <2>1, <2>2
<1> QED
  BY <1>7, <1>8, <1>9 DEF CachesInv

(* A handler updates the users' calls together with the channels. *)
LEMMA HandlersCaches ==
  ASSUME "database" \notin FailureKinds, TypeOK, CachesInv, Handlers
  PROVE  CachesInv'
<1> PICK k \in Kinds, l \in Legs : Handle(k, l)
  BY DEF Handlers
<1>1. CASE ChannelCreateHandler(l)
  BY <1>1, DatabaseUp, EntryStep
  DEF ChannelCreateHandler, Begin, PutChannel, Entry, Live
<1>2. CASE ChannelAnswerHandler(l)
  <2>1. CASE cached[l] = "none"
    BY <1>2, <2>1 DEF ChannelAnswerHandler, Begin, CachesInv, AttributedToOwner,
                      NoStrayCall, NoLostCall
  <2>2. CASE cached[l] # "none"
    BY <1>2, <2>2, DatabaseUp, EntryStep
    DEF ChannelAnswerHandler, Begin, PutChannel, Entry, Live
  <2> QED
    BY <2>1, <2>2
<1>3. CASE ChannelDestroyHandler(l)
  <2>1. directory' = directory /\ Forget(l, Removed(l), TRUE)
    BY <1>3, DatabaseUp DEF ChannelDestroyHandler, Begin
  <2>2. CASE Removed(l) \in Legs
    <3> DEFINE m == Removed(l)
    <3>1. m # NoLeg
      BY <2>2, ConstantsAssumption
    <3>2. /\ cached' = [cached EXCEPT ![m] = "none"]
          /\ cachedUser' = [cachedUser EXCEPT ![m] = NoUser]
          /\ SetCall(Lookup(m, TRUE), m, "none")
      BY <2>1, <3>1 DEF Forget, PutChannel
    <3> HIDE DEF m
    <3> QED
      BY <2>1, <2>2, <3>2, EntryStep DEF m, Entry
  <2>3. CASE Removed(l) = NoLeg
    <3>1. /\ SetCall(Lookup(l, TRUE), l, "none")
          /\ cached' = cached /\ cachedUser' = cachedUser
      BY <2>1, <2>3 DEF Forget
    <3>2. cached[l] = "none"
      BY <2>3, RemovedChannel
    <3>3. cachedUser[l] = NoUser
      BY <3>2 DEF CachesInv, NoLostCall
    <3>4. /\ cached' = [cached EXCEPT ![l] = "none"]
          /\ cachedUser' = [cachedUser EXCEPT ![l] = NoUser]
      BY <3>1, <3>2, <3>3 DEF TypeOK
    <3> QED
      BY <2>1, <3>1, <3>4, EntryStep DEF Entry
  <2> QED
    BY <2>2, <2>3, RemovedChannel
<1> QED
  BY <1>1, <1>2, <1>3 DEF Handle

(* A reconciliation installs in both caches what one reply lists. *)
LEMMA ReplaceCaches ==
  ASSUME "database" \notin FailureKinds, TypeOK, CachesInv, ReplaceChannels
  PROVE  CachesInv'
<1>1. PICK lost \in SUBSET Legs, missed \in SUBSET Users :
        /\ ~MutexFree
        /\ DatabaseAnswers(lost = {} /\ missed = {})
        /\ cached' = snapshot
        /\ cachedUser' = Attribution(lost)
        /\ calls' = CallsByUser(cachedUser')
        /\ directory' = directory
  BY DEF ReplaceChannels
<1>2. lost = {} /\ missed = {}
  BY <1>1, DatabaseUp
<1>3. \A l \in Legs : cachedUser'[l] = IF snapshot[l] = "none" THEN NoUser
                                      ELSE Lookup(l, TRUE)
  BY <1>1, <1>2 DEF Attribution
<1>4. \A l \in Legs : cachedUser'[l] # NoUser =>
        /\ snapshot[l] # "none"
        /\ cachedUser'[l] = Owner[l] /\ Owner[l] \in Users
        /\ directory[Owner[l]] = "present"
  BY <1>3, LookupResult
<1>5. \A u \in Users, l \in Legs :
        calls'[u][l] = IF cachedUser'[l] = u THEN snapshot[l] ELSE "none"
  BY <1>1 DEF CallsByUser
<1>6. AttributedToOwner'
  BY <1>1, <1>4, <1>5, ConstantsAssumption DEF AttributedToOwner
<1>7. NoStrayCall'
  BY <1>1, <1>4, <1>5, ConstantsAssumption DEF NoStrayCall
<1>8. NoLostCall'
  BY <1>1, <1>4, <1>5 DEF NoLostCall
<1> QED
  BY <1>6, <1>7, <1>8 DEF CachesInv

(* The agreement of the two caches is inductive while the database answers. *)
LEMMA CachesStep ==
  ASSUME "database" \notin FailureKinds, TypeOK, CachesInv, [Next]_vars
  PROVE  CachesInv'
<1>1. CASE Handlers
  BY <1>1, HandlersCaches
<1>2. CASE ReplaceChannels
  BY <1>2, ReplaceCaches
<1>3. CASE Administration
  BY <1>3 DEF Administration, AddUser, DeleteUser, ChangeUser, CachesInv,
              AttributedToOwner, NoStrayCall, NoLostCall, TypeOK
<1>4. CASE UNCHANGED <<directory, cached, cachedUser, calls>>
  BY <1>4 DEF CachesInv, AttributedToOwner, NoStrayCall, NoLostCall
<1>5. (Switch \/ Link \/ AskChannels \/ ChannelsUnavailable \/ UNCHANGED vars) =>
        UNCHANGED <<directory, cached, cachedUser, calls>>
  BY DEF Switch, Ring, Answer, Abandon, Complete, SwitchStep, Link,
         LoseConnection, Reconnect, AskChannels, ChannelsUnavailable, vars
<1> QED
  BY <1>1, <1>2, <1>3, <1>4, <1>5 DEF Next, Reconcile

(* The users' calls and the channels cache agree in every reachable state, *)
(* for any event order, link failures and directory changes.               *)
THEOREM CallsMatch == Spec => []CallsMatchChannels
<1>1. CASE "database" \in FailureKinds
  <2>1. CallsMatchChannels
    BY <1>1 DEF CallsMatchChannels
  <2> QED
    BY <2>1, PTL
<1>2. CASE "database" \notin FailureKinds
  <2>1. Init => CachesInv
    BY DEF Init, CachesInv, AttributedToOwner, NoStrayCall, NoLostCall, NoCalls
  <2>2. TypeInv /\ CachesInv /\ [Next]_vars => CachesInv'
    BY <1>2, CachesStep DEF TypeInv
  <2>3. CachesInv => CallsMatchChannels
    BY DEF CachesInv, CallsMatchChannels
  <2> QED
    BY <2>1, <2>2, <2>3, TypeCorrect, PTL DEF Spec
<1> QED
  BY <1>1, <1>2

-----------------------------------------------------------------------------
(* What web clients were told is what the caches hold. *)

ClientsInv ==
  /\ dashboard = Counters(cached)
  /\ \A u \in Users : directory[u] # "deleted" => shown[u] = Presence(calls[u])

(* A handler tells web clients what it changed, on each of its paths. *)
LEMMA HandlersClients ==
  ASSUME TypeOK, ClientsInv, Handlers
  PROVE  ClientsInv'
<1> PICK k \in Kinds, l \in Legs : Handle(k, l)
  BY DEF Handlers
<1>1. directory' = directory
  BY DEF Handle, ChannelCreateHandler, ChannelAnswerHandler,
         ChannelDestroyHandler, Begin
<1>2. \/ UNCHANGED <<cached, dashboard>>
      \/ dashboard' = Counters(cached')
  BY DEF Handle, ChannelCreateHandler, ChannelAnswerHandler,
         ChannelDestroyHandler, Forget, PutChannel
<1>3. \/ UNCHANGED <<calls, shown>>
      \/ \E u \in Users \cup {NoUser}, m \in Legs, s \in Entry : SetCall(u, m, s)
  <2>1. CASE ChannelCreateHandler(l)
    BY <2>1, LookupResult DEF ChannelCreateHandler, Entry, Live
  <2>2. CASE ChannelAnswerHandler(l)
    BY <2>2, LookupResult DEF ChannelAnswerHandler, Entry, Live
  <2>3. CASE ChannelDestroyHandler(l)
    BY <2>3, LookupResult, RemovedChannel DEF ChannelDestroyHandler, Forget, Entry
  <2> QED
    BY <2>1, <2>2, <2>3 DEF Handle
<1>4. dashboard' = Counters(cached')
  BY <1>2 DEF ClientsInv
<1>5. ASSUME NEW v \in Users, directory[v] # "deleted"
      PROVE  shown'[v] = Presence(calls'[v])
  <2>1. CASE UNCHANGED <<calls, shown>>
    BY <1>5, <2>1 DEF ClientsInv
  <2>2. ASSUME NEW u \in Users \cup {NoUser}, NEW m \in Legs, NEW s \in Entry,
               SetCall(u, m, s)
        PROVE  shown'[v] = Presence(calls'[v])
    <3>1. CASE v = u
      BY <2>2, <3>1, SetCallEffect
    <3>2. CASE v # u
      <4>1. calls'[v] = calls[v] /\ shown'[v] = shown[v]
        BY <2>2, <3>2, SetCallEffect
      <4> QED
        BY <4>1, <1>5 DEF ClientsInv
    <3> QED
      BY <3>1, <3>2
  <2> QED
    BY <1>3, <2>1, <2>2
<1> QED
  BY <1>1, <1>4, <1>5 DEF ClientsInv

(* A user whom a reconciliation does not report had no calls and gets none. *)
LEMMA ReplaceClients ==
  ASSUME "database" \notin FailureKinds, TypeOK, CachesInv, ClientsInv,
         ReplaceChannels
  PROVE  ClientsInv'
<1>1. PICK lost \in SUBSET Legs, missed \in SUBSET Users :
        /\ DatabaseAnswers(lost = {} /\ missed = {})
        /\ cached' = snapshot
        /\ calls' = CallsByUser(cachedUser')
        /\ dashboard' = Counters(snapshot)
        /\ shown' = [u \in Users |-> IF u \in UsersByID(cachedUser', missed)
                                    THEN Presence(calls'[u]) ELSE shown[u]]
        /\ directory' = directory
  BY DEF ReplaceChannels
<1>2. lost = {} /\ missed = {}
  BY <1>1, DatabaseUp
<1>3. ASSUME NEW u \in Users, directory[u] # "deleted"
      PROVE  shown'[u] = Presence(calls'[u])
  <2>1. CASE u \in UsersByID(cachedUser', missed)
    BY <1>1, <2>1
  <2>2. CASE u \notin UsersByID(cachedUser', missed)
    <3>1. shown'[u] = Presence(calls[u])
      BY <1>1, <1>3, <2>2 DEF ClientsInv
    <3>2. calls'[u] = NoCalls
      <4>1. \A l \in Legs : cachedUser'[l] # u
        BY <2>2 DEF UsersByID
      <4>2. calls'[u] = [l \in Legs |-> IF cachedUser'[l] = u THEN snapshot[l] ELSE "none"]
        BY <1>1 DEF CallsByUser
      <4> QED
        BY <4>1, <4>2 DEF NoCalls
    <3>3. calls[u] = NoCalls
      <4>1. CASE directory[u] = "present"
        BY <4>1, <1>2, <2>2 DEF UsersByID, ActiveCallUsers
      <4>2. CASE directory[u] = "absent"
        <5>1. \A l \in Legs : calls[u][l] = "none"
          BY <4>2 DEF CachesInv, AttributedToOwner
        <5>2. calls[u] = [l \in Legs |-> calls[u][l]]
          BY DEF TypeOK
        <5> QED
          BY <5>1, <5>2 DEF NoCalls
      <4> QED
        BY <4>1, <4>2, <1>3 DEF TypeOK
    <3> QED
      BY <3>1, <3>2, <3>3
  <2> QED
    BY <2>1, <2>2
<1> QED
  BY <1>1, <1>3 DEF ClientsInv

(* What clients were told stays what the caches hold, over every step. *)
LEMMA ClientsStep ==
  ASSUME "database" \notin FailureKinds, TypeOK, CachesInv, ClientsInv, [Next]_vars
  PROVE  ClientsInv'
<1>1. CASE Handlers
  BY <1>1, HandlersClients
<1>2. CASE ReplaceChannels
  BY <1>2, ReplaceClients
<1>3. CASE Administration
  BY <1>3 DEF Administration, AddUser, DeleteUser, ChangeUser, ClientsInv, TypeOK
<1>4. CASE UNCHANGED <<directory, cached, calls, dashboard, shown>>
  BY <1>4 DEF ClientsInv
<1>5. (Switch \/ Link \/ AskChannels \/ ChannelsUnavailable \/ UNCHANGED vars) =>
        UNCHANGED <<directory, cached, calls, dashboard, shown>>
  BY DEF Switch, Ring, Answer, Abandon, Complete, SwitchStep, Link,
         LoseConnection, Reconnect, AskChannels, ChannelsUnavailable, vars
<1> QED
  BY <1>1, <1>2, <1>3, <1>4, <1>5 DEF Next, Reconcile

(* The last counters and user states sent to web clients are those of the  *)
(* caches, in every reachable state.                                       *)
THEOREM ClientsAreCurrent == Spec => []ClientsCurrent
<1>1. CASE "database" \in FailureKinds
  <2>1. ClientsCurrent
    BY <1>1 DEF ClientsCurrent
  <2> QED
    BY <2>1, PTL
<1>2. CASE "database" \notin FailureKinds
  <2>1. Init => CachesInv /\ ClientsInv
    BY DEF Init, CachesInv, AttributedToOwner, NoStrayCall, NoLostCall, NoCalls,
           ClientsInv
  <2>2. TypeInv /\ CachesInv /\ ClientsInv /\ [Next]_vars => CachesInv' /\ ClientsInv'
    BY <1>2, CachesStep, ClientsStep DEF TypeInv
  <2>3. ClientsInv => ClientsCurrent
    BY DEF ClientsInv, ClientsCurrent
  <2> QED
    BY <2>1, <2>2, <2>3, TypeCorrect, PTL DEF Spec
<1> QED
  BY <1>1, <1>2

-----------------------------------------------------------------------------
(* In-order handling leaves the cache behind only by pending events. *)

(* Events of different kinds or legs differ. *)
LEMMA EvInjective ==
  \A j, k \in Kinds, l, m \in Legs : Ev(j, m) = Ev(k, l) <=> j = k /\ m = l
BY DEF Ev

(* Handling an event takes exactly that event out, and in turn means that *)
(* no earlier event of the leg is left.                                   *)
LEMMA BeginEffect ==
  ASSUME NEW k \in Kinds, NEW l \in Legs, Begin(k, l), ~Reordering
  PROVE  /\ \A j \in Kinds, m \in Legs :
              Ev(j, m) \in pending' <=> Ev(j, m) \in pending /\ ~(j = k /\ m = l)
         /\ Ev(k, l) \in pending
         /\ k \in {"answer", "destroy"} => Ev("create", l) \notin pending
         /\ k = "destroy" => Ev("answer", l) \notin pending
         /\ \A m \in Legs : snapshot[m] = "unknown" /\ snapshot'[m] = "unknown"
         /\ leg' = leg /\ connected' = connected
BY EvInjective DEF Begin, InTurn, Before, MutexFree, NoSnapshot, Kinds

(* A step without a failure before or after it leaves the link up. *)
LEMMA NoFailure ==
  ASSUME TypeOK, [Next]_vars, failures' = 0
  PROVE  failures = 0 /\ ~ChannelsUnavailable /\ ~LoseConnection
BY ConstantsAssumption
DEF TypeOK, Next, vars, Switch, Ring, Answer, Abandon, Complete, SwitchStep,
    Handlers, Handle, ChannelCreateHandler, ChannelAnswerHandler,
    ChannelDestroyHandler, DatabaseAnswers, Reconcile, AskChannels,
    ReplaceChannels, ChannelsUnavailable, Link, LoseConnection, Reconnect,
    Administration, AddUser, DeleteUser, ChangeUser

(* A leg that changes state emits the event that the cache then awaits. *)
LEMMA SwitchLag ==
  ASSUME TypeInv, LagInv, Switch
  PROVE  LagInv'
<1> PICK l \in Legs : Ring(l) \/ Answer(l) \/ Abandon(l) \/ Complete(l)
  BY DEF Switch
<1> USE DEF TypeInv, TypeOK, EventsOccurred, LagInv, Ev, Gone, Live, SwitchStep, Emit
<1>1. CASE Ring(l)
  BY <1>1 DEF Ring
<1>2. CASE Answer(l)
  BY <1>2 DEF Answer
<1>3. CASE Abandon(l)
  BY <1>3 DEF Abandon
<1>4. CASE Complete(l)
  BY <1>4 DEF Complete
<1> QED
  BY <1>1, <1>2, <1>3, <1>4

(* A handler that runs in turn leaves no entry without the events it awaits. *)
LEMMA HandlersLag ==
  ASSUME ~Reordering, TypeInv, LagInv, Handlers
  PROVE  LagInv'
<1> PICK k \in Kinds, l \in Legs : Handle(k, l)
  BY DEF Handlers
<1>1. CASE k = "create" /\ ChannelCreateHandler(l)
  <2>1. Begin("create", l)
    BY <1>1 DEF ChannelCreateHandler
  <2>2. \A m \in Legs : cached'[m] = IF m = l THEN "ringing" ELSE cached[m]
    BY <1>1 DEF ChannelCreateHandler, PutChannel, TypeInv, TypeOK
  <2> QED
    BY <2>1, <2>2, <1>1, BeginEffect
    DEF LagInv, TypeInv, EventsOccurred, Kinds, Gone, Live
<1>2. CASE k = "answer" /\ ChannelAnswerHandler(l)
  <2>1. Begin("answer", l)
    BY <1>2 DEF ChannelAnswerHandler
  <2>2. \A m \in Legs : \/ cached'[m] = cached[m] /\ (m = l => cached[m] = "none")
                        \/ m = l /\ cached'[m] = "active"
    BY <1>2 DEF ChannelAnswerHandler, PutChannel, TypeInv, TypeOK
  <2> QED
    BY <2>1, <2>2, <1>2, BeginEffect
    DEF LagInv, TypeInv, EventsOccurred, Kinds, Gone, Live
<1>3. CASE k = "destroy" /\ ChannelDestroyHandler(l)
  <2>1. Begin("destroy", l) /\ \E dbUp \in BOOLEAN : Forget(l, Removed(l), dbUp)
    BY <1>3 DEF ChannelDestroyHandler
  <2>2. \A m \in Legs : cached'[m] = "none" \/ (m # l /\ cached'[m] = cached[m])
    BY <2>1, RemovedChannel DEF Forget, PutChannel, TypeInv, TypeOK
  <2> QED
    BY <2>1, <2>2, <1>3, BeginEffect
    DEF LagInv, TypeInv, EventsOccurred, Kinds, Gone, Live
<1> QED
  BY <1>1, <1>2, <1>3 DEF Handle

(* A snapshot is as accurate as the cache it replaces. *)
LEMMA ReconcileLag ==
  ASSUME TypeInv, LagInv, AskChannels \/ ReplaceChannels
  PROVE  LagInv'
<1>1. CASE AskChannels
  <2>1. \A m \in Legs : snapshot'[m] = IF leg[m] \in Live THEN leg[m] ELSE "none"
    BY <1>1 DEF AskChannels, Listed
  <2>2. UNCHANGED <<leg, pending, cached, connected>>
    BY <1>1 DEF AskChannels
  <2> QED
    BY <2>1, <2>2 DEF LagInv, TypeInv, EventsOccurred, Gone, Live
<1>2. CASE ReplaceChannels
  <2>1. /\ \A m \in Legs : cached'[m] = snapshot[m] /\ snapshot'[m] = "unknown"
        /\ UNCHANGED <<leg, pending, connected>>
    BY <1>2 DEF ReplaceChannels, NoSnapshot
  <2>2. \A m \in Legs : snapshot[m] \in Entry
    BY <1>2 DEF ReplaceChannels, MutexFree, TypeInv, TypeOK
  <2> QED
    BY <2>1, <2>2 DEF LagInv, Entry, Live
<1> QED
  BY <1>1, <1>2

(* The cache's lag behind FreeSWITCH stays covered by pending events. *)
LEMMA LagStep ==
  ASSUME ~Reordering, TypeInv, failures = 0 => LagInv, [Next]_vars, failures' = 0
  PROVE  LagInv'
<1>1. failures = 0 /\ ~ChannelsUnavailable /\ ~LoseConnection
  BY NoFailure DEF TypeInv
<1>2. LagInv
  BY <1>1
<1>3. CASE Switch
  BY <1>2, <1>3, SwitchLag
<1>4. CASE Handlers
  BY <1>2, <1>4, HandlersLag
<1>5. CASE AskChannels \/ ReplaceChannels
  BY <1>2, <1>5, ReconcileLag
<1>6. CASE Reconnect \/ Administration \/ UNCHANGED vars
  <2>1. UNCHANGED <<leg, pending, cached, snapshot>> /\ connected'
    BY <1>2, <1>6 DEF Reconnect, Administration, AddUser, DeleteUser, ChangeUser,
                      vars, LagInv
  <2> QED
    BY <2>1, <1>2 DEF LagInv
<1> QED
  BY <1>1, <1>3, <1>4, <1>5, <1>6 DEF Next, Reconcile, Link

(* Without failures and with each leg's events handled in order, the cache *)
(* differs from FreeSWITCH only by events that are still to be handled.    *)
THEOREM InOrder == Spec => []InOrderAccuracy
<1>1. CASE Reordering
  <2>1. InOrderAccuracy
    BY <1>1 DEF InOrderAccuracy
  <2> QED
    BY <2>1, PTL
<1>2. CASE ~Reordering
  <2> DEFINE Lag == failures = 0 => LagInv
  <2>1. Init => Lag
    BY DEF Init, LagInv, NoCalls, NoSnapshot, Live
  <2>2. TypeInv /\ Lag /\ [Next]_vars => Lag'
    BY <1>2, LagStep
  <2>3. Lag => InOrderAccuracy
    BY DEF LagInv, InOrderAccuracy
  <2> QED
    BY <2>1, <2>2, <2>3, TypeCorrect, PTL DEF Spec
<1> QED
  BY <1>1, <1>2, ConstantsAssumption
=============================================================================
