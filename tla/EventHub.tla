------------------------------ MODULE EventHub ------------------------------
(***************************************************************************)
(* From a channel event to the pages that show it.  The channel event      *)
(* handlers change the caches and put messages on eventChannel while they  *)
(* hold channelStateMu, the registration handlers without it (fsesl.go);   *)
(* TimeEvents takes them off and broadcasts them                           *)
(* (web/websocket_server.go); WsHub keeps the connections,                 *)
(* and a WsContext has a bounded queue, a goroutine that writes it and a   *)
(* goroutine that reads requests (webStruct.go).  A page that asks for the *)
(* directory users is subscribed first and answered from the cache later.  *)
(* The calls are a version number: what matters is which is newer.         *)
(***************************************************************************)
EXTENDS Naturals, Sequences

CONSTANTS
  Conns,        \* WebSocket connections, by ID: nextConnectionID never repeats
  Registrars,   \* goroutines that handle registration events
  None,         \* no message
  QueueSize,    \* WebSocketQueueSize
  BusSize,      \* the capacity of eventChannel
  MaxInputs     \* inputs of a behaviour (bound)

Topics == {"dashboard", "users"}

\* What is put on eventChannel: the call counters and a user with its calls by
\* the channel event handlers, a user and the registrations of its domain by
\* the registration handlers.
Kinds == Topics \cup {"registration", "domain"}

ASSUME HubAssumption ==
  /\ QueueSize \in Nat \ {0} /\ BusSize \in Nat \ {0}
  /\ MaxInputs \in Nat

VARIABLES
  channels,     \* ChannelsCache: the version of the call counters
  userCalls,    \* UserCache: the version of the users' calls
  handler,      \* the holder of channelStateMu: what it publishes next
  registration, \* each registration handler: what it publishes next, and the
                \* version of the calls it has read
  bus,          \* eventChannel
  posted,       \* history: every message ever put on eventChannel
  current,      \* the message TimeEvents is broadcasting
  todo,         \* the connections of its snapshot it has not come to
  connections,  \* WsHub.connections
  stopping,     \* how far WsHub.Shutdown has come
  toClose,      \* the connections of Shutdown's snapshot still to close
  conn,         \* every WsContext, with the history of what it was sent
  inputs        \* how many inputs there were (bound)

producers == <<channels, userCalls, handler, registration>>
events    == <<bus, posted, current, todo>>
hub       == <<connections, stopping, toClose>>
vars      == <<producers, events, hub, conn, inputs>>

Messages == [topic : Kinds \cup {"host", "ok", "reply"},
             n : Nat, calls : Nat, seen : SUBSET Nat]

ASSUME NoneAssumption == None \notin Messages

Note(topic) == [topic |-> topic, n |-> 0, calls |-> 0, seen |-> {}]

NoRegistration == [next |-> "none", calls |-> 0]

\* A request of a page that is being handled: what is left to do.
Requests == {<<>>} \cup ({"read"} \X SUBSET Nat) \cup ({"set"} \X SUBSET Topics)
                   \cup ({"answer"} \X Messages)

\* since, written and lost are history: Len(posted) when a subscription was
\* made, what was written to the page, and what json.Marshal refused.
Contexts ==
  [phase : {"new", "arriving", "open", "closed"}, send : Seq(Messages),
   subs : SUBSET Topics, persistent : SUBSET Topics, request : Requests,
   since : [Topics -> Nat], written : Seq(Messages), lost : SUBSET Nat]

Context(phase) ==
  [phase |-> phase, send |-> <<>>, subs |-> {}, persistent |-> {},
   request |-> <<>>, since |-> [t \in Topics |-> 0], written |-> <<>>, lost |-> {}]

TypeOK ==
  /\ channels \in Nat /\ userCalls \in Nat /\ userCalls <= channels
  /\ handler \in {"free", "counters", "user"}
  /\ registration \in [Registrars -> [next : {"none", "user", "domain"}, calls : Nat]]
  /\ bus \in Seq(Messages) /\ Len(bus) <= BusSize
  /\ posted \in Seq(Messages)
  /\ current \in Messages \cup {None} /\ todo \subseteq Conns
  /\ connections \subseteq Conns /\ toClose \subseteq Conns
  /\ stopping \in {"no", "flagged", "closing"}
  /\ conn \in [Conns -> Contexts]
  /\ \A c \in Conns : Len(conn[c].send) <= QueueSize
  /\ inputs \in 0..MaxInputs

Init ==
  /\ channels = 0 /\ userCalls = 0 /\ handler = "free"
  /\ registration = [r \in Registrars |-> NoRegistration]
  /\ bus = <<>> /\ posted = <<>> /\ current = None /\ todo = {}
  /\ connections = {} /\ stopping = "no" /\ toClose = {}
  /\ conn = [c \in Conns |-> Context("new")]
  /\ inputs = 0

\* What comes from outside: a channel or registration event, a page, its
\* request, a tick of the clock or a fault.
Input == inputs < MaxInputs /\ inputs' = inputs + 1
-----------------------------------------------------------------------------
(* The channel event handlers.  One at a time has channelStateMu: it keeps *)
(* it while it waits for room on eventChannel.                             *)

ChannelEvent ==
  /\ handler = "free"
  /\ Input
  /\ channels' = channels + 1
  /\ handler' = "counters"
  /\ UNCHANGED <<userCalls, registration, events, hub, conn>>

Post(topic, version) ==
  LET m == [topic |-> topic, n |-> Len(posted) + 1, calls |-> version, seen |-> {}]
  IN  /\ Len(bus) < BusSize
      /\ bus' = Append(bus, m)
      /\ posted' = Append(posted, m)
      /\ UNCHANGED <<current, todo>>

\* publishChannelCounters; then UserCache.SetCall when the channel is that of
\* a directory user.
PublishCounters ==
  /\ handler = "counters"
  /\ Post("dashboard", channels)
  /\ \/ userCalls' = channels /\ handler' = "user"
     \/ UNCHANGED userCalls /\ handler' = "free"
  /\ UNCHANGED <<channels, registration, hub, conn, inputs>>

PublishUser ==
  /\ handler = "user"
  /\ Post("users", userCalls)
  /\ handler' = "free"
  /\ UNCHANGED <<channels, userCalls, registration, hub, conn, inputs>>
-----------------------------------------------------------------------------
(* sofiaRegsHandler and vertoRegsHandler, each event in a goroutine of its *)
(* own, none with channelStateMu: cUser.UpdateUser reads the calls of the  *)
(* user, and the user is sent when there is room.  An event that changes   *)
(* no registration is left out: it returns before that.                    *)

RegistrationEvent(r) ==
  /\ registration[r].next = "none"
  /\ Input
  /\ registration' = [registration EXCEPT ![r] = [next |-> "user", calls |-> userCalls]]
  /\ UNCHANGED <<channels, userCalls, handler, events, hub, conn>>

\* sofiaRegsHandler goes on to the registrations of the domain.
PublishRegistration(r) ==
  /\ registration[r].next = "user"
  /\ Post("registration", registration[r].calls)
  /\ \E next \in {NoRegistration, [next |-> "domain", calls |-> 0]} :
       registration' = [registration EXCEPT ![r] = next]
  /\ UNCHANGED <<channels, userCalls, handler, hub, conn, inputs>>

PublishDomain(r) ==
  /\ registration[r].next = "domain"
  /\ Post("domain", 0)
  /\ registration' = [registration EXCEPT ![r] = NoRegistration]
  /\ UNCHANGED <<channels, userCalls, handler, hub, conn, inputs>>
-----------------------------------------------------------------------------
(* Connections: CloseWithReason closes once and unregisters.  Register     *)
(* looks at shuttingDown before and again under the lock.  A handler that  *)
(* is busy with a request when its connection is closed changes nothing    *)
(* anyone reads any more.                                                  *)

Open(c) == conn[c].phase = "open"

CloseWithReason(c) ==
  /\ conn' = [conn EXCEPT ![c] = Context("closed")]
  /\ connections' = connections \ {c}

Connect(c) ==
  /\ conn[c].phase = "new"
  /\ Input
  /\ conn' = [conn EXCEPT ![c] =
                Context(IF stopping = "no" THEN "arriving" ELSE "closed")]
  /\ UNCHANGED <<producers, events, hub>>

\* Mutant: no second look at shuttingDown.
RegisterAnyway(c) ==
  /\ conn[c].phase = "arriving"
  /\ conn' = [conn EXCEPT ![c] = Context("open")]
  /\ connections' = connections \cup {c}
  /\ UNCHANGED <<producers, events, stopping, toClose, inputs>>

Register(c) ==
  /\ conn[c].phase = "arriving"
  /\ \/ /\ stopping = "no"
        /\ conn' = [conn EXCEPT ![c] = Context("open")]
        /\ connections' = connections \cup {c}
     \/ /\ stopping # "no"
        /\ CloseWithReason(c)
  /\ UNCHANGED <<producers, events, stopping, toClose, inputs>>

\* Mutants: no capacity; a message that finds no room is dropped; TimeEvents
\* waits until the page has been written what came before.
EnqueueAlways(c, m) ==
  /\ conn' = IF Open(c) THEN [conn EXCEPT ![c].send = Append(@, m)] ELSE conn
  /\ UNCHANGED connections

EnqueueOrForget(c, m) ==
  /\ conn' = IF Open(c) /\ Len(conn[c].send) < QueueSize
             THEN [conn EXCEPT ![c].send = Append(@, m)] ELSE conn
  /\ UNCHANGED connections

EnqueueWaits(c, m) ==
  /\ Open(c) => conn[c].send = <<>>
  /\ EnqueueOrForget(c, m)

\* c.Enqueue(m), and the close of a connection whose queue is full.  A
\* connection that is closed already takes nothing.
Enqueue(c, m) ==
  \/ /\ Open(c) /\ Len(conn[c].send) < QueueSize
     /\ conn' = [conn EXCEPT ![c].send = Append(@, m)]
     /\ UNCHANGED connections
  \/ /\ Open(c) /\ Len(conn[c].send) = QueueSize
     /\ CloseWithReason(c)
  \/ /\ ~Open(c)
     /\ UNCHANGED <<conn, connections>>

\* The page goes away, a write or a ping fails, or nothing is read for
\* readTimeout.
Disconnect(c) ==
  /\ Open(c)
  /\ Input
  /\ CloseWithReason(c)
  /\ UNCHANGED <<producers, events, stopping, toClose>>

\* WsHub.Shutdown: the flag, the snapshot, then one close after the other.
Shutdown ==
  /\ stopping = "no"
  /\ Input
  /\ stopping' = "flagged"
  /\ UNCHANGED <<producers, events, connections, toClose, conn>>

ShutdownSnapshot ==
  /\ stopping = "flagged"
  /\ stopping' = "closing"
  /\ toClose' = connections
  /\ UNCHANGED <<producers, events, connections, conn, inputs>>

ShutdownClose(c) ==
  /\ c \in toClose
  /\ toClose' = toClose \ {c}
  /\ CloseWithReason(c)
  /\ UNCHANGED <<producers, events, stopping, inputs>>
-----------------------------------------------------------------------------
(* TimeEvents: one message at a time, to the connections of a snapshot.    *)

Broadcast(m) ==
  IF stopping = "no" /\ connections # {}
    THEN current' = m /\ todo' = connections
    ELSE UNCHANGED <<current, todo>>

TakeEvent ==
  /\ current = None /\ bus # <<>>
  /\ bus' = Tail(bus)
  /\ Broadcast(Head(bus))
  /\ UNCHANGED <<posted, producers, hub, conn, inputs>>

\* Every two seconds: the metrics of the host.
TwoSecondsTick ==
  /\ current = None
  /\ Input
  /\ Broadcast(Note("host"))
  /\ UNCHANGED <<bus, posted, producers, hub, conn>>

\* The subscription a message is for: GetDashboard or GetDirectoryUser.
For(kind) == IF kind \in {"host", "domain"} THEN "dashboard"
             ELSE IF kind = "registration" THEN "users" ELSE kind

Subscribed(c, kind) == For(kind) \in conn[c].subs

BroadcastTo(c) ==
  /\ current # None /\ c \in todo
  /\ todo' = todo \ {c}
  /\ current' = IF todo = {c} THEN None ELSE current
  /\ \/ Subscribed(c, current.topic) /\ Enqueue(c, current)
     \/ ~Subscribed(c, current.topic) /\ UNCHANGED <<conn, connections>>
  /\ UNCHANGED <<bus, posted, producers, stopping, toClose, inputs>>
-----------------------------------------------------------------------------
(* SendWaiter.  A message that cannot be marshalled is skipped.            *)

\* Mutant: the newest message first.
WriteNewest(c) ==
  /\ Open(c) /\ conn[c].send # <<>>
  /\ conn' = [conn EXCEPT ![c].send = SubSeq(@, 1, Len(@) - 1),
                          ![c].written = Append(@, conn[c].send[Len(conn[c].send)])]
  /\ UNCHANGED <<producers, events, hub, inputs>>

WriteMessage(c) ==
  /\ Open(c) /\ conn[c].send # <<>>
  /\ conn' = [conn EXCEPT ![c].send = Tail(@),
                          ![c].written =
                 IF Head(conn[c].send).topic \in Kinds \cup {"reply"}
                   THEN Append(@, Head(conn[c].send)) ELSE @]
  /\ UNCHANGED <<producers, events, hub, inputs>>

MarshalFails(c) ==
  /\ Open(c) /\ conn[c].send # <<>>
  /\ Input
  /\ conn' = [conn EXCEPT ![c].send = Tail(@),
                          ![c].lost = @ \cup {Head(conn[c].send).n}]
  /\ UNCHANGED <<producers, events, hub>>
-----------------------------------------------------------------------------
(* ReadWaiter and its handlers: one request of a page after the other.     *)

\* The page asks; what is left of the handler after its first step is rest.
Asks(c, subscribed, kept, rest) ==
  /\ Open(c) /\ conn[c].request = <<>>
  /\ Input
  /\ conn' = [conn EXCEPT ![c].subs = subscribed, ![c].persistent = kept,
                          ![c].request = rest,
                          ![c].since = [t \in Topics |->
                             IF t \in subscribed \ conn[c].subs
                               THEN Len(posted) ELSE @[t]]]
  /\ UNCHANGED <<producers, events, hub>>

\* What the page knows of the users' calls: its request comes after it.
Seen(c) == {conn[c].written[i].calls :
              i \in {j \in DOMAIN conn[c].written :
                       conn[c].written[j].topic \in {"users", "registration", "reply"}}}

\* GetDirectoryUsers: with keep_subscription, subscribeUser comes first.
AskUsers(c, keep) ==
  Asks(c, IF keep THEN conn[c].subs \cup {"users"} ELSE conn[c].subs,
       conn[c].persistent, <<"read", Seen(c)>>)

\* Mutant: the users as the database has them, without ApplyToUser.
ReadDatabase(c) ==
  /\ conn[c].request # <<>> /\ conn[c].request[1] = "read"
  /\ conn' = [conn EXCEPT ![c].request =
       <<"answer", [topic |-> "reply", n |-> 0, calls |-> 0, seen |-> @[2]]>>]
  /\ UNCHANGED <<producers, events, hub, inputs>>

\* getDirectoryUsers: UserCache.ApplyToUser.
ReadUsers(c) ==
  /\ conn[c].request # <<>> /\ conn[c].request[1] = "read"
  /\ conn' = [conn EXCEPT ![c].request =
       <<"answer", [topic |-> "reply", n |-> 0, calls |-> userCalls, seen |-> @[2]]>>]
  /\ UNCHANGED <<producers, events, hub, inputs>>

\* replaceSubscriptions: Subscriptions.Clear keeps the persistent ones, and
\* the new ones are set after it.
ReplaceSubscriptions(c, S) ==
  Asks(c, conn[c].persistent, conn[c].persistent, <<"set", S>>)

SetSubscriptions(c) ==
  /\ conn[c].request # <<>> /\ conn[c].request[1] = "set"
  /\ LET S == conn[c].request[2]
     IN  conn' = [conn EXCEPT ![c].subs = @ \cup S,
                    ![c].since = [t \in Topics |->
                       IF t \in S \ conn[c].subs THEN Len(posted) ELSE @[t]],
                    ![c].request = <<"answer", Note("ok")>>]
  /\ UNCHANGED <<producers, events, hub, inputs>>

AddPersistentSubscriptions(c, S) ==
  Asks(c, conn[c].subs \cup S, conn[c].persistent \cup S, <<"answer", Note("ok")>>)

\* unsubscribe with a name: Subscriptions.Del.
Unsubscribe(c, t) ==
  Asks(c, conn[c].subs \ {t}, conn[c].persistent \ {t}, <<"answer", Note("ok")>>)

\* Without a name, and also by a refused replaceSubscriptions and a logout:
\* Subscriptions.Clear.
UnsubscribeAll(c) ==
  Asks(c, conn[c].persistent, conn[c].persistent, <<"answer", Note("ok")>>)

\* sendWSResponse.
Answer(c) ==
  /\ conn[c].request # <<>> /\ conn[c].request[1] = "answer"
  /\ \/ /\ Len(conn[c].send) < QueueSize
        /\ conn' = [conn EXCEPT ![c].send = Append(@, conn[c].request[2]),
                                ![c].request = <<>>]
        /\ UNCHANGED connections
     \/ /\ Len(conn[c].send) = QueueSize
        /\ CloseWithReason(c)
  /\ UNCHANGED <<producers, events, stopping, toClose, inputs>>
-----------------------------------------------------------------------------
Next ==
  \/ ChannelEvent \/ PublishCounters \/ PublishUser
  \/ \E r \in Registrars :
       RegistrationEvent(r) \/ PublishRegistration(r) \/ PublishDomain(r)
  \/ TakeEvent \/ TwoSecondsTick
  \/ Shutdown \/ ShutdownSnapshot
  \/ \E c \in Conns :
       \/ Connect(c) \/ Register(c) \/ Disconnect(c) \/ ShutdownClose(c)
       \/ BroadcastTo(c)
       \/ WriteMessage(c) \/ MarshalFails(c)
       \/ \E keep \in BOOLEAN : AskUsers(c, keep)
       \/ ReadUsers(c) \/ SetSubscriptions(c) \/ UnsubscribeAll(c) \/ Answer(c)
       \/ \E t \in Topics :
            \/ ReplaceSubscriptions(c, {t}) \/ AddPersistentSubscriptions(c, {t})
            \/ Unsubscribe(c, t)

Spec == Init /\ [][Next]_vars

\* TimeEvents and the handlers are goroutines that are never given up.  The
\* select of TimeEvents picks at random when the two-second tick is ready as
\* well, so a waiting message is taken in the end.  Goroutines that wait for
\* room on a channel get it in turn.
Fairness == /\ SF_vars(PublishCounters) /\ SF_vars(PublishUser)
            /\ SF_vars(TakeEvent)
            /\ \A c \in Conns : WF_vars(BroadcastTo(c))
FairSpec == Spec /\ Fairness
-----------------------------------------------------------------------------
Numbers(s) == {s[i].n : i \in DOMAIN s}

\* Message n has not been offered to c yet.
OnItsWay(n, c) == \/ n > Len(posted) - Len(bus)
                  \/ current # None /\ current.n = n /\ c \in todo

(* A page that is still connected has missed nothing it subscribed to: a   *)
(* message put on eventChannel after the subscription is on its way, in    *)
(* the queue or written.  A queue that is full closes the connection, so   *)
(* that the page starts anew; only a message that cannot be marshalled is  *)
(* skipped.                                                                *)
NothingIsMissed ==
  \A c \in Conns : Open(c) /\ stopping = "no" =>
    \A t \in conn[c].subs : \A n \in conn[c].since[t] + 1 .. Len(posted) :
      For(posted[n].topic) = t =>
        OnItsWay(n, c) \/ n \in 
          Numbers(conn[c].send) \cup Numbers(conn[c].written) \cup conn[c].lost

(* Pages are never sent an older event after a newer one, nor older call   *)
(* counters or calls by the channel event handlers, which keep             *)
(* channelStateMu until their messages are on eventChannel: everything     *)
(* after it is first in, first out.  Users sent by the registration        *)
(* handlers are left out of the second part: read and sent without the     *)
(* mutex (fsesl.go:1101, :1264), they may be older than a call's sent      *)
(* before.                                                                 *)
EventsInOrder ==
  \A c \in Conns : \A i, j \in DOMAIN conn[c].written :
    LET x == conn[c].written[i]  y == conn[c].written[j]
    IN  i < j /\ x.n # 0 /\ y.n # 0 =>
          /\ x.n < y.n
          /\ x.topic = y.topic /\ x.topic \in Topics => x.calls <= y.calls

(* A page that asks for the users gets nothing older than what it had been *)
(* sent when it asked.  (It may get something older than what it was sent  *)
(* between the question and the answer.)                                   *)
AnswersAreNotOlder ==
  \A c \in Conns : \A i \in DOMAIN conn[c].written :
    conn[c].written[i].topic = "reply" =>
      \A n \in conn[c].written[i].seen : conn[c].written[i].calls >= n

(* Once Shutdown has taken its snapshot no connection is registered that   *)
(* it is not going to close, however the accept handlers interleave.       *)
NoneOutlivesShutdown == stopping = "closing" => connections \subseteq toClose

(* A handler never keeps channelStateMu for ever: slow, silent and closed  *)
(* pages do not hold up TimeEvents, so eventChannel drains.                *)
HandlersAreFreed == handler # "free" ~> handler = "free"
=============================================================================
