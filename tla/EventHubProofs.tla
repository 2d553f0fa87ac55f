--------------------------- MODULE EventHubProofs ---------------------------
(***************************************************************************)
(* For any connections, any queue and bus sizes and any number of inputs:  *)
(* the types of the hub, and that no connection outlives a shutdown; then, *)
(* in the second half, that what the pages are sent is in order, complete  *)
(* and not older than what they had.                                       *)
(***************************************************************************)
EXTENDS EventHub, TLAPS

(* A context whose queue, writes, subscriptions or request change is still *)
(* one.                                                                    *)
LEMMA ContextChanges ==
  ASSUME NEW x \in Contexts
  PROVE  /\ \A s \in Seq(Messages) : [x EXCEPT !.send = s] \in Contexts
         /\ \A s, w \in Seq(Messages) :
              [x EXCEPT !.send = s, !.written = w] \in Contexts
         /\ \A s \in Seq(Messages), l \in SUBSET Nat :
              [x EXCEPT !.send = s, !.lost = l] \in Contexts
         /\ \A r \in Requests : [x EXCEPT !.request = r] \in Contexts
         /\ \A s \in Seq(Messages), r \in Requests :
              [x EXCEPT !.send = s, !.request = r] \in Contexts
         /\ \A s, p \in SUBSET Topics, r \in Requests, f \in [Topics -> Nat] :
              [x EXCEPT !.subs = s, !.persistent = p, !.request = r, !.since = f]
                \in Contexts
         /\ \A s \in SUBSET Topics, r \in Requests, f \in [Topics -> Nat] :
              [x EXCEPT !.subs = s, !.since = f, !.request = r] \in Contexts
  BY DEF Contexts

LEMMA NewContext ==
  ASSUME NEW phase \in {"new", "arriving", "open", "closed"}
  PROVE  Context(phase) \in Contexts
<1>1. <<>> \in Seq(Messages) /\ <<>> \in Requests
  BY DEF Requests
<1> QED BY <1>1 DEF Context, Contexts

LEMMA MessageKinds ==
  /\ \A t \in Kinds \cup {"host", "ok", "reply"} : Note(t) \in Messages
  /\ \A t \in Kinds, n, v \in Nat :
       [topic |-> t, n |-> n, calls |-> v, seen |-> {}] \in Messages
  /\ \A v \in Nat, s \in SUBSET Nat :
       [topic |-> "reply", n |-> 0, calls |-> v, seen |-> s] \in Messages
  BY DEF Note, Messages

(* What the fields of a typed context are.                                 *)
LEMMA ContextFields ==
  ASSUME NEW x \in Contexts
  PROVE  /\ x.send \in Seq(Messages) /\ x.written \in Seq(Messages)
         /\ x.subs \subseteq Topics /\ x.persistent \subseteq Topics
         /\ x.request \in Requests /\ x.since \in [Topics -> Nat]
         /\ x.lost \subseteq Nat
         /\ x.phase \in {"new", "arriving", "open", "closed"}
  BY DEF Contexts

LEMMA RequestParts ==
  ASSUME NEW r \in Requests, r # <<>>
  PROVE  /\ r[1] = "read" => r[2] \in SUBSET Nat
         /\ r[1] = "set" => r[2] \in SUBSET Topics
         /\ r[1] = "answer" => r[2] \in Messages
  BY DEF Requests
-----------------------------------------------------------------------------
(* Putting a context in place of another.                                  *)
LEMMA ConnChange ==
  ASSUME NEW c \in Conns, NEW x \in Contexts, Len(x.send) <= QueueSize,
         conn \in [Conns -> Contexts],
         \A d \in Conns : Len(conn[d].send) <= QueueSize,
         conn' = [conn EXCEPT ![c] = x]
  PROVE  /\ conn' \in [Conns -> Contexts]
         /\ \A d \in Conns : Len(conn'[d].send) <= QueueSize
  OBVIOUS

LEMMA ClosedTypes ==
  ASSUME TypeOK, NEW c \in Conns, CloseWithReason(c)
  PROVE  /\ conn' \in [Conns -> Contexts]
         /\ \A d \in Conns : Len(conn'[d].send) <= QueueSize
         /\ connections' \subseteq Conns
<1>1. Context("closed") \in Contexts /\ Len(Context("closed").send) <= QueueSize
  BY NewContext, HubAssumption DEF Context
<1> QED BY <1>1, ConnChange DEF TypeOK, CloseWithReason

LEMMA EnqueueTypes ==
  ASSUME TypeOK, NEW c \in Conns, NEW m \in Messages, Enqueue(c, m)
  PROVE  /\ conn' \in [Conns -> Contexts]
         /\ \A d \in Conns : Len(conn'[d].send) <= QueueSize
         /\ connections' \subseteq Conns
<1>1. CASE Open(c) /\ Len(conn[c].send) < QueueSize
  <2> DEFINE x == [conn[c] EXCEPT !.send = Append(@, m)]
  <2>1. conn[c] \in Contexts /\ conn[c].send \in Seq(Messages)
    BY ContextFields DEF TypeOK
  <2>2. Append(conn[c].send, m) \in Seq(Messages)
        /\ Len(Append(conn[c].send, m)) = Len(conn[c].send) + 1
        /\ Len(conn[c].send) \in Nat
    BY <2>1
  <2>3. x \in Contexts
    BY <2>1, <2>2, ContextChanges
  <2>4. x.send = Append(conn[c].send, m)
    BY <2>1 DEF Contexts
  <2>5. conn' = [conn EXCEPT ![c] = x] /\ connections' = connections
    BY <1>1, HubAssumption DEF Enqueue, TypeOK
  <2>6. Len(x.send) <= QueueSize
    BY <1>1, <2>2, <2>4, HubAssumption
  <2> QED BY <2>3, <2>5, <2>6, ConnChange DEF TypeOK
<1>2. CASE Open(c) /\ Len(conn[c].send) = QueueSize
  <2>1. CloseWithReason(c)
    BY <1>2, HubAssumption DEF Enqueue
  <2> QED BY <2>1, ClosedTypes
<1>3. CASE ~Open(c)
  BY <1>3 DEF Enqueue, TypeOK
<1> QED BY <1>1, <1>2, <1>3 DEF Enqueue

LEMMA AsksTypes ==
  ASSUME TypeOK, NEW c \in Conns, NEW S \in SUBSET Topics, NEW P \in SUBSET Topics,
         NEW r \in Requests, Asks(c, S, P, r)
  PROVE  TypeOK'
<1> DEFINE f == [t \in Topics |-> IF t \in S \ conn[c].subs THEN Len(posted)
                                ELSE conn[c].since[t]]
           x == [conn[c] EXCEPT !.subs = S, !.persistent = P, !.request = r, !.since = f]
<1>1. conn[c] \in Contexts /\ conn[c].since \in [Topics -> Nat] /\ Len(posted) \in Nat
  BY ContextFields DEF TypeOK
<1>2. f \in [Topics -> Nat]
  BY <1>1
<1>3. x \in Contexts
  BY <1>1, <1>2, ContextChanges
<1>4. x.send = conn[c].send
  BY <1>1 DEF Contexts
<1>5. conn' = [conn EXCEPT ![c] = x]
  BY DEF Asks, TypeOK
<1>6. /\ conn' \in [Conns -> Contexts]
      /\ \A d \in Conns : Len(conn'[d].send) <= QueueSize
  BY <1>3, <1>4, <1>5, ConnChange DEF TypeOK
<1>7. inputs' \in 0..MaxInputs
  BY HubAssumption DEF Asks, Input, TypeOK
<1> QED BY <1>6, <1>7 DEF Asks, TypeOK, producers, events, hub
-----------------------------------------------------------------------------
LEMMA BroadcastTypes ==
  ASSUME TypeOK, NEW m \in Messages, Broadcast(m)
  PROVE  current' \in Messages \cup {None} /\ todo' \subseteq Conns
BY DEF Broadcast, TypeOK

LEMMA WrittenTypes ==
  ASSUME TypeOK, NEW c \in Conns, WriteMessage(c)
  PROVE  TypeOK'
<1> DEFINE w == IF Head(conn[c].send).topic \in Kinds \cup {"reply"}
                  THEN Append(conn[c].written, Head(conn[c].send)) ELSE conn[c].written
           x == [conn[c] EXCEPT !.send = Tail(conn[c].send), !.written = w]
<1>1. /\ conn[c] \in Contexts
      /\ conn[c].send \in Seq(Messages) /\ conn[c].written \in Seq(Messages)
      /\ conn[c].send # <<>>
  BY ContextFields DEF TypeOK, WriteMessage
<1>2. /\ Head(conn[c].send) \in Messages /\ Tail(conn[c].send) \in Seq(Messages)
      /\ Len(Tail(conn[c].send)) = Len(conn[c].send) - 1
      /\ Len(conn[c].send) \in Nat
  BY <1>1
<1>3. w \in Seq(Messages)
  BY <1>1, <1>2
<1>4. x \in Contexts
  BY <1>1, <1>2, <1>3, ContextChanges
<1>5. x.send = Tail(conn[c].send)
  BY <1>1 DEF Contexts
<1>6. conn' = [conn EXCEPT ![c] = x]
  BY DEF WriteMessage, TypeOK
<1>7. Len(x.send) <= QueueSize
  BY <1>2, <1>5, HubAssumption DEF TypeOK
<1>8. /\ conn' \in [Conns -> Contexts]
      /\ \A d \in Conns : Len(conn'[d].send) <= QueueSize
  BY <1>4, <1>6, <1>7, ConnChange DEF TypeOK
<1> QED BY <1>8 DEF WriteMessage, TypeOK, producers, events, hub

LEMMA LostTypes ==
  ASSUME TypeOK, NEW c \in Conns, MarshalFails(c)
  PROVE  TypeOK'
<1> DEFINE l == conn[c].lost \cup {Head(conn[c].send).n}
           x == [conn[c] EXCEPT !.send = Tail(conn[c].send), !.lost = l]
<1>1. /\ conn[c] \in Contexts /\ conn[c].lost \subseteq Nat
      /\ conn[c].send \in Seq(Messages) /\ conn[c].send # <<>>
  BY ContextFields DEF TypeOK, MarshalFails
<1>2. /\ Head(conn[c].send) \in Messages /\ Tail(conn[c].send) \in Seq(Messages)
      /\ Len(Tail(conn[c].send)) = Len(conn[c].send) - 1
      /\ Len(conn[c].send) \in Nat
  BY <1>1
<1>3. l \in SUBSET Nat
  BY <1>1, <1>2 DEF Messages
<1>4. x \in Contexts
  BY <1>1, <1>2, <1>3, ContextChanges
<1>5. x.send = Tail(conn[c].send)
  BY <1>1 DEF Contexts
<1>6. conn' = [conn EXCEPT ![c] = x]
  BY DEF MarshalFails, TypeOK
<1>7. Len(x.send) <= QueueSize
  BY <1>2, <1>5, HubAssumption DEF TypeOK
<1>8. /\ conn' \in [Conns -> Contexts]
      /\ \A d \in Conns : Len(conn'[d].send) <= QueueSize
  BY <1>4, <1>6, <1>7, ConnChange DEF TypeOK
<1>9. inputs' \in 0..MaxInputs
  BY HubAssumption DEF MarshalFails, Input, TypeOK
<1> QED BY <1>8, <1>9 DEF MarshalFails, TypeOK, producers, events, hub

(* A handler that goes on with its request only changes the request.       *)
LEMMA RequestChange ==
  ASSUME TypeOK, NEW c \in Conns, NEW r \in Requests,
         conn' = [conn EXCEPT ![c].request = r]
  PROVE  /\ conn' \in [Conns -> Contexts]
         /\ \A d \in Conns : Len(conn'[d].send) <= QueueSize
<1> DEFINE x == [conn[c] EXCEPT !.request = r]
<1>1. conn[c] \in Contexts
  BY DEF TypeOK
<1>2. x \in Contexts /\ x.send = conn[c].send
  BY <1>1, ContextChanges DEF Contexts
<1>3. conn' = [conn EXCEPT ![c] = x]
  BY DEF TypeOK
<1> QED BY <1>2, <1>3, ConnChange DEF TypeOK

LEMMA ReadTypes ==
  ASSUME TypeOK, NEW c \in Conns, ReadUsers(c)
  PROVE  TypeOK'
<1> DEFINE m == [topic |-> "reply", n |-> 0, calls |-> userCalls,
                 seen |-> conn[c].request[2]]
           r == <<"answer", m>>
<1>1. conn[c].request \in Requests /\ conn[c].request[2] \in SUBSET Nat
  BY ContextFields, RequestParts DEF TypeOK, ReadUsers
<1>2. m \in Messages
  BY <1>1, MessageKinds DEF TypeOK
<1>3. r \in Requests
  BY <1>2 DEF Requests
<1>4. conn' = [conn EXCEPT ![c].request = r]
  BY DEF ReadUsers
<1>5. /\ conn' \in [Conns -> Contexts]
      /\ \A d \in Conns : Len(conn'[d].send) <= QueueSize
  BY <1>3, <1>4, RequestChange
<1> QED BY <1>5 DEF ReadUsers, TypeOK, producers, events, hub

LEMMA SetTypes ==
  ASSUME TypeOK, NEW c \in Conns, SetSubscriptions(c)
  PROVE  TypeOK'
<1> DEFINE S == conn[c].request[2]
           f == [t \in Topics |-> IF t \in S \ conn[c].subs THEN Len(posted)
                                 ELSE conn[c].since[t]]
           x == [conn[c] EXCEPT !.subs = conn[c].subs \cup S, !.since = f,
                                !.request = <<"answer", Note("ok")>>]
<1>1. /\ conn[c] \in Contexts /\ conn[c].subs \subseteq Topics
      /\ conn[c].since \in [Topics -> Nat] /\ Len(posted) \in Nat
      /\ conn[c].request \in Requests
  BY ContextFields DEF TypeOK
<1>2. S \in SUBSET Topics
  BY <1>1, RequestParts DEF SetSubscriptions
<1>3. f \in [Topics -> Nat] /\ conn[c].subs \cup S \in SUBSET Topics
  BY <1>1, <1>2
<1>4. <<"answer", Note("ok")>> \in Requests
  BY MessageKinds DEF Requests
<1>5. x \in Contexts
  BY <1>1, <1>3, <1>4, ContextChanges
<1>6. x.send = conn[c].send
  BY <1>1 DEF Contexts
<1>7. conn' = [conn EXCEPT ![c] = x]
  BY DEF SetSubscriptions, TypeOK
<1>8. /\ conn' \in [Conns -> Contexts]
      /\ \A d \in Conns : Len(conn'[d].send) <= QueueSize
  BY <1>5, <1>6, <1>7, ConnChange DEF TypeOK
<1> QED BY <1>8 DEF SetSubscriptions, TypeOK, producers, events, hub

LEMMA AnswerTypes ==
  ASSUME TypeOK, NEW c \in Conns, Answer(c)
  PROVE  TypeOK'
<1> DEFINE m == conn[c].request[2]
           x == [conn[c] EXCEPT !.send = Append(conn[c].send, m), !.request = <<>>]
<1>1. /\ conn[c] \in Contexts /\ conn[c].send \in Seq(Messages)
      /\ conn[c].request \in Requests
  BY ContextFields DEF TypeOK
<1>2. m \in Messages /\ <<>> \in Requests
  BY <1>1, RequestParts DEF Answer, Requests
<1>3. CASE Len(conn[c].send) < QueueSize
  <2>1. /\ Append(conn[c].send, m) \in Seq(Messages)
        /\ Len(Append(conn[c].send, m)) = Len(conn[c].send) + 1
        /\ Len(conn[c].send) \in Nat
    BY <1>1, <1>2
  <2>2. x \in Contexts
    BY <1>1, <1>2, <2>1, ContextChanges
  <2>3. x.send = Append(conn[c].send, m)
    BY <1>1 DEF Contexts
  <2>4. Len(x.send) <= QueueSize
    BY <1>3, <2>1, <2>3, HubAssumption
  <2>5. conn' = [conn EXCEPT ![c] = x] /\ connections' = connections
    <3>1. Len(conn[c].send) # QueueSize
      BY <1>3, <2>1, HubAssumption
    <3>2. /\ conn' = [conn EXCEPT ![c].send = Append(@, m), ![c].request = <<>>]
          /\ connections' = connections
      BY <3>1 DEF Answer
    <3> QED BY <3>2 DEF TypeOK
  <2>6. /\ conn' \in [Conns -> Contexts]
        /\ \A d \in Conns : Len(conn'[d].send) <= QueueSize
    BY <2>2, <2>4, <2>5, ConnChange DEF TypeOK
  <2> QED BY <2>5, <2>6 DEF Answer, TypeOK, producers, events
<1>4. CASE Len(conn[c].send) = QueueSize
  <2>1. CloseWithReason(c)
    BY <1>4, HubAssumption DEF Answer
  <2> QED BY <2>1, ClosedTypes DEF Answer, TypeOK, producers, events
<1> QED BY <1>3, <1>4 DEF Answer
-----------------------------------------------------------------------------
(* Every state of a behaviour has the declared types: queues stay within   *)
(* WebSocketQueueSize and eventChannel within its capacity, a request is   *)
(* one its handler goes on with, and the users' calls are never newer than *)
(* the channels they come from.                                            *)
THEOREM TypeCorrect == Spec => []TypeOK
<1>1. Init => TypeOK
  <2> SUFFICES ASSUME Init PROVE TypeOK
    OBVIOUS
  <2>1. Context("new") \in Contexts /\ Context("new").send = <<>>
    BY NewContext DEF Context
  <2>2. conn \in [Conns -> Contexts] /\ \A c \in Conns : Len(conn[c].send) <= QueueSize
    BY <2>1, HubAssumption DEF Init
  <2> QED BY <2>2, HubAssumption DEF Init, TypeOK, NoRegistration
<1>2. TypeOK /\ [Next]_vars => TypeOK'
  <2> SUFFICES ASSUME TypeOK, [Next]_vars PROVE TypeOK'
    OBVIOUS
  <2>1. ASSUME Input PROVE inputs' \in 0..MaxInputs
    BY <2>1, HubAssumption DEF Input, TypeOK
  <2>2. CASE ChannelEvent
    BY <2>1, <2>2 DEF ChannelEvent, TypeOK, events, hub
  <2>3. ASSUME NEW t \in Kinds, NEW v \in Nat, Post(t, v)
        PROVE  /\ bus' \in Seq(Messages) /\ Len(bus') <= BusSize
               /\ posted' \in Seq(Messages)
               /\ current' = current /\ todo' = todo
    <3> DEFINE m == [topic |-> t, n |-> Len(posted) + 1, calls |-> v, seen |-> {}]
    <3>1. Len(posted) + 1 \in Nat
      BY DEF TypeOK
    <3>2. m \in Messages
      BY <3>1, MessageKinds
    <3>3. bus' = Append(bus, m) /\ posted' = Append(posted, m)
      BY <2>3 DEF Post
    <3>4. Len(bus') = Len(bus) + 1 /\ Len(bus) < BusSize /\ Len(bus) \in Nat
      BY <2>3, <3>3, <3>2 DEF TypeOK, Post
    <3> QED BY <2>3, <3>2, <3>3, <3>4, HubAssumption DEF TypeOK, Post
  <2>4. CASE PublishCounters
    <3>1. Post("dashboard", channels)
      BY <2>4 DEF PublishCounters
    <3>2. channels \in Nat /\ "dashboard" \in Kinds
      BY DEF TypeOK, Topics, Kinds
    <3>3. /\ bus' \in Seq(Messages) /\ Len(bus') <= BusSize
          /\ posted' \in Seq(Messages)
          /\ current' = current /\ todo' = todo
      BY <2>3, <3>1, <3>2
    <3> QED BY <2>4, <3>3 DEF PublishCounters, TypeOK, hub
  <2>5. CASE PublishUser
    <3>1. Post("users", userCalls)
      BY <2>5 DEF PublishUser
    <3>2. userCalls \in Nat /\ "users" \in Kinds
      BY DEF TypeOK, Topics, Kinds
    <3>3. /\ bus' \in Seq(Messages) /\ Len(bus') <= BusSize
          /\ posted' \in Seq(Messages)
          /\ current' = current /\ todo' = todo
      BY <2>3, <3>1, <3>2
    <3> QED BY <2>5, <3>3 DEF PublishUser, TypeOK, hub
  <2>6. CASE TakeEvent
    <3>1. /\ Head(bus) \in Messages /\ Tail(bus) \in Seq(Messages)
          /\ Len(Tail(bus)) = Len(bus) - 1 /\ Len(bus) \in Nat
      BY <2>6 DEF TakeEvent, TypeOK
    <3>2. current' \in Messages \cup {None} /\ todo' \subseteq Conns
      BY <2>6, <3>1, BroadcastTypes DEF TakeEvent
    <3>3. bus' \in Seq(Messages) /\ Len(bus') <= BusSize
      BY <2>6, <3>1, HubAssumption DEF TakeEvent, TypeOK
    <3> QED BY <2>6, <3>2, <3>3 DEF TakeEvent, TypeOK, producers, hub
  <2>7. CASE TwoSecondsTick
    <3>1. Note("host") \in Messages
      BY MessageKinds
    <3>2. current' \in Messages \cup {None} /\ todo' \subseteq Conns
      BY <2>7, <3>1, BroadcastTypes DEF TwoSecondsTick
    <3> QED BY <2>1, <2>7, <3>2 DEF TwoSecondsTick, TypeOK, producers, hub
  <2>8. CASE Shutdown
    BY <2>1, <2>8 DEF Shutdown, TypeOK, producers, events
  <2>9. CASE ShutdownSnapshot
    BY <2>9 DEF ShutdownSnapshot, TypeOK, producers, events
  <2>10. ASSUME NEW c \in Conns, Connect(c) PROVE TypeOK'
    <3> DEFINE x == Context(IF stopping = "no" THEN "arriving" ELSE "closed")
    <3>1. x \in Contexts
      BY NewContext
    <3>2. Len(x.send) <= QueueSize
      BY HubAssumption DEF Context
    <3>3. conn' = [conn EXCEPT ![c] = x]
      BY <2>10 DEF Connect
    <3>4. /\ conn' \in [Conns -> Contexts]
          /\ \A d \in Conns : Len(conn'[d].send) <= QueueSize
      BY <3>1, <3>2, <3>3, ConnChange DEF TypeOK
    <3> QED BY <2>1, <2>10, <3>4 DEF Connect, TypeOK, producers, events, hub
  <2>11. ASSUME NEW c \in Conns, Register(c) PROVE TypeOK'
    <3>1. CASE CloseWithReason(c)
      BY <2>11, <3>1, ClosedTypes DEF Register, TypeOK, producers, events
    <3>2. CASE conn' = [conn EXCEPT ![c] = Context("open")]
               /\ connections' = connections \cup {c}
      <4>1. Context("open") \in Contexts /\ Len(Context("open").send) <= QueueSize
        BY NewContext, HubAssumption DEF Context
      <4>2. /\ conn' \in [Conns -> Contexts]
            /\ \A d \in Conns : Len(conn'[d].send) <= QueueSize
        BY <3>2, <4>1, ConnChange DEF TypeOK
      <4> QED BY <2>11, <3>2, <4>2 DEF Register, TypeOK, producers, events
    <3> QED BY <2>11, <3>1, <3>2 DEF Register
  <2>12. ASSUME NEW c \in Conns, Disconnect(c) PROVE TypeOK'
    BY <2>1, <2>12, ClosedTypes DEF Disconnect, TypeOK, producers, events
  <2>13. ASSUME NEW c \in Conns, ShutdownClose(c) PROVE TypeOK'
    BY <2>13, ClosedTypes DEF ShutdownClose, TypeOK, producers, events
  <2>14. ASSUME NEW c \in Conns, BroadcastTo(c) PROVE TypeOK'
    <3>1. current \in Messages /\ todo' \subseteq Conns
          /\ current' \in Messages \cup {None}
      BY <2>14 DEF BroadcastTo, TypeOK
    <3>2. /\ conn' \in [Conns -> Contexts]
          /\ \A d \in Conns : Len(conn'[d].send) <= QueueSize
          /\ connections' \subseteq Conns
      BY <2>14, <3>1, EnqueueTypes DEF BroadcastTo, TypeOK
    <3> QED BY <2>14, <3>1, <3>2 DEF BroadcastTo, TypeOK, producers
  <2>15. ASSUME NEW c \in Conns, NEW keep \in BOOLEAN, AskUsers(c, keep) PROVE TypeOK'
    <3>1. conn[c] \in Contexts
      BY DEF TypeOK
    <3>2. Seen(c) \in SUBSET Nat
      <4>1. conn[c].written \in Seq(Messages)
        BY <3>1, ContextFields
      <4>2. \A i \in DOMAIN conn[c].written : conn[c].written[i].calls \in Nat
        <5>1. \A i \in DOMAIN conn[c].written : conn[c].written[i] \in Messages
          BY <4>1
        <5>2. \A m \in Messages : m.calls \in Nat
          BY DEF Messages
        <5> QED BY <5>1, <5>2
      <4> QED BY <4>2 DEF Seen
    <3>3. <<"read", Seen(c)>> \in Requests
      BY <3>2 DEF Requests
    <3>4. /\ (IF keep THEN conn[c].subs \cup {"users"} ELSE conn[c].subs) \in SUBSET Topics
          /\ conn[c].persistent \in SUBSET Topics
      BY <3>1, ContextFields DEF Topics
    <3> QED BY <2>15, <3>3, <3>4, AsksTypes DEF AskUsers
  <2>16. ASSUME NEW c \in Conns, NEW t \in Topics,
                \/ ReplaceSubscriptions(c, {t}) \/ AddPersistentSubscriptions(c, {t})
                \/ Unsubscribe(c, t)
         PROVE TypeOK'
    <3>1. conn[c].subs \in SUBSET Topics /\ conn[c].persistent \in SUBSET Topics
      BY ContextFields DEF TypeOK
    <3>2. <<"answer", Note("ok")>> \in Requests
      BY MessageKinds DEF Requests
    <3>3. <<"set", {t}>> \in Requests
      BY <2>16 DEF Requests
    <3>4. CASE ReplaceSubscriptions(c, {t})
      BY <3>1, <3>3, <3>4, AsksTypes DEF ReplaceSubscriptions
    <3>5. CASE AddPersistentSubscriptions(c, {t})
      <4>1. /\ conn[c].subs \cup {t} \in SUBSET Topics
            /\ conn[c].persistent \cup {t} \in SUBSET Topics
        BY <3>1, <2>16
      <4> QED BY <3>2, <3>5, <4>1, AsksTypes DEF AddPersistentSubscriptions
    <3>6. CASE Unsubscribe(c, t)
      <4>1. /\ conn[c].subs \ {t} \in SUBSET Topics
            /\ conn[c].persistent \ {t} \in SUBSET Topics
        BY <3>1
      <4> QED BY <3>2, <3>6, <4>1, AsksTypes DEF Unsubscribe
    <3> QED BY <2>16, <3>4, <3>5, <3>6
  <2>17. ASSUME NEW c \in Conns, UnsubscribeAll(c) PROVE TypeOK'
    <3>1. conn[c].persistent \in SUBSET Topics
      BY ContextFields DEF TypeOK
    <3>2. <<"answer", Note("ok")>> \in Requests
      BY MessageKinds DEF Requests
    <3> QED BY <2>17, <3>1, <3>2, AsksTypes DEF UnsubscribeAll
  <2>18. CASE UNCHANGED vars
    BY <2>18 DEF vars, producers, events, hub, TypeOK
  <2>19. ASSUME NEW r \in Registrars, RegistrationEvent(r) PROVE TypeOK'
    <3>1. registration' \in [Registrars -> [next : {"none", "user", "domain"}, calls : Nat]]
      BY <2>19 DEF RegistrationEvent, TypeOK
    <3> QED BY <2>1, <2>19, <3>1 DEF RegistrationEvent, TypeOK, events, hub
  <2>20. ASSUME NEW r \in Registrars, PublishRegistration(r) \/ PublishDomain(r)
         PROVE  TypeOK'
    <3>1. registration[r].calls \in Nat /\ 0 \in Nat
          /\ "registration" \in Kinds /\ "domain" \in Kinds
      BY DEF TypeOK, Kinds
    <3>2. Post("registration", registration[r].calls) \/ Post("domain", 0)
      BY <2>20 DEF PublishRegistration, PublishDomain
    <3>3. /\ bus' \in Seq(Messages) /\ Len(bus') <= BusSize
          /\ posted' \in Seq(Messages)
          /\ current' = current /\ todo' = todo
      BY <2>3, <3>1, <3>2
    <3>4. registration' \in [Registrars -> [next : {"none", "user", "domain"}, calls : Nat]]
      BY <2>20 DEF PublishRegistration, PublishDomain, NoRegistration, TypeOK
    <3> QED BY <2>20, <3>3, <3>4 DEF PublishRegistration, PublishDomain, TypeOK, hub
  <2> QED BY <2>2, <2>4, <2>5, <2>6, <2>7, <2>8, <2>9, <2>10, <2>11, <2>12, <2>13,
             <2>14, <2>15, <2>16, <2>17, <2>18, <2>19, <2>20, WrittenTypes, LostTypes, ReadTypes,
             SetTypes, AnswerTypes DEF Next
<1> QED BY <1>1, <1>2, PTL DEF Spec
-----------------------------------------------------------------------------
(* Once Shutdown has taken its snapshot no connection is registered that   *)
(* it is not going to close, whatever the number of connections and        *)
(* however their accept handlers interleave: Register looks at             *)
(* shuttingDown again under the lock.                                      *)
THEOREM ShutdownClosesAll == Spec => []NoneOutlivesShutdown
<1>1. Init => NoneOutlivesShutdown
  BY DEF Init, NoneOutlivesShutdown
<1>2. NoneOutlivesShutdown /\ [Next]_vars => NoneOutlivesShutdown'
  <2> SUFFICES ASSUME NoneOutlivesShutdown, [Next]_vars PROVE NoneOutlivesShutdown'
    OBVIOUS
  <2>1. ASSUME connections' \subseteq connections, stopping' = stopping,
               toClose' = toClose
        PROVE  NoneOutlivesShutdown'
    BY <2>1 DEF NoneOutlivesShutdown
  <2>2. ASSUME NEW c \in Conns, CloseWithReason(c)
        PROVE  connections' = connections \ {c}
    BY <2>2 DEF CloseWithReason
  <2>3. ASSUME NEW c \in Conns, NEW m, Enqueue(c, m)
        PROVE  connections' \subseteq connections
    BY <2>2, <2>3 DEF Enqueue
  <2>4. CASE Shutdown
    BY <2>4 DEF Shutdown, NoneOutlivesShutdown
  <2>5. CASE ShutdownSnapshot
    BY <2>5 DEF ShutdownSnapshot, NoneOutlivesShutdown
  <2>6. ASSUME NEW c \in Conns, Register(c) PROVE NoneOutlivesShutdown'
    BY <2>2, <2>6 DEF Register, NoneOutlivesShutdown
  <2>7. ASSUME NEW c \in Conns, ShutdownClose(c) PROVE NoneOutlivesShutdown'
    BY <2>2, <2>7 DEF ShutdownClose, NoneOutlivesShutdown
  <2>8. ASSUME NEW c \in Conns, Disconnect(c) \/ BroadcastTo(c) \/ Answer(c)
        PROVE  NoneOutlivesShutdown'
    BY <2>1, <2>2, <2>3, <2>8 DEF Disconnect, BroadcastTo, Answer
  <2>9. CASE ChannelEvent \/ PublishCounters \/ PublishUser \/ TakeEvent \/ TwoSecondsTick
    BY <2>1, <2>9 DEF ChannelEvent, PublishCounters, PublishUser, TakeEvent,
                      TwoSecondsTick, hub
  <2>10. ASSUME NEW c \in Conns,
                Connect(c) \/ WriteMessage(c) \/ MarshalFails(c) \/ ReadUsers(c)
                \/ SetSubscriptions(c)
         PROVE  NoneOutlivesShutdown'
    BY <2>1, <2>10 DEF Connect, WriteMessage, MarshalFails, ReadUsers, SetSubscriptions, hub
  <2>11. ASSUME NEW c \in Conns, NEW S, NEW P, NEW r, Asks(c, S, P, r)
         PROVE  NoneOutlivesShutdown'
    BY <2>1, <2>11 DEF Asks, hub
  <2>12. ASSUME NEW c \in Conns, UnsubscribeAll(c) PROVE NoneOutlivesShutdown'
    BY <2>11, <2>12 DEF UnsubscribeAll
  <2>13. ASSUME NEW c \in Conns, NEW keep \in BOOLEAN, AskUsers(c, keep)
         PROVE  NoneOutlivesShutdown'
    BY <2>11, <2>13 DEF AskUsers
  <2>14. ASSUME NEW c \in Conns, NEW t \in Topics,
                \/ ReplaceSubscriptions(c, {t}) \/ AddPersistentSubscriptions(c, {t})
                \/ Unsubscribe(c, t)
         PROVE  NoneOutlivesShutdown'
    BY <2>11, <2>14 DEF ReplaceSubscriptions, AddPersistentSubscriptions, Unsubscribe
  <2>15. CASE UNCHANGED vars
    BY <2>1, <2>15 DEF vars, hub
  <2>16. ASSUME NEW r \in Registrars,
                RegistrationEvent(r) \/ PublishRegistration(r) \/ PublishDomain(r)
         PROVE  NoneOutlivesShutdown'
    BY <2>1, <2>16 DEF RegistrationEvent, PublishRegistration, PublishDomain, hub
  <2> QED BY <2>4, <2>5, <2>6, <2>7, <2>8, <2>9, <2>10, <2>12, <2>13, <2>14, <2>15, <2>16
          DEF Next
<1> QED BY <1>1, <1>2, PTL DEF Spec

-----------------------------------------------------------------------------
(***************************************************************************)
(* What the pages are sent is in order, an answer is not older than what   *)
(* the page had been sent when it asked, and a page that is still          *)
(* connected has missed nothing.  The argument: eventChannel is the tail   *)
(* of the history of posted messages, the message TimeEvents broadcasts is *)
(* the last one it took, and everything it took earlier is what the queues *)
(* and the pages can hold.                                                 *)
(***************************************************************************)
Taken == Len(posted) - Len(bus)

\* A message that was sent: its event is one of the first k of P, it carries
\* no calls newer than u, and an answer none older than what it followed.
Sound(m, P, k, u) ==
  /\ m.n # 0 => m.n <= k /\ m = P[m.n]
  /\ m.topic \in {"users", "registration", "reply"} => m.calls <= u
  /\ m.topic = "reply" => \A v \in m.seen : v <= m.calls

Precedes(m, e) == m.n # 0 /\ e.n # 0 => m.n < e.n

Behind(x, e) ==
  /\ \A i \in DOMAIN x.send : Precedes(x.send[i], e)
  /\ \A i \in DOMAIN x.written : Precedes(x.written[i], e)

RequestSound(r, P, k, u) ==
  r # <<>> =>
    /\ r[1] = "read" => \A v \in r[2] : v <= u
    /\ r[1] = "answer" => Sound(r[2], P, k, u) /\ r[2].n = 0

ContextSound(x, P, k, u) ==
  /\ \A i \in DOMAIN x.send : Sound(x.send[i], P, k, u)
  /\ \A i \in DOMAIN x.written : Sound(x.written[i], P, k, u)
  /\ \A i, j \in DOMAIN x.send : i < j => Precedes(x.send[i], x.send[j])
  /\ \A i, j \in DOMAIN x.written : i < j => Precedes(x.written[i], x.written[j])
  /\ \A i \in DOMAIN x.written, j \in DOMAIN x.send :
       Precedes(x.written[i], x.send[j])
  /\ RequestSound(x.request, P, k, u)

PostedInOrder ==
  /\ \A i \in DOMAIN posted :
       /\ posted[i].n = i /\ posted[i].topic \in Kinds
       /\ posted[i].calls <= channels
       /\ posted[i].topic \in {"users", "registration"} => posted[i].calls <= userCalls
  /\ \A i, j \in DOMAIN posted :
       i <= j /\ posted[i].topic \in Topics /\ posted[j].topic \in Topics =>
         posted[i].calls <= posted[j].calls
  /\ handler = "user" => userCalls = channels
  /\ \A r \in Registrars : registration[r].calls <= userCalls

BusIsTheRest ==
  Len(bus) <= Len(posted) /\ \A i \in DOMAIN bus : bus[i] = posted[Taken + i]

CurrentIsNext ==
  current # None => /\ Sound(current, posted, Taken, userCalls)
                    /\ \A c \in todo : Behind(conn[c], current)

ContextsSound ==
  \A c \in Conns : ContextSound(conn[c], posted, Taken, userCalls)

HistoryInv ==
  /\ TypeOK
  /\ PostedInOrder
  /\ BusIsTheRest
  /\ CurrentIsNext
  /\ ContextsSound
-----------------------------------------------------------------------------
(* What was sound stays so as more is posted, taken and counted.           *)
LEMMA SoundLater ==
  ASSUME NEW P, NEW Q, NEW k \in Nat, NEW l \in Nat, NEW u \in Nat, NEW v \in Nat,
         k <= l, u <= v, \A i \in 1..k : Q[i] = P[i],
         NEW m \in Messages, Sound(m, P, k, u)
  PROVE  Sound(m, Q, l, v)
<1>1. m.n \in Nat /\ m.calls \in Nat
  BY DEF Messages
<1>2. m.n # 0 => m.n <= l /\ m = Q[m.n]
  <2> SUFFICES ASSUME m.n # 0 PROVE m.n <= l /\ m = Q[m.n]
    OBVIOUS
  <2>1. m.n <= k /\ m = P[m.n]
    BY DEF Sound
  <2>2. m.n \in 1..k
    BY <1>1, <2>1
  <2> QED BY <2>1, <2>2
<1> QED BY <1>1, <1>2 DEF Sound

(* The messages of a typed context and of its request.                     *)
LEMMA ContextMessages ==
  ASSUME NEW x \in Contexts
  PROVE  /\ \A i \in DOMAIN x.send : x.send[i] \in Messages
         /\ \A i \in DOMAIN x.written : x.written[i] \in Messages
         /\ x.request # <<>> /\ x.request[1] = "read" => x.request[2] \in SUBSET Nat
         /\ x.request # <<>> /\ x.request[1] = "answer" => x.request[2] \in Messages
<1>1. x.send \in Seq(Messages) /\ x.written \in Seq(Messages) /\ x.request \in Requests
  BY ContextFields
<1>2. x.request # <<>> =>
        /\ x.request[1] = "read" => x.request[2] \in SUBSET Nat
        /\ x.request[1] = "answer" => x.request[2] \in Messages
  BY <1>1, RequestParts
<1>3. /\ \A i \in DOMAIN x.send : x.send[i] \in Messages
      /\ \A i \in DOMAIN x.written : x.written[i] \in Messages
  BY <1>1
<1> QED BY <1>2, <1>3

LEMMA ContextLater ==
  ASSUME NEW P, NEW Q, NEW k \in Nat, NEW l \in Nat, NEW u \in Nat, NEW v \in Nat,
         k <= l, u <= v, \A i \in 1..k : Q[i] = P[i],
         NEW x \in Contexts, ContextSound(x, P, k, u)
  PROVE  ContextSound(x, Q, l, v)
<1>1. \A m \in Messages : Sound(m, P, k, u) => Sound(m, Q, l, v)
  BY SoundLater
<1>2. RequestSound(x.request, Q, l, v)
  <2> SUFFICES ASSUME x.request # <<>>
      PROVE  /\ x.request[1] = "read" => \A w \in x.request[2] : w <= v
             /\ x.request[1] = "answer" => Sound(x.request[2], Q, l, v) /\ x.request[2].n = 0
    BY DEF RequestSound
  <2>1. ASSUME x.request[1] = "read", NEW w \in x.request[2] PROVE w <= v
    <3>1. w \in Nat
      BY <2>1, ContextMessages
    <3>2. w <= u
      BY <2>1 DEF ContextSound, RequestSound
    <3> QED BY <3>1, <3>2
  <2>2. ASSUME x.request[1] = "answer"
        PROVE  Sound(x.request[2], Q, l, v) /\ x.request[2].n = 0
    BY <1>1, <2>2, ContextMessages DEF ContextSound, RequestSound
  <2> QED BY <2>1, <2>2
<1>3. /\ \A i \in DOMAIN x.send : Sound(x.send[i], Q, l, v)
      /\ \A i \in DOMAIN x.written : Sound(x.written[i], Q, l, v)
  BY <1>1, ContextMessages DEF ContextSound
<1> QED BY <1>2, <1>3 DEF ContextSound

LEMMA NewContextSound ==
  ASSUME NEW phase, NEW P, NEW k, NEW u
  PROVE  /\ ContextSound(Context(phase), P, k, u)
         /\ \A e : Behind(Context(phase), e)
BY DEF Context, ContextSound, RequestSound, Behind

(* Only the queue, what was written and the request matter.                *)
LEMMA OtherFields ==
  ASSUME NEW P, NEW k, NEW u, NEW x, NEW y, ContextSound(x, P, k, u),
         y.send = x.send, y.written = x.written, RequestSound(y.request, P, k, u)
  PROVE  /\ ContextSound(y, P, k, u)
         /\ \A e : Behind(x, e) => Behind(y, e)
BY DEF ContextSound, Behind

(* A message goes to the end of the queue.                                 *)
LEMMA QueueGrows ==
  ASSUME NEW P, NEW k, NEW u, NEW x \in Contexts, NEW y, NEW m \in Messages,
         ContextSound(x, P, k, u), Sound(m, P, k, u), Behind(x, m),
         y.send = Append(x.send, m), y.written = x.written,
         RequestSound(y.request, P, k, u)
  PROVE  ContextSound(y, P, k, u)
<1>1. x.send \in Seq(Messages)
  BY ContextFields
<1>2. /\ Len(x.send) \in Nat /\ Len(y.send) = Len(x.send) + 1
      /\ DOMAIN x.send = 1..Len(x.send) /\ DOMAIN y.send = 1..(Len(x.send) + 1)
      /\ \A i \in 1..Len(x.send) : y.send[i] = x.send[i]
      /\ y.send[Len(x.send) + 1] = m
  BY <1>1
<1>3. \A i \in DOMAIN y.send :
        \/ i \in DOMAIN x.send /\ y.send[i] = x.send[i]
        \/ i = Len(x.send) + 1 /\ y.send[i] = m
  BY <1>2
<1>4. \A i \in DOMAIN y.send : Sound(y.send[i], P, k, u)
  BY <1>3 DEF ContextSound
<1>5. \A i, j \in DOMAIN y.send : i < j => Precedes(y.send[i], y.send[j])
  <2> SUFFICES ASSUME NEW i \in DOMAIN y.send, NEW j \in DOMAIN y.send, i < j
      PROVE  Precedes(y.send[i], y.send[j])
    OBVIOUS
  <2>1. i \in DOMAIN x.send /\ y.send[i] = x.send[i]
    BY <1>2
  <2> QED BY <1>3, <2>1 DEF ContextSound, Behind
<1>6. \A i \in DOMAIN y.written, j \in DOMAIN y.send :
        Precedes(y.written[i], y.send[j])
  BY <1>3 DEF ContextSound, Behind
<1> QED BY <1>4, <1>5, <1>6 DEF ContextSound

(* The first message leaves the queue.                                     *)
LEMMA QueueShrinks ==
  ASSUME NEW P, NEW k, NEW u, NEW x \in Contexts, NEW y, x.send # <<>>,
         ContextSound(x, P, k, u), y.send = Tail(x.send), y.request = x.request,
         \/ y.written = x.written
         \/ y.written = Append(x.written, Head(x.send))
  PROVE  /\ ContextSound(y, P, k, u)
         /\ \A e : Behind(x, e) => Behind(y, e)
<1>1. x.send \in Seq(Messages) /\ x.written \in Seq(Messages)
  BY ContextFields
<1>2. /\ Len(x.send) \in Nat \ {0} /\ DOMAIN x.send = 1..Len(x.send)
      /\ DOMAIN y.send = 1..(Len(x.send) - 1)
      /\ \A i \in DOMAIN y.send : y.send[i] = x.send[i + 1]
      /\ Head(x.send) = x.send[1]
  BY <1>1
<1>3. \A i \in DOMAIN y.send : i \in Nat /\ i + 1 \in DOMAIN x.send
  BY <1>2
<1>4. /\ Len(x.written) \in Nat /\ DOMAIN x.written = 1..Len(x.written)
      /\ \A i \in DOMAIN y.written :
           \/ i \in DOMAIN x.written /\ y.written[i] = x.written[i]
           \/ i = Len(x.written) + 1 /\ y.written[i] = x.send[1]
  <2>1. CASE y.written = x.written
    BY <1>1, <2>1
  <2>2. CASE y.written = Append(x.written, Head(x.send))
    <3>1. /\ Len(x.written) \in Nat /\ DOMAIN x.written = 1..Len(x.written)
          /\ DOMAIN y.written = 1..(Len(x.written) + 1)
          /\ \A i \in 1..Len(x.written) : y.written[i] = x.written[i]
          /\ y.written[Len(x.written) + 1] = Head(x.send)
      BY <1>1, <1>2, <2>2
    <3> QED BY <1>2, <3>1
  <2> QED BY <2>1, <2>2
<1>5. 1 \in DOMAIN x.send
  BY <1>2
<1>6. \A i \in DOMAIN y.send : Sound(y.send[i], P, k, u)
  BY <1>2, <1>3 DEF ContextSound
<1>7. \A i \in DOMAIN y.written : Sound(y.written[i], P, k, u)
  BY <1>4, <1>5 DEF ContextSound
<1>8. \A i, j \in DOMAIN y.send : i < j => Precedes(y.send[i], y.send[j])
  <2> SUFFICES ASSUME NEW i \in DOMAIN y.send, NEW j \in DOMAIN y.send, i < j
      PROVE  Precedes(y.send[i], y.send[j])
    OBVIOUS
  <2>1. i + 1 < j + 1 /\ i + 1 \in DOMAIN x.send /\ j + 1 \in DOMAIN x.send
    BY <1>3
  <2> QED BY <1>2, <2>1 DEF ContextSound
<1>9. \A i, j \in DOMAIN y.written : i < j => Precedes(y.written[i], y.written[j])
  <2> SUFFICES ASSUME NEW i \in DOMAIN y.written, NEW j \in DOMAIN y.written, i < j
      PROVE  Precedes(y.written[i], y.written[j])
    OBVIOUS
  <2>1. i \in DOMAIN x.written /\ y.written[i] = x.written[i]
    <3>1. j <= Len(x.written) + 1
      BY <1>4
    <3>2. i # Len(x.written) + 1
      BY <1>4, <3>1
    <3> QED BY <1>4, <3>2
  <2> QED BY <1>4, <1>5, <2>1 DEF ContextSound
<1>10. \A i \in DOMAIN y.written, j \in DOMAIN y.send :
         Precedes(y.written[i], y.send[j])
  <2> SUFFICES ASSUME NEW i \in DOMAIN y.written, NEW j \in DOMAIN y.send
      PROVE  Precedes(y.written[i], y.send[j])
    OBVIOUS
  <2>1. j + 1 \in DOMAIN x.send /\ 1 < j + 1 /\ y.send[j] = x.send[j + 1]
    BY <1>2, <1>3
  <2> QED BY <1>4, <1>5, <2>1 DEF ContextSound
<1>11. \A e : Behind(x, e) => Behind(y, e)
  BY <1>2, <1>3, <1>4, <1>5 DEF Behind
<1> QED BY <1>6, <1>7, <1>8, <1>9, <1>10, <1>11 DEF ContextSound
-----------------------------------------------------------------------------
LEMMA TakenIsNat ==
  ASSUME TypeOK, BusIsTheRest
  PROVE  Taken \in Nat /\ Len(posted) \in Nat /\ Len(bus) \in Nat
BY DEF TypeOK, BusIsTheRest, Taken

(* A step of one connection, and of what TimeEvents has left to do.        *)
LEMMA OneContext ==
  ASSUME HistoryInv, TypeOK', NEW c \in Conns, NEW y,
         ContextSound(y, posted, Taken, userCalls),
         current # None /\ c \in todo' => Behind(y, current),
         conn' = [conn EXCEPT ![c] = y],
         UNCHANGED <<channels, userCalls, handler, registration, bus, posted>>,
         current' = None \/ (current' = current /\ todo' \subseteq todo)
  PROVE  HistoryInv'
<1>1. Taken' = Taken /\ PostedInOrder' /\ BusIsTheRest'
  BY DEF HistoryInv, PostedInOrder, BusIsTheRest, Taken
<1>2. \A d \in Conns : conn'[d] = IF d = c THEN y ELSE conn[d]
  BY DEF HistoryInv, TypeOK
<1>3. ContextsSound'
  <2> SUFFICES ASSUME NEW d \in Conns
      PROVE  ContextSound(conn'[d], posted, Taken, userCalls)
    BY <1>1 DEF ContextsSound
  <2> QED BY <1>2 DEF HistoryInv, ContextsSound
<1>4. CurrentIsNext'
  <2> SUFFICES ASSUME current' # None
      PROVE  /\ Sound(current', posted', Taken', userCalls')
             /\ \A d \in todo' : Behind(conn'[d], current')
    BY DEF CurrentIsNext
  <2>1. current' = current /\ todo' \subseteq todo /\ todo \subseteq Conns
    BY DEF HistoryInv, TypeOK
  <2>2. Sound(current, posted, Taken, userCalls)
    BY <2>1 DEF HistoryInv, CurrentIsNext
  <2>3. \A d \in todo' : Behind(conn'[d], current)
    <3> SUFFICES ASSUME NEW d \in todo' PROVE Behind(conn'[d], current)
      OBVIOUS
    <3>1. CASE d = c
      BY <1>2, <2>1, <3>1
    <3>2. CASE d # c
      <4>1. Behind(conn[d], current)
        BY <2>1 DEF HistoryInv, CurrentIsNext
      <4> QED BY <1>2, <2>1, <3>2, <4>1
    <3> QED BY <3>1, <3>2
  <2> QED BY <1>1, <2>1, <2>2, <2>3
<1> QED BY <1>1, <1>3, <1>4 DEF HistoryInv

(* A channel event handler posts the newest calls, a registration handler  *)
(* calls that are not newer than the cache.                                *)
LEMMA Posting ==
  ASSUME HistoryInv, TypeOK', NEW t \in Kinds, NEW v \in Nat, Post(t, v),
         userCalls <= userCalls', v <= channels,
         t \in Topics => v = channels,
         t \in {"users", "registration"} => v <= userCalls,
         UNCHANGED <<channels, conn>>, handler' = "user" => userCalls' = channels,
         \A r \in Registrars : registration'[r].calls <= userCalls'
  PROVE  HistoryInv'
<1> DEFINE m == [topic |-> t, n |-> Len(posted) + 1, calls |-> v, seen |-> {}]
<1>1. /\ Taken \in Nat /\ Len(posted) \in Nat /\ Len(bus) \in Nat
      /\ Len(bus) <= Len(posted)
  BY TakenIsNat DEF HistoryInv, BusIsTheRest
<1>2. m \in Messages
  BY <1>1, MessageKinds DEF HistoryInv, TypeOK
<1>3. /\ posted' = Append(posted, m) /\ bus' = Append(bus, m)
      /\ current' = current /\ todo' = todo
  BY DEF Post
<1>4. /\ Len(posted') = Len(posted) + 1 /\ DOMAIN posted' = 1..(Len(posted) + 1)
      /\ DOMAIN posted = 1..Len(posted)
      /\ \A i \in 1..Len(posted) : posted'[i] = posted[i]
      /\ posted'[Len(posted) + 1] = m
      /\ Len(bus') = Len(bus) + 1 /\ DOMAIN bus' = 1..(Len(bus) + 1)
      /\ DOMAIN bus = 1..Len(bus)
      /\ \A i \in 1..Len(bus) : bus'[i] = bus[i]
      /\ bus'[Len(bus) + 1] = m
  BY <1>2, <1>3 DEF HistoryInv, TypeOK
<1>5. Taken' = Taken /\ Taken <= Len(posted)
  BY <1>1, <1>4 DEF Taken
<1>6. BusIsTheRest'
  <2>1. Len(bus') <= Len(posted')
    BY <1>1, <1>4
  <2>2. ASSUME NEW i \in DOMAIN bus' PROVE bus'[i] = posted'[Taken + i]
    <3>1. CASE i \in 1..Len(bus)
      <4>1. bus[i] = posted[Taken + i]
        BY <1>4, <3>1 DEF HistoryInv, BusIsTheRest
      <4>2. Taken + i \in 1..Len(posted)
        BY <1>1, <3>1 DEF Taken
      <4> QED BY <1>4, <3>1, <4>1, <4>2
    <3>2. CASE i = Len(bus) + 1
      <4>1. Taken + i = Len(posted) + 1
        BY <1>1, <3>2 DEF Taken
      <4> QED BY <1>4, <3>2, <4>1
    <3> QED BY <1>1, <1>4, <3>1, <3>2
  <2> QED BY <1>5, <2>1, <2>2 DEF BusIsTheRest
<1>7. PostedInOrder'
  <2>0. channels \in Nat /\ userCalls \in Nat /\ userCalls' \in Nat
    BY DEF HistoryInv, TypeOK
  <2>1. \A i \in 1..Len(posted) :
          /\ posted[i] \in Messages /\ posted[i].calls \in Nat
          /\ posted[i].n = i /\ posted[i].topic \in Kinds
          /\ posted[i].calls <= channels
          /\ posted[i].topic \in {"users", "registration"} => posted[i].calls <= userCalls
    <3>1. \A i \in 1..Len(posted) : posted[i] \in Messages
      BY <1>4 DEF HistoryInv, TypeOK
    <3>2. \A e \in Messages : e.calls \in Nat
      BY DEF Messages
    <3> QED BY <1>4, <3>1, <3>2 DEF HistoryInv, PostedInOrder
  <2>2. ASSUME NEW i \in DOMAIN posted'
        PROVE  /\ posted'[i].n = i /\ posted'[i].topic \in Kinds
               /\ posted'[i].calls <= channels'
               /\ posted'[i].topic \in {"users", "registration"} =>
                    posted'[i].calls <= userCalls'
    <3>1. CASE i \in 1..Len(posted)
      BY <1>4, <2>0, <2>1, <3>1
    <3>2. CASE i = Len(posted) + 1
      BY <1>4, <2>0, <3>2
    <3> QED BY <1>1, <1>4, <3>1, <3>2
  <2>3. ASSUME NEW i \in DOMAIN posted', NEW j \in DOMAIN posted', i <= j,
               posted'[i].topic \in Topics, posted'[j].topic \in Topics
        PROVE  posted'[i].calls <= posted'[j].calls
    <3>1. CASE j \in 1..Len(posted)
      <4>1. i \in 1..Len(posted)
        BY <1>1, <1>4, <2>3, <3>1
      <4>2. posted[i].topic \in Topics /\ posted[j].topic \in Topics
        BY <1>4, <2>3, <3>1, <4>1
      <4>3. posted[i].calls <= posted[j].calls
        BY <1>4, <2>3, <3>1, <4>1, <4>2 DEF HistoryInv, PostedInOrder
      <4> QED BY <1>4, <3>1, <4>1, <4>3
    <3>2. CASE j = Len(posted) + 1
      <4>1. posted'[j].calls = channels
        BY <1>4, <2>3, <3>2
      <4> QED BY <2>2, <4>1
    <3> QED BY <1>1, <1>4, <3>1, <3>2
  <2> QED BY <2>2, <2>3 DEF PostedInOrder
<1>8. \A i \in 1..Taken : posted'[i] = posted[i]
  BY <1>1, <1>4, <1>5
<1>9. /\ userCalls \in Nat /\ userCalls' \in Nat /\ userCalls <= userCalls'
      /\ Taken <= Taken
  BY <1>1 DEF HistoryInv, TypeOK
<1> HIDE DEF m
<1>10. ContextsSound'
  <2> SUFFICES ASSUME NEW d \in Conns
      PROVE  ContextSound(conn[d], posted', Taken, userCalls')
    BY <1>5 DEF ContextsSound
  <2>1. conn[d] \in Contexts /\ ContextSound(conn[d], posted, Taken, userCalls)
    BY DEF HistoryInv, TypeOK, ContextsSound
  <2> QED BY <1>1, <1>8, <1>9, <2>1, ContextLater
<1>11. CurrentIsNext'
  <2> SUFFICES ASSUME current # None
      PROVE  /\ Sound(current, posted', Taken, userCalls')
             /\ \A d \in todo : Behind(conn[d], current)
    BY <1>3, <1>5 DEF CurrentIsNext
  <2>1. current \in Messages /\ Sound(current, posted, Taken, userCalls)
        /\ \A d \in todo : Behind(conn[d], current)
    BY DEF HistoryInv, TypeOK, CurrentIsNext
  <2> QED BY <1>1, <1>8, <1>9, <2>1, SoundLater
<1> QED BY <1>6, <1>7, <1>10, <1>11 DEF HistoryInv

(* TimeEvents takes the oldest message: it is newer than all it took.      *)
LEMMA Taking ==
  ASSUME HistoryInv, TypeOK', TakeEvent
  PROVE  HistoryInv'
<1>1. /\ Taken \in Nat /\ Len(posted) \in Nat /\ Len(bus) \in Nat \ {0}
      /\ Len(bus) <= Len(posted) /\ DOMAIN posted = 1..Len(posted)
      /\ bus # <<>> /\ bus \in Seq(Messages) /\ Taken + 1 \in 1..Len(posted)
  BY TakenIsNat DEF HistoryInv, BusIsTheRest, TakeEvent, TypeOK, Taken
<1>2. /\ bus' = Tail(bus) /\ Len(bus') = Len(bus) - 1
      /\ DOMAIN bus = 1..Len(bus) /\ DOMAIN bus' = 1..(Len(bus) - 1)
      /\ \A i \in DOMAIN bus' : bus'[i] = bus[i + 1]
      /\ Head(bus) = bus[1]
  BY <1>1 DEF TakeEvent
<1>3. /\ UNCHANGED <<posted, channels, userCalls, handler, registration, conn>>
      /\ current = None
  BY DEF TakeEvent, producers
<1>4. Taken' = Taken + 1
  BY <1>1, <1>2, <1>3 DEF Taken
<1>5. Head(bus) = posted[Taken + 1]
  BY <1>1, <1>2 DEF HistoryInv, BusIsTheRest
<1>6. BusIsTheRest'
  <2>1. ASSUME NEW i \in DOMAIN bus' PROVE bus'[i] = posted'[Taken' + i]
    <3>1. i + 1 \in DOMAIN bus /\ i \in Nat
      BY <1>1, <1>2
    <3>2. bus[i + 1] = posted[Taken + (i + 1)]
      BY <3>1 DEF HistoryInv, BusIsTheRest
    <3>3. Taken + (i + 1) = Taken' + i
      BY <1>1, <1>4, <3>1
    <3> QED BY <1>2, <1>3, <3>2, <3>3
  <2> QED BY <1>1, <1>2, <1>3, <2>1 DEF BusIsTheRest
<1>7. PostedInOrder'
  BY <1>3 DEF HistoryInv, PostedInOrder
<1>8. userCalls \in Nat
  BY DEF HistoryInv, TypeOK
<1>9. ContextsSound'
  <2> SUFFICES ASSUME NEW d \in Conns
      PROVE  ContextSound(conn[d], posted, Taken + 1, userCalls)
    BY <1>3, <1>4 DEF ContextsSound
  <2>1. conn[d] \in Contexts /\ ContextSound(conn[d], posted, Taken, userCalls)
    BY DEF HistoryInv, TypeOK, ContextsSound
  <2>2. Taken + 1 \in Nat /\ Taken <= Taken + 1
    BY <1>1
  <2> QED BY <1>1, <1>8, <2>1, <2>2, ContextLater
<1>10. CurrentIsNext'
  <2> SUFFICES ASSUME current' # None
      PROVE  /\ Sound(current', posted, Taken + 1, userCalls)
             /\ \A d \in todo' : Behind(conn[d], current')
    BY <1>3, <1>4 DEF CurrentIsNext
  <2>1. current' = posted[Taken + 1]
    BY <1>3, <1>5 DEF TakeEvent, Broadcast
  <2>2. /\ current'.n = Taken + 1 /\ current'.topic \in Kinds
        /\ current'.topic \in {"users", "registration"} => current'.calls <= userCalls
    BY <1>1, <2>1 DEF HistoryInv, PostedInOrder
  <2>3. Sound(current', posted, Taken + 1, userCalls)
    BY <1>1, <2>1, <2>2 DEF Sound, Topics, Kinds
  <2>4. ASSUME NEW d \in todo' PROVE Behind(conn[d], current')
    <3>1. conn[d] \in Contexts /\ ContextSound(conn[d], posted, Taken, userCalls)
      BY DEF HistoryInv, TypeOK, ContextsSound
    <3>2. ASSUME NEW m \in Messages, Sound(m, posted, Taken, userCalls)
          PROVE  Precedes(m, current')
      <4>1. m.n \in Nat
        BY DEF Messages
      <4> QED BY <1>1, <2>2, <3>2, <4>1 DEF Sound, Precedes
    <3>3. /\ \A i \in DOMAIN conn[d].send : Precedes(conn[d].send[i], current')
          /\ \A i \in DOMAIN conn[d].written : Precedes(conn[d].written[i], current')
      BY <3>1, <3>2, ContextMessages DEF ContextSound
    <3> QED BY <3>3 DEF Behind
  <2> QED BY <2>3, <2>4
<1> QED BY <1>6, <1>7, <1>9, <1>10 DEF HistoryInv
-----------------------------------------------------------------------------
LEMMA Closing ==
  ASSUME HistoryInv, TypeOK', NEW c \in Conns, CloseWithReason(c),
         UNCHANGED <<channels, userCalls, handler, registration, bus, posted>>,
         current' = None \/ (current' = current /\ todo' \subseteq todo)
  PROVE  HistoryInv'
BY OneContext, NewContextSound DEF CloseWithReason

LEMMA Arriving ==
  ASSUME HistoryInv, TypeOK', NEW c \in Conns, NEW phase,
         conn' = [conn EXCEPT ![c] = Context(phase)],
         UNCHANGED <<channels, userCalls, handler, registration, bus, posted, current, todo>>
  PROVE  HistoryInv'
BY OneContext, NewContextSound

(* The queue, the writes, or only other fields, of a connection change.    *)
LEMMA OneChange ==
  ASSUME HistoryInv, TypeOK', NEW c \in Conns, NEW y,
         y.send = conn[c].send, y.written = conn[c].written,
         RequestSound(y.request, posted, Taken, userCalls),
         conn' = [conn EXCEPT ![c] = y],
         UNCHANGED <<channels, userCalls, handler, registration, bus, posted, current, todo>>
  PROVE  HistoryInv'
<1>1. ContextSound(conn[c], posted, Taken, userCalls)
  BY DEF HistoryInv, ContextsSound
<1>2. /\ ContextSound(y, posted, Taken, userCalls)
      /\ \A e : Behind(conn[c], e) => Behind(y, e)
  BY <1>1, OtherFields
<1>3. current # None /\ c \in todo' => Behind(y, current)
  BY <1>2 DEF HistoryInv, CurrentIsNext
<1> QED BY <1>2, <1>3, OneContext

LEMMA Asking ==
  ASSUME HistoryInv, TypeOK', NEW c \in Conns, NEW S, NEW p, NEW r,
         RequestSound(r, posted, Taken, userCalls), Asks(c, S, p, r)
  PROVE  HistoryInv'
<1> DEFINE f == [t \in Topics |-> IF t \in S \ conn[c].subs THEN Len(posted)
                                ELSE conn[c].since[t]]
           y == [conn[c] EXCEPT !.subs = S, !.persistent = p, !.request = r, !.since = f]
<1>1. conn' = [conn EXCEPT ![c] = y]
  BY DEF Asks, HistoryInv, TypeOK
<1>2. conn[c] \in Contexts
  BY DEF HistoryInv, TypeOK
<1>3. y.send = conn[c].send /\ y.written = conn[c].written /\ y.request = r
  BY <1>2 DEF Contexts
<1>4. UNCHANGED <<channels, userCalls, handler, registration, bus, posted, current, todo>>
  BY DEF Asks, producers, events
<1> HIDE DEF y
<1> QED BY <1>1, <1>3, <1>4, OneChange

LEMMA OkIsSound ==
  ASSUME NEW P, NEW k, NEW u
  PROVE  RequestSound(<<"answer", Note("ok")>>, P, k, u)
BY DEF RequestSound, Note, Sound

(* What a page has seen is not newer than the calls of the cache.          *)
LEMMA SeenIsOld ==
  ASSUME HistoryInv, NEW c \in Conns
  PROVE  RequestSound(<<"read", Seen(c)>>, posted, Taken, userCalls)
<1>1. \A i \in DOMAIN conn[c].written : Sound(conn[c].written[i], posted, Taken, userCalls)
  BY DEF HistoryInv, ContextsSound, ContextSound
<1>2. \A v \in Seen(c) : v <= userCalls
  BY <1>1 DEF Seen, Sound
<1> QED BY <1>2 DEF RequestSound

LEMMA Reading ==
  ASSUME HistoryInv, TypeOK', NEW c \in Conns, ReadUsers(c)
  PROVE  HistoryInv'
<1> DEFINE m == [topic |-> "reply", n |-> 0, calls |-> userCalls,
                 seen |-> conn[c].request[2]]
           y == [conn[c] EXCEPT !.request = <<"answer", m>>]
<1>1. conn[c] \in Contexts /\ conn' = [conn EXCEPT ![c] = y]
  BY DEF ReadUsers, HistoryInv, TypeOK
<1>2. y.send = conn[c].send /\ y.written = conn[c].written /\ y.request = <<"answer", m>>
  BY <1>1 DEF Contexts
<1>3. \A v \in conn[c].request[2] : v <= userCalls
  BY DEF ReadUsers, HistoryInv, ContextsSound, ContextSound, RequestSound
<1>4. userCalls \in Nat
  BY DEF HistoryInv, TypeOK
<1>5. Sound(m, posted, Taken, userCalls) /\ m.n = 0
  BY <1>3, <1>4 DEF Sound
<1>6. RequestSound(<<"answer", m>>, posted, Taken, userCalls)
  BY <1>5 DEF RequestSound
<1>7. UNCHANGED <<channels, userCalls, handler, registration, bus, posted, current, todo>>
  BY DEF ReadUsers, producers, events
<1> HIDE DEF y, m
<1> QED BY <1>1, <1>2, <1>6, <1>7, OneChange

LEMMA Setting ==
  ASSUME HistoryInv, TypeOK', NEW c \in Conns, SetSubscriptions(c)
  PROVE  HistoryInv'
<1> DEFINE S == conn[c].request[2]
           f == [t \in Topics |-> IF t \in S \ conn[c].subs THEN Len(posted)
                                 ELSE conn[c].since[t]]
           y == [conn[c] EXCEPT !.subs = conn[c].subs \cup S, !.since = f,
                                !.request = <<"answer", Note("ok")>>]
<1>1. conn[c] \in Contexts /\ conn' = [conn EXCEPT ![c] = y]
  BY DEF SetSubscriptions, HistoryInv, TypeOK
<1>2. /\ y.send = conn[c].send /\ y.written = conn[c].written
      /\ y.request = <<"answer", Note("ok")>>
  BY <1>1 DEF Contexts
<1>3. UNCHANGED <<channels, userCalls, handler, registration, bus, posted, current, todo>>
  BY DEF SetSubscriptions, producers, events
<1> HIDE DEF y
<1> QED BY <1>1, <1>2, <1>3, OkIsSound, OneChange

LEMMA Writing ==
  ASSUME HistoryInv, TypeOK', NEW c \in Conns, WriteMessage(c) \/ MarshalFails(c)
  PROVE  HistoryInv'
<1>1. conn[c] \in Contexts /\ conn[c].send # <<>>
      /\ ContextSound(conn[c], posted, Taken, userCalls)
  BY DEF WriteMessage, MarshalFails, HistoryInv, TypeOK, ContextsSound
<1>2. UNCHANGED <<channels, userCalls, handler, registration, bus, posted, current, todo>>
  BY DEF WriteMessage, MarshalFails, producers, events
<1>3. ASSUME NEW y, conn' = [conn EXCEPT ![c] = y], y.send = Tail(conn[c].send),
             y.request = conn[c].request,
             \/ y.written = conn[c].written
             \/ y.written = Append(conn[c].written, Head(conn[c].send))
      PROVE  HistoryInv'
  <2>1. /\ ContextSound(y, posted, Taken, userCalls)
        /\ \A e : Behind(conn[c], e) => Behind(y, e)
    BY <1>1, <1>3, QueueShrinks
  <2>2. current # None /\ c \in todo' => Behind(y, current)
    BY <1>2, <2>1 DEF HistoryInv, CurrentIsNext
  <2> QED BY <1>2, <1>3, <2>1, <2>2, OneContext
<1>4. CASE WriteMessage(c)
  <2> DEFINE w == IF Head(conn[c].send).topic \in Kinds \cup {"reply"}
                    THEN Append(conn[c].written, Head(conn[c].send)) ELSE conn[c].written
             y == [conn[c] EXCEPT !.send = Tail(conn[c].send), !.written = w]
  <2>1. conn' = [conn EXCEPT ![c] = y]
    BY <1>4 DEF WriteMessage, HistoryInv, TypeOK
  <2>2. y.send = Tail(conn[c].send) /\ y.request = conn[c].request /\ y.written = w
    BY <1>1 DEF Contexts
  <2>3. w = conn[c].written \/ w = Append(conn[c].written, Head(conn[c].send))
    OBVIOUS
  <2> HIDE DEF y, w
  <2> QED BY <1>3, <2>1, <2>2, <2>3
<1>5. CASE MarshalFails(c)
  <2> DEFINE y == [conn[c] EXCEPT !.send = Tail(conn[c].send),
                                  !.lost = @ \cup {Head(conn[c].send).n}]
  <2>1. conn' = [conn EXCEPT ![c] = y]
    BY <1>5 DEF MarshalFails, HistoryInv, TypeOK
  <2>2. /\ y.send = Tail(conn[c].send) /\ y.request = conn[c].request
        /\ y.written = conn[c].written
    BY <1>1 DEF Contexts
  <2> HIDE DEF y
  <2> QED BY <1>3, <2>1, <2>2
<1> QED BY <1>4, <1>5

(* A message that every message of the connection precedes is queued.      *)
LEMMA Queueing ==
  ASSUME HistoryInv, TypeOK', NEW c \in Conns, NEW m \in Messages, NEW y,
         Sound(m, posted, Taken, userCalls), Behind(conn[c], m),
         y.send = Append(conn[c].send, m), y.written = conn[c].written,
         RequestSound(y.request, posted, Taken, userCalls),
         current # None /\ c \in todo' => m.n = 0,
         conn' = [conn EXCEPT ![c] = y],
         UNCHANGED <<channels, userCalls, handler, registration, bus, posted>>,
         current' = None \/ (current' = current /\ todo' \subseteq todo)
  PROVE  HistoryInv'
<1>1. conn[c] \in Contexts /\ ContextSound(conn[c], posted, Taken, userCalls)
  BY DEF HistoryInv, TypeOK, ContextsSound
<1>2. ContextSound(y, posted, Taken, userCalls)
  BY <1>1, QueueGrows
<1>3. CASE current' = None
  <2>1. CurrentIsNext'
    BY <1>3 DEF CurrentIsNext
  <2>2. Taken' = Taken /\ PostedInOrder' /\ BusIsTheRest'
    BY DEF HistoryInv, PostedInOrder, BusIsTheRest, Taken
  <2>3. \A d \in Conns : ContextSound(conn'[d], posted, Taken, userCalls)
    BY <1>2 DEF HistoryInv, TypeOK, ContextsSound
  <2>4. ContextsSound'
    BY <2>2, <2>3 DEF ContextsSound
  <2> QED BY <2>1, <2>2, <2>4 DEF HistoryInv
<1>4. CASE current' # None
  <2>1. current # None /\ c \in todo' => Behind(y, current)
    <3> SUFFICES ASSUME current # None, c \in todo' PROVE Behind(y, current)
      OBVIOUS
    <3>1. Behind(conn[c], current) /\ m.n = 0
      BY <1>4 DEF HistoryInv, CurrentIsNext
    <3>2. \A i \in DOMAIN y.send : y.send[i] = m \/
             (i \in DOMAIN conn[c].send /\ y.send[i] = conn[c].send[i])
      <4>1. conn[c].send \in Seq(Messages)
        BY <1>1, ContextFields
      <4> QED BY <4>1
    <3> QED BY <3>1, <3>2 DEF Behind, Precedes
  <2> QED BY <1>2, <2>1, OneContext
<1> QED BY <1>3, <1>4

LEMMA Broadcasting ==
  ASSUME HistoryInv, TypeOK', NEW c \in Conns, BroadcastTo(c)
  PROVE  HistoryInv'
<1>1. /\ UNCHANGED <<channels, userCalls, handler, registration, bus, posted>>
      /\ current' = None \/ (current' = current /\ todo' \subseteq todo)
      /\ c \notin todo'
  BY DEF BroadcastTo, producers
<1>2. /\ current \in Messages /\ Sound(current, posted, Taken, userCalls)
      /\ Behind(conn[c], current) /\ conn[c] \in Contexts
      /\ RequestSound(conn[c].request, posted, Taken, userCalls)
  BY DEF BroadcastTo, HistoryInv, TypeOK, CurrentIsNext, ContextsSound, ContextSound
<1>3. CASE conn' = conn
  <2>1. ContextSound(conn[c], posted, Taken, userCalls) /\ conn' = [conn EXCEPT ![c] = conn[c]]
    BY <1>3 DEF HistoryInv, TypeOK, ContextsSound
  <2> QED BY <1>1, <2>1, OneContext
<1>4. CASE CloseWithReason(c)
  BY <1>1, <1>4, Closing
<1>5. CASE conn' = [conn EXCEPT ![c].send = Append(@, current)]
  <2> DEFINE y == [conn[c] EXCEPT !.send = Append(@, current)]
  <2>1. conn' = [conn EXCEPT ![c] = y]
    BY <1>5 DEF HistoryInv, TypeOK
  <2>2. /\ y.send = Append(conn[c].send, current) /\ y.written = conn[c].written
        /\ y.request = conn[c].request
    BY <1>2 DEF Contexts
  <2> HIDE DEF y
  <2> QED BY <1>1, <1>2, <2>1, <2>2, Queueing
<1> QED BY <1>3, <1>4, <1>5 DEF BroadcastTo, Enqueue

LEMMA Answering ==
  ASSUME HistoryInv, TypeOK', NEW c \in Conns, Answer(c)
  PROVE  HistoryInv'
<1> DEFINE m == conn[c].request[2]
           y == [conn[c] EXCEPT !.send = Append(@, m), !.request = <<>>]
<1>1. UNCHANGED <<channels, userCalls, handler, registration, bus, posted, current, todo>>
  BY DEF Answer, producers, events
<1>2. conn[c] \in Contexts /\ m \in Messages
  BY ContextMessages DEF Answer, HistoryInv, TypeOK
<1>3. Sound(m, posted, Taken, userCalls) /\ m.n = 0
  BY DEF Answer, HistoryInv, ContextsSound, ContextSound, RequestSound
<1>4. Behind(conn[c], m)
  BY <1>3 DEF Behind, Precedes
<1>5. CASE CloseWithReason(c)
  BY <1>1, <1>5, Closing
<1>6. CASE conn' = [conn EXCEPT ![c].send = Append(@, m), ![c].request = <<>>]
  <2>1. conn' = [conn EXCEPT ![c] = y]
    BY <1>6 DEF HistoryInv, TypeOK
  <2>2. /\ y.send = Append(conn[c].send, m) /\ y.written = conn[c].written
        /\ y.request = <<>>
    BY <1>2 DEF Contexts
  <2>3. RequestSound(<<>>, posted, Taken, userCalls)
    BY DEF RequestSound
  <2> HIDE DEF y, m
  <2> QED BY <1>1, <1>2, <1>3, <1>4, <2>1, <2>2, <2>3, Queueing
<1> QED BY <1>5, <1>6 DEF Answer

(* Steps that leave the connections and what is posted alone.              *)
LEMMA OtherSteps ==
  ASSUME HistoryInv, TypeOK',
         \/ ChannelEvent \/ \E r \in Registrars : RegistrationEvent(r)
         \/ TwoSecondsTick \/ Shutdown \/ ShutdownSnapshot
         \/ UNCHANGED vars
  PROVE  HistoryInv'
<1>1. /\ UNCHANGED <<userCalls, bus, posted, conn>>
      /\ channels <= channels' /\ channels \in Nat /\ channels' \in Nat
      /\ handler' = "user" => handler = "user" /\ channels' = channels
  BY DEF ChannelEvent, RegistrationEvent, TwoSecondsTick, Shutdown, ShutdownSnapshot,
         vars, producers, events, HistoryInv, TypeOK
<1>2. Taken' = Taken /\ BusIsTheRest' /\ ContextsSound'
  BY <1>1 DEF Taken, HistoryInv, BusIsTheRest, ContextsSound
<1>3. PostedInOrder'
  <2>1. \A i \in DOMAIN posted : posted[i].calls \in Nat
    <3>1. \A i \in DOMAIN posted : posted[i] \in Messages
      BY DEF HistoryInv, TypeOK
    <3>2. \A e \in Messages : e.calls \in Nat
      BY DEF Messages
    <3> QED BY <3>1, <3>2
  <2>2. \A i \in DOMAIN posted : posted[i].calls <= channels'
    BY <1>1, <2>1 DEF HistoryInv, PostedInOrder
  <2>3. \A r \in Registrars : registration'[r].calls <= userCalls
    <3>1. CASE UNCHANGED registration
      BY <3>1 DEF HistoryInv, PostedInOrder
    <3>2. ASSUME NEW r \in Registrars, RegistrationEvent(r)
          PROVE  \A q \in Registrars : registration'[q].calls <= userCalls
      <4>1. userCalls \in Nat
        BY DEF HistoryInv, TypeOK
      <4> QED BY <3>2, <4>1 DEF RegistrationEvent, HistoryInv, PostedInOrder, TypeOK
    <3> QED BY <3>1, <3>2 DEF ChannelEvent, TwoSecondsTick, Shutdown, ShutdownSnapshot,
               vars, producers
  <2> QED BY <1>1, <2>2, <2>3 DEF HistoryInv, PostedInOrder
<1>4. CurrentIsNext'
  <2>1. CASE UNCHANGED <<current, todo>>
    BY <1>1, <1>2, <2>1 DEF HistoryInv, CurrentIsNext
  <2>2. CASE current' = Note("host")
    <3>1. current'.n = 0 /\ current'.topic = "host"
      BY <2>2 DEF Note
    <3>2. Sound(current', posted', Taken', userCalls')
      BY <3>1 DEF Sound
    <3>3. \A d \in todo' : Behind(conn'[d], current')
      BY <3>1 DEF Behind, Precedes
    <3> QED BY <3>2, <3>3 DEF CurrentIsNext
  <2> QED BY <2>1, <2>2 DEF ChannelEvent, RegistrationEvent, TwoSecondsTick, Broadcast,
             Shutdown, ShutdownSnapshot, vars, events
<1> QED BY <1>2, <1>3, <1>4 DEF HistoryInv

LEMMA HistoryStep ==
  ASSUME HistoryInv, TypeOK', [Next]_vars
  PROVE  HistoryInv'
<1>0. /\ channels \in Nat /\ userCalls \in Nat /\ userCalls <= channels
      /\ \A r \in Registrars : registration[r].calls \in Nat
  BY DEF HistoryInv, TypeOK
<1>1. CASE PublishCounters
  <2>1. /\ Post("dashboard", channels) /\ UNCHANGED <<channels, registration, conn>>
        /\ userCalls' = userCalls \/ userCalls' = channels
        /\ handler' = "user" => userCalls' = channels
    BY <1>1 DEF PublishCounters
  <2>2. userCalls <= userCalls' /\ channels <= channels
        /\ "dashboard" \in Kinds /\ "dashboard" \notin {"users", "registration"}
    BY <1>0, <2>1 DEF Topics, Kinds
  <2>3. \A r \in Registrars : registration'[r].calls <= userCalls'
    BY <1>0, <2>1, <2>2 DEF HistoryInv, PostedInOrder
  <2> QED BY <1>0, <2>1, <2>2, <2>3, Posting
<1>2. CASE PublishUser
  <2>1. userCalls = channels /\ "users" \in Kinds /\ userCalls <= userCalls
    BY <1>0, <1>2 DEF PublishUser, HistoryInv, PostedInOrder, Topics, Kinds
  <2>2. Post("users", channels) /\ UNCHANGED <<channels, userCalls, registration, conn>>
        /\ handler' = "free"
    BY <1>2, <2>1 DEF PublishUser
  <2>3. userCalls <= userCalls' /\ channels <= channels /\ handler' # "user"
    BY <1>0, <2>1, <2>2
  <2>4. \A r \in Registrars : registration'[r].calls <= userCalls'
    BY <2>2 DEF HistoryInv, PostedInOrder
  <2> QED BY <1>0, <2>1, <2>2, <2>3, <2>4, Posting
<1>8. ASSUME NEW r \in Registrars, PublishRegistration(r) \/ PublishDomain(r)
      PROVE  HistoryInv'
  <2>1. UNCHANGED <<channels, userCalls, handler, conn>>
    BY <1>8 DEF PublishRegistration, PublishDomain
  <2>2. \A q \in Registrars : registration'[q].calls <= userCalls
    <3>1. \A q \in Registrars : registration[q].calls <= userCalls
      BY DEF HistoryInv, PostedInOrder
    <3>2. PICK next : /\ next.calls = 0
                      /\ registration' = [registration EXCEPT ![r] = next]
      BY <1>8 DEF PublishRegistration, PublishDomain, NoRegistration
    <3>3. \A q \in Registrars : registration'[q] = IF q = r THEN next ELSE registration[q]
      BY <3>2 DEF HistoryInv, TypeOK
    <3>4. 0 <= userCalls
      BY <1>0
    <3> QED BY <3>1, <3>2, <3>3, <3>4
  <2>3. userCalls <= userCalls' /\ (handler' = "user" => userCalls' = channels)
    BY <1>0, <2>1 DEF HistoryInv, PostedInOrder
  <2>4. CASE PublishRegistration(r)
    <3>1. Post("registration", registration[r].calls)
      BY <2>4 DEF PublishRegistration
    <3>2. registration[r].calls <= userCalls /\ registration[r].calls <= channels
      BY <1>0 DEF HistoryInv, PostedInOrder
    <3>3. "registration" \in Kinds /\ "registration" \notin Topics
      BY DEF Kinds, Topics
    <3> QED BY <1>0, <2>1, <2>2, <2>3, <3>1, <3>2, <3>3, Posting
  <2>5. CASE PublishDomain(r)
    <3>1. Post("domain", 0)
      BY <2>5 DEF PublishDomain
    <3>2. 0 <= channels /\ 0 \in Nat
      BY <1>0
    <3>3. "domain" \in Kinds /\ "domain" \notin Topics
          /\ "domain" \notin {"users", "registration"}
      BY DEF Kinds, Topics
    <3> QED BY <2>1, <2>2, <2>3, <3>1, <3>2, <3>3, Posting
  <2> QED BY <1>8, <2>4, <2>5
<1>3. ASSUME NEW c \in Conns,
             Connect(c) \/ Register(c) \/ Disconnect(c) \/ ShutdownClose(c)
      PROVE  HistoryInv'
  <2>1. UNCHANGED <<channels, userCalls, handler, registration, bus, posted, current, todo>>
    BY <1>3 DEF Connect, Register, Disconnect, ShutdownClose, producers, events
  <2>2. CloseWithReason(c) \/ \E phase : conn' = [conn EXCEPT ![c] = Context(phase)]
    BY <1>3 DEF Connect, Register, Disconnect, ShutdownClose
  <2> QED BY <2>1, <2>2, Closing, Arriving
<1>4. ASSUME NEW c \in Conns, NEW keep \in BOOLEAN, AskUsers(c, keep)
      PROVE  HistoryInv'
  BY <1>4, SeenIsOld, Asking DEF AskUsers
<1>5. ASSUME NEW c \in Conns, NEW t \in Topics,
             \/ AddPersistentSubscriptions(c, {t}) \/ Unsubscribe(c, t)
      PROVE  HistoryInv'
  BY <1>5, OkIsSound, Asking DEF AddPersistentSubscriptions, Unsubscribe
<1>6. ASSUME NEW c \in Conns, NEW t \in Topics, ReplaceSubscriptions(c, {t})
      PROVE  HistoryInv'
  <2>1. RequestSound(<<"set", {t}>>, posted, Taken, userCalls)
    BY DEF RequestSound
  <2> QED BY <1>6, <2>1, Asking DEF ReplaceSubscriptions
<1>7. ASSUME NEW c \in Conns, UnsubscribeAll(c)
      PROVE  HistoryInv'
  BY <1>7, OkIsSound, Asking DEF UnsubscribeAll
<1> QED BY <1>1, <1>2, <1>3, <1>4, <1>5, <1>6, <1>7, <1>8, Taking, OtherSteps, Broadcasting,
           Writing, Reading, Setting, Answering DEF Next

LEMMA HistoryInit == Init => HistoryInv
<1> SUFFICES ASSUME Init PROVE HistoryInv
  OBVIOUS
<1>1. TypeOK
  <2>1. Context("new") \in Contexts /\ Context("new").send = <<>>
    BY NewContext DEF Context
  <2> QED BY <2>1, HubAssumption DEF Init, TypeOK, NoRegistration
<1>2. PostedInOrder /\ BusIsTheRest /\ CurrentIsNext
  BY DEF Init, PostedInOrder, BusIsTheRest, CurrentIsNext, NoRegistration
<1>3. ContextsSound
  BY NewContextSound DEF Init, ContextsSound
<1> QED BY <1>1, <1>2, <1>3 DEF HistoryInv

(* In every behaviour the messages a page was sent and has queued are      *)
(* posted ones in the order they were posted, all taken off eventChannel,  *)
(* and none is newer than the caches: the inductive invariant of the       *)
(* theorems below.                                                         *)
THEOREM HistoryCorrect == Spec => []HistoryInv
<1>1. HistoryInv /\ TypeOK' /\ [Next]_vars => HistoryInv'
  BY HistoryStep
<1> QED BY HistoryInit, TypeCorrect, <1>1, PTL DEF Spec

(* Pages are never sent an older event after a newer one, nor older call   *)
(* counters or calls by the channel event handlers, for any number of      *)
(* pages and registration handlers and any sizes of the queues.            *)
THEOREM PagesSeeEventsInOrder == Spec => []EventsInOrder
<1>1. HistoryInv => EventsInOrder
  <2> SUFFICES ASSUME HistoryInv, NEW c \in Conns,
                      NEW i \in DOMAIN conn[c].written, NEW j \in DOMAIN conn[c].written,
                      i < j, conn[c].written[i].n # 0, conn[c].written[j].n # 0
      PROVE  /\ conn[c].written[i].n < conn[c].written[j].n
             /\ conn[c].written[i].topic = conn[c].written[j].topic
                  /\ conn[c].written[i].topic \in Topics =>
                  conn[c].written[i].calls <= conn[c].written[j].calls
    BY DEF EventsInOrder
  <2> DEFINE x == conn[c].written[i]
             y == conn[c].written[j]
  <2>1. x \in Messages /\ y \in Messages
    BY ContextMessages DEF HistoryInv, TypeOK
  <2>2. ContextSound(conn[c], posted, Taken, userCalls)
    BY DEF HistoryInv, ContextsSound
  <2>3. x.n < y.n
    BY <2>2 DEF ContextSound, Precedes
  <2>4. /\ x.n <= Taken /\ x = posted[x.n]
        /\ y.n <= Taken /\ y = posted[y.n]
    BY <2>2 DEF ContextSound, Sound
  <2>5. Taken \in Nat /\ Len(posted) \in Nat /\ Len(bus) \in Nat /\ Taken <= Len(posted)
    BY TakenIsNat DEF HistoryInv, Taken
  <2>6. DOMAIN posted = 1..Len(posted)
    BY DEF HistoryInv, TypeOK
  <2>7. x.n \in DOMAIN posted /\ y.n \in DOMAIN posted /\ x.n <= y.n
    <3>1. x.n \in Nat /\ y.n \in Nat
      BY <2>1 DEF Messages
    <3> QED BY <2>3, <2>4, <2>5, <2>6, <3>1
  <2>8. x.topic \in Topics /\ y.topic \in Topics =>
          posted[x.n].calls <= posted[y.n].calls
    BY <2>4, <2>7 DEF HistoryInv, PostedInOrder
  <2> QED BY <2>3, <2>4, <2>8
<1> QED BY HistoryCorrect, <1>1, PTL

(* A page that asks for the users is never answered with calls older than  *)
(* any it had been sent when it asked.                                     *)
THEOREM AnswersAreFresh == Spec => []AnswersAreNotOlder
<1>1. HistoryInv => AnswersAreNotOlder
  BY DEF HistoryInv, ContextsSound, ContextSound, Sound, AnswersAreNotOlder
<1> QED BY HistoryCorrect, <1>1, PTL
-----------------------------------------------------------------------------
Arrived(x) == Numbers(x.send) \cup Numbers(x.written) \cup x.lost

\* NothingIsMissed, of one connection.
UpToDate(c) ==
  Open(c) /\ stopping = "no" =>
    \A t \in conn[c].subs : \A n \in conn[c].since[t] + 1 .. Len(posted) :
      For(posted[n].topic) = t => OnItsWay(n, c) \/ n \in Arrived(conn[c])

\* An open connection is one the broadcast goes to.
OpenIsRegistered == \A c \in Conns : Open(c) => c \in connections

MissedInv == HistoryInv /\ OpenIsRegistered /\ \A c \in Conns : UpToDate(c)

LEMMA UpToDateMeans ==
  NothingIsMissed <=> \A c \in Conns : UpToDate(c)
BY DEF NothingIsMissed, UpToDate, Arrived

(* The messages of a context, when one is added to or taken from its queue.*)
LEMMA NumbersGrow ==
  ASSUME NEW s \in Seq(Messages), NEW m \in Messages
  PROVE  Numbers(Append(s, m)) = Numbers(s) \cup {m.n}
<1>1. /\ Len(s) \in Nat /\ DOMAIN s = 1..Len(s)
      /\ DOMAIN Append(s, m) = 1..(Len(s) + 1)
      /\ \A i \in 1..Len(s) : Append(s, m)[i] = s[i]
      /\ Append(s, m)[Len(s) + 1] = m
  OBVIOUS
<1>2. 1..(Len(s) + 1) = 1..Len(s) \cup {Len(s) + 1}
  BY <1>1
<1> HIDE DEF Numbers
<1>3. Numbers(Append(s, m)) \subseteq Numbers(s) \cup {m.n}
  BY <1>1, <1>2 DEF Numbers
<1>4. Numbers(s) \cup {m.n} \subseteq Numbers(Append(s, m))
  BY <1>1, <1>2 DEF Numbers
<1> QED BY <1>3, <1>4

LEMMA NumbersShrink ==
  ASSUME NEW s \in Seq(Messages), s # <<>>
  PROVE  Numbers(s) \subseteq {Head(s).n} \cup Numbers(Tail(s))
<1>1. /\ Len(s) \in Nat \ {0} /\ DOMAIN s = 1..Len(s) /\ Head(s) = s[1]
      /\ DOMAIN Tail(s) = 1..(Len(s) - 1)
      /\ \A i \in 1..(Len(s) - 1) : Tail(s)[i] = s[i + 1]
  OBVIOUS
<1>2. ASSUME NEW i \in DOMAIN s PROVE s[i].n \in {Head(s).n} \cup Numbers(Tail(s))
  <2>1. CASE i = 1
    BY <1>1, <2>1
  <2>2. CASE i # 1
    <3>1. i - 1 \in 1..(Len(s) - 1) /\ (i - 1) + 1 = i
      BY <1>1, <2>2
    <3>2. Tail(s)[i - 1] = s[i]
      BY <1>1, <3>1
    <3> QED BY <1>1, <3>1, <3>2 DEF Numbers
  <2> QED BY <2>1, <2>2
<1> QED BY <1>2 DEF Numbers

(* A connection that keeps what arrived, and whose subscriptions are old   *)
(* ones or start now, is still up to date.                                 *)
LEMMA KeepsUp ==
  ASSUME MissedInv, NEW c \in Conns, UNCHANGED <<posted, bus>>,
         Open(c)' => Open(c), stopping' = "no" => stopping = "no",
         \A t \in conn'[c].subs :
           \/ conn'[c].since[t] = Len(posted)
           \/ t \in conn[c].subs /\ conn'[c].since[t] = conn[c].since[t],
         conn[c].since \in [Topics -> Nat], conn'[c].subs \subseteq Topics,
         Arrived(conn[c]) \subseteq Arrived(conn'[c]) \cup {0},
         \A n \in Nat : \A t \in conn[c].subs :
           current # None /\ current.n = n /\ c \in todo /\ For(current.topic) = t =>
             \/ current' # None /\ current'.n = n /\ c \in todo'
             \/ n \in Arrived(conn'[c])
  PROVE  UpToDate(c)'
<1> SUFFICES ASSUME Open(c)', stopping' = "no", NEW t \in conn'[c].subs,
                    NEW n \in conn'[c].since[t] + 1 .. Len(posted), For(posted[n].topic) = t
    PROVE  OnItsWay(n, c)' \/ n \in Arrived(conn'[c])
  BY DEF UpToDate
<1>1. Open(c) /\ stopping = "no" /\ Len(posted) \in Nat
  BY DEF MissedInv, HistoryInv, TypeOK
<1>2. /\ t \in conn[c].subs /\ conn'[c].since[t] = conn[c].since[t]
      /\ n \in Nat \ {0}
  <2>1. t \in conn[c].subs /\ conn'[c].since[t] = conn[c].since[t]
    BY <1>1
  <2> QED BY <1>1, <2>1
<1>3. OnItsWay(n, c) \/ n \in Arrived(conn[c])
  BY <1>1, <1>2 DEF MissedInv, UpToDate
<1>4. CASE n > Len(posted) - Len(bus)
  BY <1>4 DEF OnItsWay
<1>5. CASE current # None /\ current.n = n /\ c \in todo
  <2>1. current = posted[n]
    BY <1>2, <1>5 DEF MissedInv, HistoryInv, CurrentIsNext, Sound
  <2> QED BY <1>2, <1>5, <2>1 DEF OnItsWay
<1>6. CASE n \in Arrived(conn[c])
  BY <1>2, <1>6
<1> QED BY <1>3, <1>4, <1>5, <1>6 DEF OnItsWay

(* A connection that is not open, or has no subscription, misses nothing.  *)
LEMMA NewIsUpToDate ==
  ASSUME NEW c \in Conns, ~Open(c)' \/ conn'[c].subs = {}
  PROVE  UpToDate(c)'
BY DEF UpToDate

Complete == OpenIsRegistered /\ \A c \in Conns : UpToDate(c)

LEMMA OneKeepsUp ==
  ASSUME MissedInv, NEW c \in Conns, NEW y, conn' = [conn EXCEPT ![c] = y],
         UNCHANGED <<posted, bus>>, stopping' = "no" => stopping = "no",
         connections \ {c} \subseteq connections', y.phase = "open" => c \in connections',
         \A d \in Conns \ {c} : current # None /\ d \in todo =>
           current' = current /\ d \in todo',
         UpToDate(c)'
  PROVE  Complete'
<1>1. /\ conn'[c] = y
      /\ \A d \in Conns \ {c} : conn'[d] = conn[d]
  BY DEF MissedInv, HistoryInv, TypeOK
<1>2. OpenIsRegistered'
  BY <1>1 DEF MissedInv, OpenIsRegistered, Open
<1>3. ASSUME NEW d \in Conns \ {c} PROVE UpToDate(d)'
  <2>1. conn[d] \in Contexts
    BY DEF MissedInv, HistoryInv, TypeOK
  <2>2. conn[d].since \in [Topics -> Nat] /\ conn[d].subs \subseteq Topics
    BY <2>1, ContextFields
  <2>3. Open(d)' => Open(d)
    BY <1>1 DEF Open
  <2>4. Arrived(conn[d]) \subseteq Arrived(conn'[d]) \cup {0}
    BY <1>1
  <2>5. \A n \in Nat : \A t \in conn[d].subs :
          current # None /\ current.n = n /\ d \in todo /\ For(current.topic) = t =>
            \/ current' # None /\ current'.n = n /\ d \in todo'
            \/ n \in Arrived(conn'[d])
    OBVIOUS
  <2> QED BY <1>1, <2>2, <2>3, <2>4, <2>5, KeepsUp
<1> QED BY <1>2, <1>3 DEF Complete

LEMMA ClosingKeeps ==
  ASSUME MissedInv, NEW c \in Conns, CloseWithReason(c),
         UNCHANGED <<posted, bus>>, stopping' = "no" => stopping = "no",
         \A d \in Conns \ {c} : current # None /\ d \in todo =>
           current' = current /\ d \in todo'
  PROVE  Complete'
<1>1. Context("closed").phase # "open"
  BY DEF Context
<1>2. /\ conn' = [conn EXCEPT ![c] = Context("closed")]
      /\ connections \ {c} \subseteq connections'
      /\ conn'[c] = Context("closed")
  BY DEF CloseWithReason, MissedInv, HistoryInv, TypeOK
<1>3. UpToDate(c)'
  BY <1>1, <1>2, NewIsUpToDate DEF Open
<1> QED BY <1>1, <1>2, <1>3, OneKeepsUp

(* A step of an open connection that leaves TimeEvents and the hub alone.  *)
LEMMA ContextKeeps ==
  ASSUME MissedInv, NEW c \in Conns, NEW y \in Contexts, conn' = [conn EXCEPT ![c] = y],
         UNCHANGED <<posted, bus, current, todo, stopping, connections>>,
         y.phase = conn[c].phase,
         \A t \in y.subs :
           \/ y.since[t] = Len(posted)
           \/ t \in conn[c].subs /\ y.since[t] = conn[c].since[t],
         Arrived(conn[c]) \subseteq Arrived(y) \cup {0}
  PROVE  Complete'
<1>1. conn'[c] = y /\ conn[c] \in Contexts
  BY DEF MissedInv, HistoryInv, TypeOK
<1>2. conn[c].since \in [Topics -> Nat] /\ conn'[c].subs \subseteq Topics
  BY <1>1, ContextFields
<1>3. (Open(c)' => Open(c)) /\ (y.phase = "open" => c \in connections')
  BY <1>1 DEF Open, MissedInv, OpenIsRegistered
<1>4. UpToDate(c)'
  BY <1>1, <1>2, <1>3, KeepsUp
<1> QED BY <1>3, <1>4, OneKeepsUp

LEMMA AskingKeeps ==
  ASSUME MissedInv, NEW c \in Conns, NEW S \in SUBSET Topics, NEW p \in SUBSET Topics,
         NEW r \in Requests, Asks(c, S, p, r)
  PROVE  Complete'
<1> DEFINE f == [t \in Topics |-> IF t \in S \ conn[c].subs THEN Len(posted)
                                ELSE conn[c].since[t]]
           y == [conn[c] EXCEPT !.subs = S, !.persistent = p, !.request = r, !.since = f]
<1>1. conn' = [conn EXCEPT ![c] = y] /\ conn[c] \in Contexts
  BY DEF Asks, MissedInv, HistoryInv, TypeOK
<1>2. conn[c].since \in [Topics -> Nat] /\ Len(posted) \in Nat
  BY <1>1, ContextFields DEF MissedInv, HistoryInv, TypeOK
<1>3. f \in [Topics -> Nat]
  BY <1>2
<1>4. y \in Contexts
  BY <1>1, <1>3, ContextChanges
<1>5. /\ y.send = conn[c].send /\ y.written = conn[c].written /\ y.lost = conn[c].lost
      /\ y.phase = conn[c].phase /\ y.subs = S /\ y.since = f
  BY <1>1 DEF Contexts
<1>6. UNCHANGED <<posted, bus, current, todo, stopping, connections>>
  BY DEF Asks, events, hub
<1>7. \A t \in S :
        \/ f[t] = Len(posted)
        \/ t \in conn[c].subs /\ f[t] = conn[c].since[t]
  OBVIOUS
<1>8. Arrived(conn[c]) \subseteq Arrived(y) \cup {0}
  BY <1>5 DEF Arrived
<1> HIDE DEF y, f
<1> QED BY <1>1, <1>4, <1>5, <1>6, <1>7, <1>8, ContextKeeps

LEMMA SettingKeeps ==
  ASSUME MissedInv, NEW c \in Conns, SetSubscriptions(c)
  PROVE  Complete'
<1> DEFINE S == conn[c].request[2]
           f == [t \in Topics |-> IF t \in S \ conn[c].subs THEN Len(posted)
                                 ELSE conn[c].since[t]]
           y == [conn[c] EXCEPT !.subs = conn[c].subs \cup S, !.since = f,
                                !.request = <<"answer", Note("ok")>>]
<1>1. conn' = [conn EXCEPT ![c] = y] /\ conn[c] \in Contexts
  BY DEF SetSubscriptions, MissedInv, HistoryInv, TypeOK
<1>2. /\ conn[c].since \in [Topics -> Nat] /\ Len(posted) \in Nat
      /\ conn[c].subs \subseteq Topics /\ conn[c].request \in Requests
  BY <1>1, ContextFields DEF MissedInv, HistoryInv, TypeOK
<1>3. S \in SUBSET Topics
  BY <1>2, RequestParts DEF SetSubscriptions
<1>4. f \in [Topics -> Nat] /\ conn[c].subs \cup S \in SUBSET Topics
  BY <1>2, <1>3
<1>5. <<"answer", Note("ok")>> \in Requests
  BY MessageKinds DEF Requests
<1>6. y \in Contexts
  BY <1>1, <1>4, <1>5, ContextChanges
<1>7. /\ y.send = conn[c].send /\ y.written = conn[c].written /\ y.lost = conn[c].lost
      /\ y.phase = conn[c].phase /\ y.subs = conn[c].subs \cup S /\ y.since = f
  BY <1>1 DEF Contexts
<1>8. UNCHANGED <<posted, bus, current, todo, stopping, connections>>
  BY DEF SetSubscriptions, events, hub
<1>9. \A t \in conn[c].subs \cup S :
         \/ f[t] = Len(posted)
         \/ t \in conn[c].subs /\ f[t] = conn[c].since[t]
  BY <1>2, <1>3
<1>10. Arrived(conn[c]) \subseteq Arrived(y) \cup {0}
  BY <1>7 DEF Arrived
<1> HIDE DEF y, f
<1> QED BY <1>1, <1>6, <1>7, <1>8, <1>9, <1>10, ContextKeeps

LEMMA ReadingKeeps ==
  ASSUME MissedInv, NEW c \in Conns, ReadUsers(c)
  PROVE  Complete'
<1> DEFINE m == [topic |-> "reply", n |-> 0, calls |-> userCalls,
                 seen |-> conn[c].request[2]]
           y == [conn[c] EXCEPT !.request = <<"answer", m>>]
<1>1. conn' = [conn EXCEPT ![c] = y] /\ conn[c] \in Contexts
  BY DEF ReadUsers, MissedInv, HistoryInv, TypeOK
<1>2. m \in Messages
  BY <1>1, ContextMessages, MessageKinds DEF ReadUsers, MissedInv, HistoryInv, TypeOK
<1>3. <<"answer", m>> \in Requests
  BY <1>2 DEF Requests
<1>4. y \in Contexts
  BY <1>1, <1>3, ContextChanges
<1>5. /\ y.send = conn[c].send /\ y.written = conn[c].written /\ y.lost = conn[c].lost
      /\ y.phase = conn[c].phase /\ y.subs = conn[c].subs /\ y.since = conn[c].since
  BY <1>1 DEF Contexts
<1>6. UNCHANGED <<posted, bus, current, todo, stopping, connections>>
  BY DEF ReadUsers, events, hub
<1>7. Arrived(conn[c]) \subseteq Arrived(y) \cup {0}
  BY <1>5 DEF Arrived
<1> HIDE DEF y, m
<1> QED BY <1>1, <1>4, <1>5, <1>6, <1>7, ContextKeeps

(* What leaves the queue is written or lost, unless it is no event.        *)
LEMMA WritingKeeps ==
  ASSUME MissedInv, NEW c \in Conns, WriteMessage(c) \/ MarshalFails(c)
  PROVE  Complete'
<1> DEFINE h == Head(conn[c].send)
<1>1. /\ conn[c] \in Contexts /\ conn[c].send # <<>>
      /\ ContextSound(conn[c], posted, Taken, userCalls)
  BY DEF WriteMessage, MarshalFails, MissedInv, HistoryInv, TypeOK, ContextsSound
<1>2. /\ conn[c].send \in Seq(Messages) /\ conn[c].written \in Seq(Messages)
      /\ conn[c].lost \in SUBSET Nat
  BY <1>1, ContextFields
<1>3. /\ h \in Messages /\ Tail(conn[c].send) \in Seq(Messages)
      /\ h = conn[c].send[1] /\ 1 \in DOMAIN conn[c].send
  BY <1>1, <1>2
<1>4. Numbers(conn[c].send) \subseteq {h.n} \cup Numbers(Tail(conn[c].send))
  BY <1>1, <1>2, NumbersShrink
<1>5. h.n # 0 => h.topic \in Kinds
  <2> SUFFICES ASSUME h.n # 0 PROVE h.topic \in Kinds
    OBVIOUS
  <2>1. h.n <= Taken /\ h = posted[h.n]
    BY <1>1, <1>3 DEF ContextSound, Sound
  <2>2. /\ Taken \in Nat /\ Len(posted) \in Nat /\ Len(bus) \in Nat
        /\ Taken <= Len(posted) /\ DOMAIN posted = 1..Len(posted)
    BY TakenIsNat DEF MissedInv, HistoryInv, TypeOK, Taken
  <2>3. h.n \in Nat
    BY <1>3 DEF Messages
  <2>4. h.n \in DOMAIN posted
    BY <2>1, <2>2, <2>3
  <2> QED BY <2>1, <2>4 DEF MissedInv, HistoryInv, PostedInOrder
<1>6. UNCHANGED <<posted, bus, current, todo, stopping, connections>>
  BY DEF WriteMessage, MarshalFails, events, hub
<1>7. CASE WriteMessage(c)
  <2> DEFINE w == IF h.topic \in Kinds \cup {"reply"}
                    THEN Append(conn[c].written, h) ELSE conn[c].written
             y == [conn[c] EXCEPT !.send = Tail(conn[c].send), !.written = w]
  <2>1. conn' = [conn EXCEPT ![c] = y]
    BY <1>7 DEF WriteMessage, MissedInv, HistoryInv, TypeOK
  <2>2. w \in Seq(Messages)
    BY <1>2, <1>3
  <2>3. y \in Contexts
    BY <1>1, <1>3, <2>2, ContextChanges
  <2>4. /\ y.send = Tail(conn[c].send) /\ y.written = w /\ y.lost = conn[c].lost
        /\ y.phase = conn[c].phase /\ y.subs = conn[c].subs /\ y.since = conn[c].since
    BY <1>1 DEF Contexts
  <2>5. Numbers(conn[c].written) \subseteq Numbers(w) /\ h.n \in Numbers(w) \cup {0}
    BY <1>2, <1>3, <1>5, NumbersGrow
  <2> HIDE DEF h, w
  <2>6. Arrived(conn[c]) \subseteq Arrived(y) \cup {0}
    BY <1>4, <2>4, <2>5 DEF Arrived
  <2> HIDE DEF y
  <2> QED BY <1>6, <2>1, <2>3, <2>4, <2>6, ContextKeeps
<1>8. CASE MarshalFails(c)
  <2> DEFINE l == conn[c].lost \cup {h.n}
             y == [conn[c] EXCEPT !.send = Tail(conn[c].send), !.lost = l]
  <2>1. conn' = [conn EXCEPT ![c] = y]
    BY <1>8 DEF MarshalFails, MissedInv, HistoryInv, TypeOK
  <2>2. l \in SUBSET Nat
    BY <1>2, <1>3 DEF Messages
  <2>3. y \in Contexts
    BY <1>1, <1>3, <2>2, ContextChanges
  <2>4. /\ y.send = Tail(conn[c].send) /\ y.written = conn[c].written /\ y.lost = l
        /\ y.phase = conn[c].phase /\ y.subs = conn[c].subs /\ y.since = conn[c].since
    BY <1>1 DEF Contexts
  <2> HIDE DEF h
  <2>5. Arrived(conn[c]) \subseteq Arrived(y) \cup {0}
    BY <1>4, <2>4 DEF Arrived
  <2> HIDE DEF y
  <2> QED BY <1>6, <2>1, <2>3, <2>4, <2>5, ContextKeeps
<1> QED BY <1>7, <1>8

LEMMA QueueingKeeps ==
  ASSUME MissedInv, NEW c \in Conns, NEW m \in Messages, NEW y,
         conn' = [conn EXCEPT ![c] = y], UNCHANGED <<posted, bus, stopping, connections>>,
         y.send = Append(conn[c].send, m), y.written = conn[c].written,
         y.lost = conn[c].lost, y.phase = conn[c].phase, y.subs = conn[c].subs,
         y.since = conn[c].since,
         \A d \in Conns \ {c} : current # None /\ d \in todo =>
           current' = current /\ d \in todo',
         current = m \/ (current' = current /\ todo' = todo)
  PROVE  Complete'
<1>1. conn'[c] = y /\ conn[c] \in Contexts
  BY DEF MissedInv, HistoryInv, TypeOK
<1>2. /\ conn[c].since \in [Topics -> Nat] /\ conn'[c].subs \subseteq Topics
      /\ conn[c].send \in Seq(Messages)
  BY <1>1, ContextFields
<1>3. Numbers(y.send) = Numbers(conn[c].send) \cup {m.n}
  BY <1>2, NumbersGrow
<1>4. Arrived(conn[c]) \subseteq Arrived(conn'[c]) \cup {0} /\ m.n \in Arrived(conn'[c])
  BY <1>1, <1>3 DEF Arrived
<1>5. (Open(c)' => Open(c)) /\ (y.phase = "open" => c \in connections')
  BY <1>1 DEF Open, MissedInv, OpenIsRegistered
<1>6. \A n \in Nat : \A t \in conn[c].subs :
        current # None /\ current.n = n /\ c \in todo /\ For(current.topic) = t =>
          \/ current' # None /\ current'.n = n /\ c \in todo'
          \/ n \in Arrived(conn'[c])
  BY <1>4
<1>7. UpToDate(c)'
  BY <1>1, <1>2, <1>4, <1>5, <1>6, KeepsUp
<1> QED BY <1>5, <1>7, OneKeepsUp

LEMMA BroadcastingKeeps ==
  ASSUME MissedInv, NEW c \in Conns, BroadcastTo(c)
  PROVE  Complete'
<1>1. /\ UNCHANGED <<posted, bus, stopping>>
      /\ \A d \in Conns \ {c} : current # None /\ d \in todo =>
           current' = current /\ d \in todo'
  BY DEF BroadcastTo
<1>2. conn[c] \in Contexts /\ current \in Messages /\ c \in todo
  BY DEF BroadcastTo, MissedInv, HistoryInv, TypeOK
<1>3. CASE conn' = conn /\ connections' = connections
           /\ (Open(c) => ~Subscribed(c, current.topic))
  <2>1. conn' = [conn EXCEPT ![c] = conn[c]] /\ conn'[c] = conn[c]
    BY <1>3 DEF MissedInv, HistoryInv, TypeOK
  <2>2. conn[c].phase = "open" => c \in connections'
    BY <1>3 DEF MissedInv, OpenIsRegistered, Open
  <2>3. CASE ~Open(c)
    <3>1. UpToDate(c)'
      BY <2>1, <2>3, NewIsUpToDate DEF Open
    <3> QED BY <1>1, <1>3, <2>1, <2>2, <3>1, OneKeepsUp
  <2>4. CASE Open(c)
    <3>1. For(current.topic) \notin conn[c].subs
      BY <1>3, <2>4 DEF Subscribed
    <3>2. conn[c].since \in [Topics -> Nat] /\ conn[c].subs \subseteq Topics
      BY <1>2, ContextFields
    <3>3. Arrived(conn[c]) \subseteq Arrived(conn'[c]) \cup {0}
      BY <2>1
    <3>4. \A n \in Nat : \A t \in conn[c].subs :
            current # None /\ current.n = n /\ c \in todo /\ For(current.topic) = t =>
              \/ current' # None /\ current'.n = n /\ c \in todo'
              \/ n \in Arrived(conn'[c])
      BY <3>1
    <3>5. UpToDate(c)'
      BY <1>1, <2>1, <2>4, <3>2, <3>3, <3>4, KeepsUp
    <3> QED BY <1>1, <1>3, <2>1, <2>2, <3>5, OneKeepsUp
  <2> QED BY <2>3, <2>4
<1>4. CASE CloseWithReason(c)
  BY <1>1, <1>4, ClosingKeeps
<1>5. CASE conn' = [conn EXCEPT ![c].send = Append(@, current)]
           /\ connections' = connections
  <2> DEFINE y == [conn[c] EXCEPT !.send = Append(@, current)]
  <2>1. conn' = [conn EXCEPT ![c] = y]
    BY <1>5 DEF MissedInv, HistoryInv, TypeOK
  <2>2. /\ y.send = Append(conn[c].send, current) /\ y.written = conn[c].written
        /\ y.lost = conn[c].lost /\ y.phase = conn[c].phase /\ y.subs = conn[c].subs
        /\ y.since = conn[c].since
    BY <1>2 DEF Contexts
  <2> HIDE DEF y
  <2> QED BY <1>1, <1>2, <1>5, <2>1, <2>2, QueueingKeeps
<1> QED BY <1>3, <1>4, <1>5 DEF BroadcastTo, Enqueue

LEMMA AnsweringKeeps ==
  ASSUME MissedInv, NEW c \in Conns, Answer(c)
  PROVE  Complete'
<1> DEFINE m == conn[c].request[2]
           y == [conn[c] EXCEPT !.send = Append(@, m), !.request = <<>>]
<1>1. UNCHANGED <<posted, bus, current, todo, stopping>>
  BY DEF Answer, events
<1>2. conn[c] \in Contexts /\ m \in Messages
  BY ContextMessages DEF Answer, MissedInv, HistoryInv, TypeOK
<1>3. CASE CloseWithReason(c)
  BY <1>1, <1>3, ClosingKeeps
<1>4. CASE conn' = [conn EXCEPT ![c].send = Append(@, m), ![c].request = <<>>]
           /\ connections' = connections
  <2>1. conn' = [conn EXCEPT ![c] = y]
    BY <1>4 DEF MissedInv, HistoryInv, TypeOK
  <2>2. /\ y.send = Append(conn[c].send, m) /\ y.written = conn[c].written
        /\ y.lost = conn[c].lost /\ y.phase = conn[c].phase /\ y.subs = conn[c].subs
        /\ y.since = conn[c].since
    BY <1>2 DEF Contexts
  <2> HIDE DEF y, m
  <2> QED BY <1>1, <1>2, <1>4, <2>1, <2>2, QueueingKeeps
<1> QED BY <1>3, <1>4 DEF Answer

(* Connect and Register: nothing is missed before there is a subscription. *)
LEMMA ArrivingKeeps ==
  ASSUME MissedInv, NEW c \in Conns, Connect(c) \/ Register(c)
  PROVE  Complete'
<1>1. UNCHANGED <<posted, bus, current, todo, stopping>>
  BY DEF Connect, Register, events, hub
<1>2. ASSUME NEW phase, conn' = [conn EXCEPT ![c] = Context(phase)],
             connections \subseteq connections', phase = "open" => c \in connections'
      PROVE  Complete'
  <2>1. Context(phase).subs = {} /\ Context(phase).phase = phase
    BY DEF Context
  <2>2. conn'[c] = Context(phase)
    BY <1>2 DEF MissedInv, HistoryInv, TypeOK
  <2>3. UpToDate(c)'
    BY <2>1, <2>2, NewIsUpToDate
  <2> QED BY <1>1, <1>2, <2>1, <2>3, OneKeepsUp
<1>3. CASE Connect(c)
  <2>1. conn' = [conn EXCEPT ![c] = Context("arriving")]
        \/ conn' = [conn EXCEPT ![c] = Context("closed")]
    BY <1>3 DEF Connect
  <2>2. connections' = connections
    BY <1>3 DEF Connect, hub
  <2> QED BY <1>2, <2>1, <2>2
<1>4. CASE Register(c)
  <2>1. CASE CloseWithReason(c)
    BY <1>1, <2>1, ClosingKeeps
  <2>2. CASE conn' = [conn EXCEPT ![c] = Context("open")]
             /\ connections' = connections \cup {c}
    BY <1>2, <2>2
  <2> QED BY <1>4, <2>1, <2>2 DEF Register
<1> QED BY <1>3, <1>4

(* What is posted is on its way, and what is taken goes to every           *)
(* connection of the hub.                                                  *)
LEMMA EventsKeep ==
  ASSUME MissedInv,
         \/ ChannelEvent \/ PublishCounters \/ PublishUser \/ TakeEvent
         \/ \E r \in Registrars :
              RegistrationEvent(r) \/ PublishRegistration(r) \/ PublishDomain(r)
         \/ TwoSecondsTick \/ Shutdown \/ ShutdownSnapshot \/ UNCHANGED vars
  PROVE  Complete'
<1>1. UNCHANGED <<conn, connections>>
  BY DEF ChannelEvent, PublishCounters, PublishUser, RegistrationEvent,
         PublishRegistration, PublishDomain, TakeEvent, TwoSecondsTick,
         Shutdown, ShutdownSnapshot, vars, hub
<1>2. stopping' = "no" => stopping = "no"
  BY DEF ChannelEvent, PublishCounters, PublishUser, RegistrationEvent,
         PublishRegistration, PublishDomain, TakeEvent, TwoSecondsTick,
         Shutdown, ShutdownSnapshot, vars, hub
<1>3. OpenIsRegistered'
  BY <1>1 DEF MissedInv, OpenIsRegistered, Open
<1>4. /\ Taken \in Nat /\ Len(posted) \in Nat /\ Len(bus) \in Nat
      /\ DOMAIN posted = 1..Len(posted) /\ posted \in Seq(Messages)
      /\ bus \in Seq(Messages) /\ Taken <= Len(posted)
  BY TakenIsNat DEF MissedInv, HistoryInv, TypeOK, Taken
<1>5. ASSUME NEW c \in Conns PROVE UpToDate(c)'
  <2> SUFFICES ASSUME Open(c), stopping = "no", stopping' = "no", NEW t \in conn[c].subs,
                      NEW n \in conn[c].since[t] + 1 .. Len(posted'), For(posted'[n].topic) = t
      PROVE  OnItsWay(n, c)' \/ n \in Arrived(conn[c])
    BY <1>1, <1>2 DEF UpToDate, Open
  <2>1. conn[c].since[t] \in Nat /\ c \in connections
    <3>1. conn[c] \in Contexts
      BY DEF MissedInv, HistoryInv, TypeOK
    <3>2. conn[c].since \in [Topics -> Nat] /\ conn[c].subs \subseteq Topics
      BY <3>1, ContextFields
    <3> QED BY <3>2 DEF MissedInv, OpenIsRegistered
  <2>2. n \in 1..Len(posted) /\ For(posted[n].topic) = t =>
          OnItsWay(n, c) \/ n \in Arrived(conn[c])
    BY <1>4, <2>1 DEF MissedInv, UpToDate
  <2>3. ASSUME NEW m \in Messages, posted' = Append(posted, m), bus' = Append(bus, m),
               UNCHANGED <<current, todo>>
        PROVE  OnItsWay(n, c)' \/ n \in Arrived(conn[c])
    <3>1. /\ Len(posted') = Len(posted) + 1 /\ Len(bus') = Len(bus) + 1
          /\ \A i \in 1..Len(posted) : posted'[i] = posted[i]
      BY <1>4, <2>3
    <3>2. Len(posted') - Len(bus') = Len(posted) - Len(bus)
      BY <1>4, <3>1
    <3>3. CASE n \in 1..Len(posted)
      BY <2>2, <2>3, <3>1, <3>2, <3>3 DEF OnItsWay
    <3>4. CASE n \notin 1..Len(posted)
      <4>1. n > Len(posted') - Len(bus')
        BY <1>4, <2>1, <3>1, <3>4
      <4> QED BY <4>1 DEF OnItsWay
    <3> QED BY <3>3, <3>4
  <2>4. CASE \/ PublishCounters \/ PublishUser
             \/ \E r \in Registrars : PublishRegistration(r) \/ PublishDomain(r)
    <3> DEFINE m(k, v) == [topic |-> k, n |-> Len(posted) + 1, calls |-> v, seen |-> {}]
    <3>1. PICK k \in Kinds, v \in Nat : Post(k, v)
      <4>1. /\ channels \in Nat /\ userCalls \in Nat /\ 0 \in Nat
            /\ \A r \in Registrars : registration[r].calls \in Nat
        BY DEF MissedInv, HistoryInv, TypeOK
      <4>2. {"dashboard", "users", "registration", "domain"} \subseteq Kinds
        BY DEF Kinds, Topics
      <4> QED BY <2>4, <4>1, <4>2 DEF PublishCounters, PublishUser, PublishRegistration,
                 PublishDomain
    <3>2. Len(posted) + 1 \in Nat
      BY <1>4
    <3>3. m(k, v) \in Messages
      BY <3>2, MessageKinds
    <3> QED BY <2>3, <3>1, <3>3 DEF Post
  <2>5. CASE TakeEvent
    <3>1. /\ posted' = posted /\ Len(bus') = Len(bus) - 1 /\ bus # <<>> /\ Len(bus) > 0
          /\ Head(bus) = bus[1] /\ Head(bus) \in Messages /\ 1 \in DOMAIN bus
      BY <1>4, <2>5 DEF TakeEvent
    <3>2. Head(bus) = posted[Taken + 1] /\ Taken + 1 \in DOMAIN posted
      <4>1. bus[1] = posted[Taken + 1]
        BY <3>1 DEF MissedInv, HistoryInv, BusIsTheRest
      <4>2. Taken + 1 \in 1..Len(posted)
        BY <1>4, <3>1 DEF Taken
      <4> QED BY <1>4, <3>1, <4>1, <4>2
    <3>3. CASE n > Taken + 1
      <4>1. n > Len(posted') - Len(bus')
        BY <1>4, <2>1, <3>1, <3>3 DEF Taken
      <4> QED BY <4>1 DEF OnItsWay
    <3>4. CASE n = Taken + 1
      <4>1. current' = Head(bus) /\ todo' = connections
        BY <2>1, <2>5 DEF TakeEvent, Broadcast
      <4>2. current'.n = n /\ current' # None
        BY <3>1, <3>2, <3>4, <4>1, NoneAssumption DEF MissedInv, HistoryInv, PostedInOrder
      <4> QED BY <2>1, <4>1, <4>2 DEF OnItsWay
    <3>5. CASE n <= Taken
      <4>1. n \in 1..Len(posted) /\ ~(n > Len(posted) - Len(bus))
        BY <1>4, <2>1, <3>5 DEF Taken
      <4>2. current = None
        BY <2>5 DEF TakeEvent
      <4> QED BY <2>2, <3>1, <4>1, <4>2 DEF OnItsWay
    <3> QED BY <1>4, <2>1, <3>1, <3>3, <3>4, <3>5
  <2>6. CASE TwoSecondsTick
    <3>1. posted' = posted /\ bus' = bus /\ current = None
      BY <2>6 DEF TwoSecondsTick
    <3> QED BY <1>4, <2>1, <2>2, <3>1 DEF OnItsWay
  <2>7. CASE UNCHANGED <<posted, bus, current, todo>>
    BY <1>4, <2>1, <2>2, <2>7 DEF OnItsWay
  <2> QED BY <2>4, <2>5, <2>6, <2>7 DEF ChannelEvent, RegistrationEvent, Shutdown,
             ShutdownSnapshot, vars, events
<1> QED BY <1>3, <1>5 DEF Complete

LEMMA MissedStep ==
  ASSUME MissedInv, [Next]_vars
  PROVE  Complete'
<1>1. ASSUME NEW c \in Conns, Disconnect(c) \/ ShutdownClose(c) PROVE Complete'
  <2>1. CloseWithReason(c) /\ UNCHANGED <<posted, bus, current, todo, stopping>>
    BY <1>1 DEF Disconnect, ShutdownClose, events
  <2> QED BY <2>1, ClosingKeeps
<1>2. ASSUME NEW c \in Conns
      PROVE  /\ conn[c].subs \in SUBSET Topics /\ conn[c].persistent \in SUBSET Topics
             /\ <<"read", Seen(c)>> \in Requests /\ <<"answer", Note("ok")>> \in Requests
  <2>1. conn[c] \in Contexts
    BY DEF MissedInv, HistoryInv, TypeOK
  <2>2. \A i \in DOMAIN conn[c].written : conn[c].written[i].calls \in Nat
    BY <2>1, ContextMessages DEF Messages
  <2>3. Seen(c) \in SUBSET Nat
    BY <2>2 DEF Seen
  <2> QED BY <2>1, <2>3, ContextFields, MessageKinds DEF Requests
<1>3. ASSUME NEW c \in Conns, NEW keep \in BOOLEAN, AskUsers(c, keep) PROVE Complete'
  <2>1. (IF keep THEN conn[c].subs \cup {"users"} ELSE conn[c].subs) \in SUBSET Topics
    BY <1>2 DEF Topics
  <2> QED BY <1>2, <1>3, <2>1, AskingKeeps DEF AskUsers
<1>4. ASSUME NEW c \in Conns, NEW t \in Topics, AddPersistentSubscriptions(c, {t})
      PROVE  Complete'
  <2>1. conn[c].subs \cup {t} \in SUBSET Topics /\ conn[c].persistent \cup {t} \in SUBSET Topics
    BY <1>2
  <2> QED BY <1>2, <1>4, <2>1, AskingKeeps DEF AddPersistentSubscriptions
<1>5. ASSUME NEW c \in Conns, NEW t \in Topics, Unsubscribe(c, t) PROVE Complete'
  <2>1. conn[c].subs \ {t} \in SUBSET Topics /\ conn[c].persistent \ {t} \in SUBSET Topics
    BY <1>2
  <2> QED BY <1>2, <1>5, <2>1, AskingKeeps DEF Unsubscribe
<1>6. ASSUME NEW c \in Conns, NEW t \in Topics, ReplaceSubscriptions(c, {t}) PROVE Complete'
  <2>1. <<"set", {t}>> \in Requests
    BY DEF Requests
  <2> QED BY <1>2, <1>6, <2>1, AskingKeeps DEF ReplaceSubscriptions
<1>7. ASSUME NEW c \in Conns, UnsubscribeAll(c) PROVE Complete'
  BY <1>2, <1>7, AskingKeeps DEF UnsubscribeAll
<1> QED BY <1>1, <1>3, <1>4, <1>5, <1>6, <1>7, EventsKeep, ArrivingKeeps, BroadcastingKeeps,
           WritingKeeps, ReadingKeeps, SettingKeeps, AnsweringKeeps DEF Next

(* A page that is still connected has missed nothing it subscribed to, for *)
(* any number of pages and any sizes of the queues: a message put on       *)
(* eventChannel after the subscription is on its way, in the queue,        *)
(* written, or one that json.Marshal refused.                              *)
THEOREM PagesMissNothing == Spec => []NothingIsMissed
<1>1. Init => Complete
  <2>1. \A c \in Conns : Context("new").phase # "open"
    BY DEF Context
  <2> QED BY <2>1 DEF Init, Complete, OpenIsRegistered, UpToDate, Open
<1>2. HistoryInv /\ Complete /\ [Next]_vars => Complete'
  BY MissedStep DEF MissedInv, Complete
<1>3. Complete => NothingIsMissed
  BY UpToDateMeans DEF Complete
<1> QED BY HistoryCorrect, <1>1, <1>2, <1>3, PTL DEF Spec
=============================================================================
