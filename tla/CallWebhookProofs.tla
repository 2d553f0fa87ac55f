------------------------- MODULE CallWebhookProofs -------------------------
(***************************************************************************)
(* For every set of publishers and ids, every queue size and every TTL:    *)
(* the dispatcher keeps its types, accepts no id twice within the TTL and  *)
(* refuses none without such a cause, implements WebhookPromise, and sends *)
(* the CRM the events of a publisher in order.                             *)
(***************************************************************************)
EXTENDS CallWebhook, TLAPS

(* The types of CallWebhook hold: at most QueueSize events are queued, and *)
(* only ids are remembered.                                                *)
THEOREM TypeCorrect == Spec => []TypeOK
<1>1. Init => TypeOK
  BY WebhookAssumption DEF Init, TypeOK, Idle
<1>2. TypeOK /\ [Next]_vars => TypeOK'
  <2> SUFFICES ASSUME TypeOK, [Next]_vars PROVE TypeOK'
    OBVIOUS
  <2> USE WebhookAssumption DEF TypeOK
  <2>1. ASSUME NEW p \in Publishers, NEW id \in EventIds, Publish(p, id)
        PROVE  TypeOK'
    BY <2>1 DEF Publish
  <2>2. ASSUME NEW p \in Publishers, MarkEventSeen(p) PROVE TypeOK'
    <3>1. calling[p].id \in EventIds \cup {None} /\ calling[p].now \in Nat
      OBVIOUS
    <3>2. calling' \in [Publishers -> [id : EventIds \cup {None}, now : Nat]]
      BY <2>2 DEF MarkEventSeen, Idle
    <3>3. CASE Remembered(calling[p].id, calling[p].now)
      BY <2>2, <3>2, <3>3 DEF MarkEventSeen
    <3>4. CASE ~Remembered(calling[p].id, calling[p].now)
      <4> DEFINE e == [id |-> calling[p].id, stamp |-> calling[p].now,
                       at |-> clock, run |-> restarts, by |-> p]
      <4>1. /\ seen' = [i \in Young(calling[p].now) \cup {calling[p].id} |->
                          IF i = calling[p].id THEN calling[p].now ELSE seen[i]]
            /\ accepted' = Append(accepted, e)
            /\ marked' = [marked EXCEPT ![p] = Len(accepted')]
            /\ UNCHANGED <<clock, restarts, queue, posting, received>>
            /\ calling[p].id \in EventIds
        BY <2>2, <3>1, <3>4 DEF MarkEventSeen
      <4>2. e \in Acceptance
        BY <3>1, <4>1 DEF Acceptance
      <4>3. accepted' \in Seq(Acceptance)
        BY <4>1, <4>2
      <4>4. Len(accepted') \in Nat
        BY <4>3
      <4>5. marked' \in [Publishers -> Nat \cup {None}]
        BY <4>1, <4>4
      <4>6. DOMAIN seen' \subseteq EventIds /\ \A i \in DOMAIN seen' : seen'[i] \in Nat
        BY <3>1, <4>1 DEF Young
      <4> QED BY <3>2, <4>1, <4>3, <4>5, <4>6
    <3> QED BY <3>3, <3>4
  <2>3. ASSUME NEW p \in Publishers, Enqueue(p) PROVE TypeOK'
    <3>1. marked[p] \in Nat /\ marked' \in [Publishers -> Nat \cup {None}]
      BY <2>3 DEF Enqueue
    <3>2. queue' \in Seq(Nat) /\ Len(queue') <= QueueSize
      <4>1. CASE Len(queue) < QueueSize /\ queue' = Append(queue, marked[p])
        <5> HIDE DEF TypeOK
        <5>1. queue \in Seq(Nat) /\ QueueSize \in Nat
          BY DEF TypeOK
        <5> QED BY <3>1, <4>1, <5>1
      <4> QED BY <2>3, <4>1 DEF Enqueue
    <3> QED BY <2>3, <3>1, <3>2 DEF Enqueue
  <2>4. CASE Take
    BY <2>4 DEF Take
  <2>5. CASE Deliver
    <3>1. received' \in Seq(Nat)
      <4> HIDE DEF TypeOK
      <4>1. received \in Seq(Nat) /\ posting \in Nat
        BY <2>5 DEF TypeOK, Deliver
      <4> QED BY <2>5, <4>1 DEF Deliver
    <3> QED BY <2>5, <3>1 DEF Deliver
  <2>6. CASE Tick
    BY <2>6 DEF Tick
  <2>7. CASE Restart
    BY <2>7 DEF Restart, Idle
  <2>8. CASE UNCHANGED vars
    BY <2>8 DEF vars
  <2> QED BY <2>1, <2>2, <2>3, <2>4, <2>5, <2>6, <2>7, <2>8 DEF Next
<1> QED BY <1>1, <1>2, PTL DEF Spec
-----------------------------------------------------------------------------
(* What the types say of a single acceptance.                              *)
LEMMA AcceptanceTypes ==
  ASSUME TypeOK
  PROVE  /\ clock \in Nat /\ restarts \in Nat
         /\ \A p \in Publishers : calling[p].now \in Nat
         /\ \A i \in DOMAIN accepted : /\ accepted[i].stamp \in Nat
                                     /\ accepted[i].run \in Nat
                                     /\ accepted[i].id \in EventIds
<1>1. accepted \in Seq(Acceptance) /\ clock \in Nat /\ restarts \in Nat
  BY WebhookAssumption DEF TypeOK
<1>2. \A i \in DOMAIN accepted : accepted[i] \in Acceptance
  BY <1>1
<1> QED BY <1>1, <1>2 DEF Acceptance, TypeOK

(* Why a repeat is refused: the stamp of an acceptance of this process is  *)
(* still in seen, or a whole TTL has passed since.                         *)
StampsKept ==
  /\ \A p \in Publishers : calling[p].now <= clock
  /\ \A i \in DOMAIN accepted :
       /\ accepted[i].run <= restarts
       /\ accepted[i].run = restarts =>
            \/ clock >= accepted[i].stamp + EventDedupeTTL
            \/ /\ accepted[i].id \in DOMAIN seen
               /\ seen[accepted[i].id] = accepted[i].stamp

(* An id is never accepted twice by one process within the TTL, whatever   *)
(* the publishers' interleaving.                                           *)
THEOREM NoRepeats == Spec => []NoRepeatWithinTTL
<1> DEFINE Inv == StampsKept /\ NoRepeatWithinTTL
<1>1. Init => Inv
  BY WebhookAssumption DEF Init, StampsKept, NoRepeatWithinTTL, Idle
<1>2. TypeOK /\ TypeOK' /\ Inv /\ [Next]_vars => Inv'
  <2> SUFFICES ASSUME TypeOK, TypeOK', Inv, [Next]_vars PROVE Inv'
    OBVIOUS
  <2> USE WebhookAssumption
  <2>1. ASSUME NEW p \in Publishers, NEW id \in EventIds, Publish(p, id)
        PROVE  Inv'
    BY <2>1 DEF Publish, StampsKept, NoRepeatWithinTTL, TypeOK
  <2>2. ASSUME NEW p \in Publishers, MarkEventSeen(p) PROVE Inv'
    <3> DEFINE id  == calling[p].id
               now == calling[p].now
    <3>1. now \in Nat /\ now <= clock /\ clock \in Nat
      BY DEF StampsKept, TypeOK
    <3>2. \A q \in Publishers : calling'[q].now <= clock'
      BY <2>2, <3>1 DEF MarkEventSeen, StampsKept, TypeOK, Idle
    <3>3. CASE Remembered(id, now)
      BY <2>2, <3>2, <3>3 DEF MarkEventSeen, StampsKept, NoRepeatWithinTTL
    <3>4. CASE ~Remembered(id, now)
      <4> DEFINE e == [id |-> id, stamp |-> now, at |-> clock,
                       run |-> restarts, by |-> p]
      <4>1. /\ seen' = [i \in Young(now) \cup {id} |->
                          IF i = id THEN now ELSE seen[i]]
            /\ accepted' = Append(accepted, e)
            /\ UNCHANGED <<clock, restarts>>
        BY <2>2, <3>4 DEF MarkEventSeen
      <4>2. /\ Len(accepted) \in Nat
            /\ DOMAIN accepted = 1..Len(accepted)
            /\ DOMAIN accepted' = 1..(Len(accepted) + 1)
            /\ accepted'[Len(accepted) + 1] = e
            /\ \A i \in DOMAIN accepted : accepted'[i] = accepted[i]
        <5> HIDE DEF e
        <5>1. accepted \in Seq(Acceptance)
          BY DEF TypeOK
        <5> QED BY <4>1, <5>1
      <4>3. \A i \in DOMAIN accepted :
              /\ accepted[i].stamp \in Nat /\ accepted[i].run \in Nat
              /\ accepted[i].id \in EventIds
        BY AcceptanceTypes
      <4>4. ASSUME NEW i \in DOMAIN accepted, accepted[i].run = restarts,
                   accepted[i].id = id
            PROVE  clock >= accepted[i].stamp + EventDedupeTTL
        BY <3>1, <3>4, <4>3, <4>4 DEF StampsKept, Remembered
      <4>5. ASSUME NEW i \in DOMAIN accepted, accepted[i].run = restarts,
                   ~(clock >= accepted[i].stamp + EventDedupeTTL)
            PROVE  /\ accepted[i].id \in DOMAIN seen'
                   /\ seen'[accepted[i].id] = accepted[i].stamp
        <5>1. /\ accepted[i].id \in DOMAIN seen
              /\ seen[accepted[i].id] = accepted[i].stamp
          BY <4>5 DEF StampsKept
        <5>2. accepted[i].id # id
          BY <4>4, <4>5
        <5>3. accepted[i].id \in Young(now)
          BY <3>1, <4>3, <4>5, <5>1 DEF Young
        <5> QED BY <4>1, <5>1, <5>2, <5>3
      <4>6. StampsKept'
        <5>1. ASSUME NEW i \in DOMAIN accepted'
              PROVE  /\ accepted'[i].run <= restarts'
                     /\ accepted'[i].run = restarts' =>
                          \/ clock' >= accepted'[i].stamp + EventDedupeTTL
                          \/ /\ accepted'[i].id \in DOMAIN seen'
                             /\ seen'[accepted'[i].id] = accepted'[i].stamp
          <6>1. CASE i \in DOMAIN accepted
            BY <4>1, <4>2, <4>5, <6>1 DEF StampsKept
          <6>2. CASE i = Len(accepted) + 1
            <7>1. id \in DOMAIN seen' /\ seen'[id] = now
              BY <4>1
            <7> QED BY <4>1, <4>2, <6>2, <7>1 DEF TypeOK
          <6> QED BY <4>2, <6>1, <6>2
        <5> QED BY <3>2, <5>1 DEF StampsKept
      <4>7. NoRepeatWithinTTL'
        <5>1. ASSUME NEW i \in DOMAIN accepted', NEW j \in DOMAIN accepted',
                     i < j, accepted'[i].id = accepted'[j].id,
                     accepted'[i].run = accepted'[j].run
              PROVE  accepted'[j].at >= accepted'[i].stamp + EventDedupeTTL
          <6>1. CASE j \in DOMAIN accepted
            BY <4>2, <5>1, <6>1 DEF NoRepeatWithinTTL
          <6>2. CASE j = Len(accepted) + 1
            BY <4>2, <4>4, <5>1, <6>2
          <6> QED BY <4>2, <6>1, <6>2
        <5> QED BY <5>1 DEF NoRepeatWithinTTL
      <4> QED BY <4>6, <4>7
    <3> QED BY <3>3, <3>4
  <2>3. ASSUME NEW p \in Publishers, Enqueue(p) PROVE Inv'
    BY <2>3 DEF Enqueue, StampsKept, NoRepeatWithinTTL
  <2>4. CASE Take \/ Deliver
    BY <2>4 DEF Take, Deliver, StampsKept, NoRepeatWithinTTL
  <2>5. CASE Tick
    BY <2>5, AcceptanceTypes DEF Tick, StampsKept, NoRepeatWithinTTL
  <2>6. CASE Restart
    BY <2>6, AcceptanceTypes DEF Restart, StampsKept, NoRepeatWithinTTL, Idle
  <2>7. CASE UNCHANGED vars
    BY <2>7 DEF vars, StampsKept, NoRepeatWithinTTL
  <2> QED BY <2>1, <2>2, <2>3, <2>4, <2>5, <2>6, <2>7 DEF Next
<1>3. Inv => NoRepeatWithinTTL
  OBVIOUS
<1> QED BY <1>1, <1>2, <1>3, TypeCorrect, PTL DEF Spec
-----------------------------------------------------------------------------
(* Every ticket was given out by an acceptance and is in one place: in the *)
(* hand of one publisher, once in the queue, being posted, or received.    *)
TicketsGiven ==
  /\ \A p \in Publishers : calling[p].id # None => marked[p] = None
  /\ \A p \in Publishers : marked[p] # None => marked[p] \in 1..Len(accepted)
  /\ \A i \in DOMAIN queue : queue[i] \in 1..Len(accepted)
  /\ posting # None => posting \in 1..Len(accepted)
  /\ \A i \in DOMAIN received : received[i] \in 1..Len(accepted)
  /\ Len(accepted) <= MaxAccepted

TicketsDiffer ==
  /\ \A p, q \in Publishers : p # q /\ marked[p] # None => marked[p] # marked[q]
  /\ \A i, j \in DOMAIN queue : i # j => queue[i] # queue[j]
  /\ \A p \in Publishers : marked[p] # None =>
       /\ marked[p] # posting
       /\ \A i \in DOMAIN queue : marked[p] # queue[i]
       /\ \A i \in DOMAIN received : marked[p] # received[i]
  /\ \A i \in DOMAIN queue :
       /\ queue[i] # posting
       /\ \A j \in DOMAIN received : queue[i] # received[j]
  /\ posting # None => \A i \in DOMAIN received : posting # received[i]

TicketsApart == TicketsGiven /\ TicketsDiffer

(* The plain types the ticket argument needs.                              *)
LEMMA TicketTypes ==
  ASSUME TypeOK
  PROVE  /\ queue \in Seq(Nat) /\ received \in Seq(Nat)
         /\ posting \in Nat \cup {None}
         /\ marked \in [Publishers -> Nat \cup {None}]
         /\ accepted \in Seq(Acceptance) /\ Len(accepted) \in Nat
         /\ Len(queue) \in Nat /\ Len(received) \in Nat
         /\ DOMAIN queue = 1..Len(queue) /\ DOMAIN received = 1..Len(received)
         /\ None \notin Nat /\ MaxAccepted \in Nat
         /\ calling \in [Publishers -> [id : EventIds \cup {None}, now : Nat]]
         /\ None \notin EventIds
<1>1. accepted \in Seq(Acceptance) /\ queue \in Seq(Nat) /\ received \in Seq(Nat)
  BY DEF TypeOK
<1> QED BY <1>1, WebhookAssumption DEF TypeOK

(* What Append adds, place by place.                                       *)
LEMMA AppendAt ==
  ASSUME NEW s \in Seq(Nat), NEW n \in Nat
  PROVE  /\ \A i \in DOMAIN Append(s, n) :
              \/ i \in DOMAIN s /\ Append(s, n)[i] = s[i]
              \/ i = Len(s) + 1 /\ i \notin DOMAIN s /\ Append(s, n)[i] = n
         /\ \A i \in DOMAIN s : /\ i \in DOMAIN Append(s, n)
                                /\ Append(s, n)[i] = s[i]
         /\ \E i \in DOMAIN Append(s, n) : Append(s, n)[i] = n
<1>1. Len(s) \in Nat /\ DOMAIN s = 1..Len(s)
  OBVIOUS
<1>2. DOMAIN Append(s, n) = 1..(Len(s) + 1)
  OBVIOUS
<1>3. \A i \in 1..Len(s) : Append(s, n)[i] = s[i]
  OBVIOUS
<1>4. Append(s, n)[Len(s) + 1] = n
  OBVIOUS
<1> QED BY <1>1, <1>2, <1>3, <1>4

(* An acceptance gives out a ticket nobody has; every other step moves a   *)
(* ticket on or forgets it.                                                *)
LEMMA TicketsStayApart ==
  ASSUME TypeOK, TypeOK', TicketsApart, [Next]_vars
  PROVE  TicketsApart'
<1>1. ASSUME NEW p \in Publishers, NEW id \in EventIds, Publish(p, id)
      PROVE  TicketsApart'
  BY <1>1 DEF Publish, TicketsApart, TicketsGiven, TicketsDiffer
<1>2. ASSUME NEW p \in Publishers, MarkEventSeen(p) PROVE TicketsApart'
  <2>1. CASE UNCHANGED <<marked, accepted>>
    BY <1>2, <2>1 DEF MarkEventSeen, TicketsApart, TicketsGiven, TicketsDiffer
  <2>2. CASE ~Remembered(calling[p].id, calling[p].now)
    <3> DEFINE n == Len(accepted) + 1
    <3>1. /\ marked' = [marked EXCEPT ![p] = Len(accepted')]
          /\ \E e : accepted' = Append(accepted, e)
          /\ Len(accepted) < MaxAccepted
          /\ UNCHANGED <<queue, posting, received>>
      BY <1>2, <2>2 DEF MarkEventSeen
    <3>2. Len(accepted') = n
      BY <3>1
    <3>3. marked' = [marked EXCEPT ![p] = n]
      BY <3>1, <3>2
    <3>4. \A q \in Publishers : calling'[q].id # None =>
             calling[q].id # None /\ q # p
      BY TicketTypes, <1>2 DEF MarkEventSeen, Idle
    <3>5. \A q \in Publishers : q # p => marked'[q] = marked[q]
      BY TicketTypes, <3>3
    <3>6. TicketsGiven'
      BY TicketTypes, <3>1, <3>2, <3>3, <3>4, <3>5 DEF TicketsApart, TicketsGiven
    <3>7. TicketsDiffer'
      BY TicketTypes, <3>1, <3>3, <3>5 DEF TicketsApart, TicketsGiven, TicketsDiffer
    <3> QED BY <3>6, <3>7 DEF TicketsApart
  <2> QED BY <1>2, <2>1, <2>2 DEF MarkEventSeen
<1>3. ASSUME NEW p \in Publishers, Enqueue(p) PROVE TicketsApart'
  <2>1. CASE UNCHANGED queue
    BY <1>3, <2>1 DEF Enqueue, TicketsApart, TicketsGiven, TicketsDiffer
  <2>2. CASE queue' = Append(queue, marked[p])
    <3>1. /\ marked[p] \in Nat
          /\ marked' = [marked EXCEPT ![p] = None]
          /\ UNCHANGED <<calling, posting, accepted, received>>
      BY TicketTypes, <1>3 DEF Enqueue
    <3> DEFINE last == Len(queue) + 1
    <3>2. \A i \in DOMAIN queue' :
            \/ i \in DOMAIN queue /\ queue'[i] = queue[i]
            \/ i = last /\ i \notin DOMAIN queue /\ queue'[i] = marked[p]
      <4> DEFINE longer == Append(queue, marked[p])
      <4>1. \A i \in DOMAIN longer :
              \/ i \in DOMAIN queue /\ longer[i] = queue[i]
              \/ i = last /\ i \notin DOMAIN queue /\ longer[i] = marked[p]
        <5>1. queue \in Seq(Nat) /\ marked[p] \in Nat
          BY TicketTypes, <3>1
        <5> QED BY <5>1, AppendAt
      <4>2. queue' = longer
        BY <2>2
      <4> HIDE DEF longer
      <4> QED BY <4>1, <4>2
    <3> HIDE DEF last
    <3>3. TicketsGiven'
      BY TicketTypes, <3>1, <3>2 DEF TicketsApart, TicketsGiven
    <3>4. marked[p] # None /\ marked'[p] = None
      BY TicketTypes, <1>3, <3>1 DEF Enqueue
    <3>5. \A i, j \in DOMAIN queue' : i # j => queue'[i] # queue'[j]
      BY TicketTypes, <3>2, <3>4 DEF TicketsApart, TicketsDiffer
    <3>6. \A q \in Publishers : marked'[q] # None =>
             q # p /\ marked'[q] = marked[q]
      BY <3>1, <3>4
    <3>7. \A q \in Publishers : marked'[q] # None =>
            \A i \in DOMAIN queue' : marked'[q] # queue'[i]
      BY <3>2, <3>4, <3>6 DEF TicketsApart, TicketsDiffer
    <3>8. \A i \in DOMAIN queue' :
            queue'[i] # posting /\ \A j \in DOMAIN received : queue'[i] # received[j]
      BY <3>2, <3>4 DEF TicketsApart, TicketsDiffer
    <3>9. TicketsDiffer'
      BY <3>1, <3>5, <3>6, <3>7, <3>8 DEF TicketsApart, TicketsDiffer
    <3> QED BY <3>3, <3>9 DEF TicketsApart
  <2> QED BY <1>3, <2>1, <2>2 DEF Enqueue
<1>4. CASE Take
  <2>1. /\ posting = None /\ posting' = queue[1]
        /\ \A i \in DOMAIN queue' : /\ queue'[i] = queue[i + 1]
                                    /\ i + 1 \in DOMAIN queue /\ i + 1 # 1
        /\ \A i, j \in DOMAIN queue' : i # j => i + 1 # j + 1
        /\ 1 \in DOMAIN queue
        /\ UNCHANGED <<calling, marked, accepted, received>>
    BY <1>4 DEF Take
  <2>2. TicketsGiven'
    BY <2>1 DEF TicketsApart, TicketsGiven
  <2>3. \A i, j \in DOMAIN queue' : i # j => queue'[i] # queue'[j]
    BY <2>1 DEF TicketsApart, TicketsDiffer
  <2>5. \A i \in DOMAIN queue' :
          queue'[i] # posting' /\ \A j \in DOMAIN received : queue'[i] # received[j]
    <3>1. ASSUME NEW i \in DOMAIN queue'
          PROVE  queue'[i] # posting' /\ \A j \in DOMAIN received : queue'[i] # received[j]
      <4>1. queue'[i] = queue[i + 1] /\ i + 1 \in DOMAIN queue /\ i + 1 # 1
        BY <2>1
      <4> QED BY <2>1, <4>1 DEF TicketsApart, TicketsDiffer
    <3> QED BY <3>1
  <2>6. TicketsDiffer'
    BY <2>1, <2>3, <2>5 DEF TicketsApart, TicketsDiffer
  <2> QED BY <2>2, <2>6 DEF TicketsApart
<1>5. CASE Deliver
  <2>1. CASE UNCHANGED received
    BY TicketTypes, <1>5, <2>1 DEF Deliver, TicketsApart, TicketsGiven, TicketsDiffer
  <2>2. CASE received' = Append(received, posting)
    <3>1. \A i \in DOMAIN received' :
            \/ i \in DOMAIN received /\ received'[i] = received[i]
            \/ received'[i] = posting
      <4>1. posting \in Nat
        BY TicketTypes, <1>5 DEF Deliver
      <4> QED BY <2>2, <4>1, AppendAt
    <3>2. posting # None /\ posting' = None /\ UNCHANGED <<calling, marked, queue, accepted>>
      BY <1>5 DEF Deliver
    <3>3. TicketsGiven'
      BY TicketTypes, <3>1, <3>2 DEF TicketsApart, TicketsGiven
    <3>4. TicketsDiffer'
      BY TicketTypes, <3>1, <3>2 DEF TicketsApart, TicketsDiffer, TicketsGiven
    <3> QED BY TicketTypes, <3>3, <3>4 DEF TicketsApart
  <2> QED BY TicketTypes, <1>5, <2>1, <2>2 DEF Deliver
<1>6. CASE Tick
  BY <1>6 DEF Tick, TicketsApart, TicketsGiven, TicketsDiffer
<1>7. CASE Restart
  BY <1>7 DEF Restart, Idle, TicketsApart, TicketsGiven, TicketsDiffer
<1>8. CASE UNCHANGED vars
  BY <1>8 DEF vars, TicketsApart, TicketsGiven, TicketsDiffer
<1> QED BY <1>1, <1>2, <1>3, <1>4, <1>5, <1>6, <1>7, <1>8 DEF Next

(* Every step is a step of WebhookPromise, or changes nothing it sees.     *)
LEMMA PromiseStep ==
  ASSUME TypeOK, TypeOK', TicketsApart, TicketsApart', [Next]_vars
  PROVE  [Promise!Next]_Promise!pvars
<1> DEFINE Held == Pending \ {None}
<1>0. Held \subseteq Tickets
  BY TicketTypes DEF Pending, TicketsApart, TicketsGiven, Tickets
<1>1. SUFFICES ASSUME ~UNCHANGED <<Held, received>>
               PROVE  \/ \E n \in Tickets : Promise!Accept(n) \/ Promise!Receive(n)
                      \/ \E lost \in SUBSET Tickets : Promise!Lose(lost)
  BY DEF Promise!Next, Promise!pvars
<1>m. \A n : n \in Held <=> /\ n # None
                           /\ \/ \E p \in Publishers : marked[p] = n
                              \/ posting = n
                              \/ \E i \in DOMAIN queue : queue[i] = n
  BY DEF Pending
<1>n. \A n : n \in Held' <=> /\ n # None
                            /\ \/ \E p \in Publishers : marked'[p] = n
                               \/ posting' = n
                               \/ \E i \in DOMAIN queue' : queue'[i] = n
  BY DEF Pending
<1>u. UNCHANGED <<marked, queue, posting>> => UNCHANGED Held
  BY DEF Pending
<1>h. Held = Pending \ {None} /\ Held' = (Pending \ {None})'
  BY TicketTypes
<1> HIDE DEF Held
<1>2. ASSUME NEW p \in Publishers, MarkEventSeen(p)
      PROVE  \E n \in Tickets : Promise!Accept(n)
  <2> DEFINE n == Len(accepted) + 1
  <2>1. /\ marked' = [marked EXCEPT ![p] = n]
        /\ Len(accepted) < MaxAccepted
        /\ UNCHANGED <<queue, posting, received>>
    <3>1. ~UNCHANGED marked
      BY <1>1, <1>2, <1>u DEF MarkEventSeen
    <3>2. PICK e : accepted' = Append(accepted, e)
      BY <1>2, <3>1 DEF MarkEventSeen
    <3>3. Len(accepted') = n
      BY <3>2
    <3> QED BY TicketTypes, <1>2, <3>1, <3>3 DEF MarkEventSeen
  <2>2. n \in Nat /\ n \in Tickets
    BY TicketTypes, <2>1 DEF Tickets
  <2>3. n \notin Held /\ \A i \in DOMAIN received : received[i] # n
    <3>1. Held \subseteq 1..Len(accepted)
      BY <1>m DEF TicketsApart, TicketsGiven
    <3>2. n \notin 1..Len(accepted)
      BY TicketTypes
    <3> HIDE DEF n
    <3> QED BY <3>1, <3>2 DEF TicketsApart, TicketsGiven
  <2>4. marked[p] = None
    BY <1>2 DEF MarkEventSeen, TicketsApart, TicketsGiven
  <2>5. Held' = Held \cup {n}
    <3>1. \A k : k \in Held' <=> k \in Held \/ k = n
      BY TicketTypes, <2>1, <2>2, <2>4, <1>m, <1>n
    <3> QED BY TicketTypes, <3>1
  <2> QED BY TicketTypes, <2>1, <2>2, <2>3, <2>5, <1>h DEF Promise!Accept, Promise!Fresh
<1>3. ASSUME NEW p \in Publishers, Enqueue(p)
      PROVE  \E lost \in SUBSET Tickets : Promise!Lose(lost)
  <2>1. marked[p] \in Held
    BY <1>3, <1>m DEF Enqueue
  <2>2. CASE UNCHANGED queue
    <3>1. Held' = Held \ {marked[p]}
      <4>1. \A k : k \in Held' <=> k \in Held /\ k # marked[p]
        <5>1. /\ marked[p] # None /\ marked'[p] = None
              /\ \A q \in Publishers : q # p => marked'[q] = marked[q]
              /\ posting' = posting /\ queue' = queue
          BY TicketTypes, <1>3, <2>2 DEF Enqueue
        <5>2. /\ \A q \in Publishers : q # p => marked[q] # marked[p]
              /\ posting # marked[p]
              /\ \A i \in DOMAIN queue : queue[i] # marked[p]
          BY <5>1 DEF TicketsApart, TicketsDiffer
        <5>3. ASSUME NEW k PROVE k \in Held' => k \in Held /\ k # marked[p]
          BY <5>1, <5>2, <1>m, <1>n
        <5>4. ASSUME NEW k PROVE k \in Held /\ k # marked[p] => k \in Held'
          BY <5>1, <5>2, <1>m, <1>n
        <5> QED BY <5>3, <5>4
      <4> QED BY <4>1
    <3>2. Promise!Lose({marked[p]})
      BY <1>3, <2>1, <3>1, <1>h DEF Promise!Lose, Enqueue
    <3> QED BY <1>0, <2>1, <3>2
  <2>3. CASE queue' = Append(queue, marked[p])
    <3>1. \A k : (\E i \in DOMAIN queue' : queue'[i] = k) <=>
                  (\E i \in DOMAIN queue : queue[i] = k) \/ k = marked[p]
      <4>1. marked[p] \in Nat
        BY TicketTypes, <1>3 DEF Enqueue
      <4> DEFINE longer == Append(queue, marked[p])
      <4>2. /\ \A i \in DOMAIN longer :
                 (i \in DOMAIN queue /\ longer[i] = queue[i]) \/ longer[i] = marked[p]
            /\ \A i \in DOMAIN queue : i \in DOMAIN longer /\ longer[i] = queue[i]
            /\ \E i \in DOMAIN longer : longer[i] = marked[p]
        <5>1. queue \in Seq(Nat)
          BY TicketTypes
        <5> QED BY <4>1, <5>1, AppendAt
      <4>3. queue' = longer
        BY <2>3
      <4> HIDE DEF longer
      <4> QED BY <4>2, <4>3
    <3>2. Held' = Held
      <4>1. \A k : k \in Held' <=> k \in Held
        BY TicketTypes, <1>3, <2>1, <3>1, <1>m, <1>n DEF Enqueue
      <4> QED BY TicketTypes, <4>1
    <3> QED BY TicketTypes, <1>1, <1>3, <3>2 DEF Enqueue
  <2> QED BY <1>3, <2>2, <2>3 DEF Enqueue
<1>4. ~Take
  <2> SUFFICES ASSUME Take PROVE Held' = Held /\ received' = received
    BY <1>1
  <2>1. /\ posting' = queue[1] /\ 1 \in DOMAIN queue
        /\ \A i \in DOMAIN queue' : i + 1 \in DOMAIN queue /\ queue'[i] = queue[i + 1]
        /\ \A i \in DOMAIN queue : i = 1 \/ (i - 1 \in DOMAIN queue' /\ queue[i] = queue'[i - 1])
    BY DEF Take
  <2>2. \A k : (\E i \in DOMAIN queue : queue[i] = k) <=>
                (\E i \in DOMAIN queue' : queue'[i] = k) \/ k = posting'
    BY <2>1
  <2>3. \A k : k \in Held' <=> k \in Held
    BY <2>2, <1>m, <1>n DEF Take
  <2> QED BY <2>3 DEF Take
<1>5. ASSUME Deliver
      PROVE  \/ \E n \in Tickets : Promise!Receive(n)
             \/ \E lost \in SUBSET Tickets : Promise!Lose(lost)
  <2>1. posting \in Held /\ Held' = Held \ {posting}
    <3>1. posting \in Held
      BY <1>5, <1>m DEF Deliver
    <3>2. \A k : k \in Held' <=> k \in Held /\ k # posting
      <4>1. /\ posting # None /\ posting' = None
            /\ marked' = marked /\ queue' = queue
        BY <1>5 DEF Deliver
      <4>2. /\ \A p \in Publishers : marked[p] # posting
            /\ \A i \in DOMAIN queue : queue[i] # posting
        BY <4>1 DEF TicketsApart, TicketsDiffer
      <4> QED BY <4>1, <4>2, <1>m, <1>n
    <3> QED BY <3>1, <3>2
  <2>2. CASE UNCHANGED received
    <3>1. Promise!Lose({posting})
      BY <2>1, <2>2, <1>h DEF Promise!Lose
    <3> QED BY <1>0, <2>1, <3>1
  <2>3. CASE received' = Append(received, posting)
    BY <1>0, <2>1, <2>3, <1>h DEF Promise!Receive
  <2> QED BY <1>5, <2>2, <2>3 DEF Deliver
<1>6. ASSUME Restart PROVE Promise!Lose(Held)
  <2>1. Held' = {}
    BY <1>6, <1>n DEF Restart
  <2> QED BY <1>6, <2>1, <1>h DEF Restart, Promise!Lose
<1>7. ~UNCHANGED vars /\ ~Tick
  BY <1>1, <1>u DEF vars, Tick
<1>8. ASSUME NEW p \in Publishers, NEW id \in EventIds PROVE ~Publish(p, id)
  BY <1>1, <1>u DEF Publish
<1> QED BY <1>0, <1>2, <1>3, <1>4, <1>5, <1>6, <1>7, <1>8 DEF Next

(* The dispatcher implements WebhookPromise: what it accepts is sent once  *)
(* or lost, never twice, for every queue size and any number of restarts.  *)
THEOREM PromiseKept == Spec => KeepsWebhookPromise
<1>1. Init => TicketsApart /\ Promise!Init
  BY WebhookAssumption DEF Init, TicketsApart, TicketsGiven, TicketsDiffer,
     Promise!Init, Pending, Idle
<1>2. Spec => []TicketsApart
  <2>1. Init => TicketsApart
    BY <1>1
  <2> QED BY <2>1, TicketsStayApart, TypeCorrect, PTL DEF Spec
<1> QED BY <1>1, <1>2, PromiseStep, TypeCorrect, PTL
     DEF Spec, KeepsWebhookPromise, Promise!Spec
-----------------------------------------------------------------------------
(* Of two tickets of one publisher, the first was given out first.         *)
Before(m, n) == accepted[m].by = accepted[n].by => m < n

(* Why the CRM sees a publisher's events in order: its tickets grow along  *)
(* the way to the CRM, from received over posting and the queue to the one *)
(* it has in hand, and it accepts nothing while it has one in hand.        *)
TicketsOrdered ==
  /\ \A p \in Publishers : marked[p] # None =>
       /\ accepted[marked[p]].by = p
       /\ \A i \in DOMAIN queue : Before(queue[i], marked[p])
       /\ posting # None => Before(posting, marked[p])
       /\ \A i \in DOMAIN received : Before(received[i], marked[p])
  /\ \A i, j \in DOMAIN queue : i < j => Before(queue[i], queue[j])
  /\ posting # None => /\ \A i \in DOMAIN queue : Before(posting, queue[i])
                       /\ \A i \in DOMAIN received : Before(received[i], posting)
  /\ \A i \in DOMAIN queue, j \in DOMAIN received : Before(received[j], queue[i])
  /\ \A i, j \in DOMAIN received : i < j => Before(received[i], received[j])

(* A step keeps the order of the tickets: a new ticket is the greatest,    *)
(* and the others move one place on or are forgotten.                      *)
LEMMA TicketsStayOrdered ==
  ASSUME TypeOK, TypeOK', TicketsApart, TicketsOrdered, [Next]_vars
  PROVE  TicketsOrdered'
<1>1. ASSUME UNCHANGED <<marked, accepted, queue, posting, received>>
      PROVE  TicketsOrdered'
  BY <1>1 DEF TicketsOrdered, Before
<1>2. ASSUME NEW p \in Publishers, MarkEventSeen(p) PROVE TicketsOrdered'
  <2>1. CASE UNCHANGED <<marked, accepted>>
    BY <1>1, <1>2, <2>1 DEF MarkEventSeen
  <2>2. CASE ~Remembered(calling[p].id, calling[p].now)
    <3> DEFINE e == [id |-> calling[p].id, stamp |-> calling[p].now,
                     at |-> clock, run |-> restarts, by |-> p]
    <3>0. PICK n \in Nat : n = Len(accepted) + 1
      BY TicketTypes
    <3>1. /\ accepted' = Append(accepted, e)
          /\ marked' = [marked EXCEPT ![p] = Len(accepted')]
          /\ UNCHANGED <<queue, posting, received>>
      BY <1>2, <2>2 DEF MarkEventSeen
    <3>2. /\ n = Len(accepted') /\ accepted'[n].by = p
          /\ \A i \in 1..Len(accepted) : accepted'[i] = accepted[i] /\ i < n
      <4>1. e.by = p
        OBVIOUS
      <4>2. accepted \in Seq(Acceptance)
        BY TicketTypes
      <4> HIDE DEF e
      <4> QED BY <3>0, <3>1, <4>1, <4>2
    <3>3. /\ marked'[p] = n
          /\ \A q \in Publishers : q # p => marked'[q] = marked[q]
      BY <3>1, <3>2, TicketTypes
    <3>4. ASSUME NEW k \in 1..Len(accepted), NEW m \in 1..Len(accepted)
          PROVE  /\ Before(k, m)' <=> Before(k, m)
                 /\ Before(k, n)'
      BY <3>2 DEF Before
    <3>5. ASSUME NEW q \in Publishers, marked'[q] # None
          PROVE  /\ accepted'[marked'[q]].by = q
                 /\ \A i \in DOMAIN queue : Before(queue[i], marked[q])'
                 /\ posting # None => Before(posting, marked[q])'
                 /\ \A i \in DOMAIN received : Before(received[i], marked[q])'
      <4>1. CASE q = p
        BY <3>1, <3>2, <3>3, <3>4, <4>1 DEF TicketsApart, TicketsGiven, Before
      <4>2. CASE q # p
        BY <3>1, <3>2, <3>3, <3>4, <3>5, <4>2
        DEF TicketsOrdered, TicketsApart, TicketsGiven, Before
      <4> QED BY <4>1, <4>2
    <3>6. /\ \A i \in DOMAIN queue : queue[i] \in 1..Len(accepted)
          /\ posting # None => posting \in 1..Len(accepted)
          /\ \A i \in DOMAIN received : received[i] \in 1..Len(accepted)
      BY DEF TicketsApart, TicketsGiven
    <3>7. ASSUME NEW k \in 1..Len(accepted), NEW m \in 1..Len(accepted), Before(k, m)
          PROVE  accepted'[k].by = accepted'[m].by => k < m
      BY <3>2, <3>7 DEF Before
    <3>8. \A i, j \in DOMAIN queue : i < j => Before(queue[i], queue[j])'
      BY <3>1, <3>6, <3>7 DEF TicketsOrdered, Before
    <3>9. posting # None => /\ \A i \in DOMAIN queue : Before(posting, queue[i])'
                            /\ \A i \in DOMAIN received : Before(received[i], posting)'
      BY <3>1, <3>6, <3>7 DEF TicketsOrdered, Before
    <3>10. /\ \A i \in DOMAIN queue, j \in DOMAIN received : Before(received[j], queue[i])'
           /\ \A i, j \in DOMAIN received : i < j => Before(received[i], received[j])'
      BY <3>1, <3>6, <3>7 DEF TicketsOrdered, Before
    <3> QED BY <3>1, <3>5, <3>8, <3>9, <3>10 DEF TicketsOrdered
  <2> QED BY <1>2, <2>1, <2>2 DEF MarkEventSeen
<1>3. ASSUME NEW p \in Publishers, Enqueue(p) PROVE TicketsOrdered'
  <2>1. /\ marked[p] \in Nat
        /\ marked' = [marked EXCEPT ![p] = None]
        /\ UNCHANGED <<posting, accepted, received>>
    BY <1>3, TicketTypes DEF Enqueue
  <2>2. \A q \in Publishers : marked'[q] # None => q # p /\ marked'[q] = marked[q]
    BY <2>1, TicketTypes
  <2>3. CASE UNCHANGED queue
    BY <2>1, <2>2, <2>3 DEF TicketsOrdered, Before
  <2>4. CASE queue' = Append(queue, marked[p])
    <3> DEFINE last == Len(queue) + 1
    <3>1. \A i \in DOMAIN queue' :
            \/ i \in DOMAIN queue /\ queue'[i] = queue[i] /\ i < last
            \/ i = last /\ queue'[i] = marked[p]
      <4> DEFINE longer == Append(queue, marked[p])
      <4>1. \A i \in DOMAIN longer :
              \/ i \in DOMAIN queue /\ longer[i] = queue[i]
              \/ i = last /\ i \notin DOMAIN queue /\ longer[i] = marked[p]
        <5>1. queue \in Seq(Nat) /\ marked[p] \in Nat
          BY <2>1, TicketTypes
        <5> QED BY <5>1, AppendAt
      <4>2. queue' = longer /\ \A i \in DOMAIN queue : i < last
        BY <2>4, TicketTypes
      <4> HIDE DEF longer, last
      <4> QED BY <4>1, <4>2
    <3>2. \A i, j \in DOMAIN queue' : i < j =>
            i \in DOMAIN queue /\ queue'[i] = queue[i]
      <4>1. Len(queue) \in Nat /\ DOMAIN queue = 1..Len(queue)
        BY TicketTypes
      <4> QED BY <3>1, <4>1
    <3>3. marked[p] # None
      BY <1>3 DEF Enqueue
    <3> HIDE DEF last
    <3>a. \A i \in DOMAIN queue : /\ Before(queue[i], marked[p])
                                  /\ \A j \in DOMAIN queue : i < j => Before(queue[i], queue[j])
      BY <3>3 DEF TicketsOrdered
    <3>4. \A q \in Publishers : marked'[q] # None =>
            \A i \in DOMAIN queue' : Before(queue[i], marked[q])'
      BY <2>1, <2>2, <3>1, <3>3 DEF TicketsOrdered, Before
    <3>5. ASSUME NEW i \in DOMAIN queue', NEW j \in DOMAIN queue', i < j
          PROVE  Before(queue[i], queue[j])'
      <4>1. i \in DOMAIN queue /\ queue'[i] = queue[i]
        BY <3>2, <3>5
      <4>2. CASE j \in DOMAIN queue /\ queue'[j] = queue[j]
        BY <2>1, <3>5, <3>a, <4>1, <4>2 DEF Before
      <4>3. CASE queue'[j] = marked[p]
        BY <2>1, <3>a, <4>1, <4>3 DEF Before
      <4> QED BY <3>1, <4>2, <4>3
    <3>6. \A i \in DOMAIN queue' :
            /\ posting # None => Before(posting, queue[i])'
            /\ \A j \in DOMAIN received : Before(received[j], queue[i])'
      BY <2>1, <3>1, <3>3 DEF TicketsOrdered, Before
    <3> QED BY <2>1, <2>2, <3>4, <3>5, <3>6 DEF TicketsOrdered, Before
  <2> QED BY <1>3, <2>3, <2>4 DEF Enqueue
<1>4. CASE Take
  <2>1. /\ posting' = queue[1] /\ 1 \in DOMAIN queue
        /\ \A i \in DOMAIN queue' : /\ queue'[i] = queue[i + 1]
                                    /\ i + 1 \in DOMAIN queue /\ 1 < i + 1
        /\ \A i, j \in DOMAIN queue' : i < j => i + 1 < j + 1
        /\ UNCHANGED <<marked, accepted, received>>
    <3>1. queue \in Seq(Nat) /\ queue # <<>> /\ queue' = Tail(queue)
          /\ posting' = Head(queue) /\ UNCHANGED <<marked, accepted, received>>
      BY <1>4, TicketTypes DEF Take
    <3>2. Len(queue) \in Nat \ {0} /\ DOMAIN queue = 1..Len(queue)
      BY <3>1
    <3>3. DOMAIN queue' = 1..(Len(queue) - 1)
      BY <3>1
    <3>4. \A i \in DOMAIN queue' : queue'[i] = queue[i + 1]
      BY <3>1
    <3>5. posting' = queue[1]
      BY <3>1
    <3> QED BY <3>1, <3>2, <3>3, <3>4, <3>5
  <2>2. \A i, j \in DOMAIN queue' : i < j => Before(queue[i], queue[j])'
    BY <2>1 DEF TicketsOrdered, Before
  <2>3. \A i \in DOMAIN queue' :
          /\ Before(posting, queue[i])'
          /\ \A j \in DOMAIN received : Before(received[j], queue[i])'
          /\ \A p \in Publishers : marked[p] # None => Before(queue[i], marked[p])'
    <3>1. ASSUME NEW i \in DOMAIN queue'
          PROVE  /\ Before(posting, queue[i])'
                 /\ \A j \in DOMAIN received : Before(received[j], queue[i])'
                 /\ \A p \in Publishers : marked[p] # None => Before(queue[i], marked[p])'
      <4>1. PICK k \in DOMAIN queue : queue'[i] = queue[k] /\ 1 < k
        BY <2>1
      <4>2. /\ Before(queue[1], queue[k])
            /\ \A j \in DOMAIN received : Before(received[j], queue[k])
            /\ \A p \in Publishers : marked[p] # None => Before(queue[k], marked[p])
        BY <2>1, <4>1 DEF TicketsOrdered
      <4> QED BY <2>1, <4>1, <4>2 DEF Before
    <3> QED BY <2>1, <3>1
  <2>4. /\ \A j \in DOMAIN received : Before(received[j], posting)'
        /\ \A p \in Publishers : marked[p] # None => Before(posting, marked[p])'
    BY <2>1 DEF TicketsOrdered, Before
  <2> QED BY <2>1, <2>2, <2>3, <2>4 DEF TicketsOrdered, Before
<1>5. CASE Deliver
  <2>1. /\ posting \in Nat /\ posting # None /\ posting' = None
        /\ UNCHANGED <<marked, queue, accepted>>
    BY <1>5, TicketTypes DEF Deliver
  <2>2. CASE UNCHANGED received
    BY <2>1, <2>2 DEF TicketsOrdered, Before
  <2>3. CASE received' = Append(received, posting)
    <3> DEFINE last == Len(received) + 1
    <3>1. \A i \in DOMAIN received' :
            \/ i \in DOMAIN received /\ received'[i] = received[i] /\ i < last
            \/ i = last /\ received'[i] = posting
      <4> DEFINE longer == Append(received, posting)
      <4>1. \A i \in DOMAIN longer :
              \/ i \in DOMAIN received /\ longer[i] = received[i]
              \/ i = last /\ i \notin DOMAIN received /\ longer[i] = posting
        <5>1. received \in Seq(Nat) /\ posting \in Nat
          BY <2>1, TicketTypes
        <5> QED BY <5>1, AppendAt
      <4>2. received' = longer /\ \A i \in DOMAIN received : i < last
        BY <2>3, TicketTypes
      <4> HIDE DEF longer, last
      <4> QED BY <4>1, <4>2
    <3>2. \A i, j \in DOMAIN received' : i < j =>
            i \in DOMAIN received /\ received'[i] = received[i]
      <4>1. Len(received) \in Nat /\ DOMAIN received = 1..Len(received)
        BY TicketTypes
      <4> QED BY <3>1, <4>1
    <3> HIDE DEF last
    <3>a. \A i \in DOMAIN received :
            /\ Before(received[i], posting)
            /\ \A j \in DOMAIN received : i < j => Before(received[i], received[j])
      BY <2>1 DEF TicketsOrdered
    <3>3. \A i \in DOMAIN received' :
            /\ \A j \in DOMAIN queue : Before(received[i], queue[j])'
            /\ \A p \in Publishers : marked[p] # None => Before(received[i], marked[p])'
      BY <2>1, <3>1 DEF TicketsOrdered, Before
    <3>4. ASSUME NEW i \in DOMAIN received', NEW j \in DOMAIN received', i < j
          PROVE  Before(received[i], received[j])'
      <4>1. i \in DOMAIN received /\ received'[i] = received[i]
        BY <3>2, <3>4
      <4>2. CASE j \in DOMAIN received /\ received'[j] = received[j]
        BY <2>1, <3>4, <3>a, <4>1, <4>2 DEF Before
      <4>3. CASE received'[j] = posting
        BY <2>1, <3>a, <4>1, <4>3 DEF Before
      <4> QED BY <3>1, <4>2, <4>3
    <3> QED BY <2>1, <3>3, <3>4 DEF TicketsOrdered, Before
  <2> QED BY <1>5, <2>2, <2>3 DEF Deliver
<1>6. CASE Restart
  BY <1>6 DEF Restart, TicketsOrdered, Before
<1>7. CASE Tick \/ UNCHANGED vars \/ \E p \in Publishers, id \in EventIds : Publish(p, id)
  BY <1>1, <1>7 DEF Tick, vars, Publish
<1> QED BY <1>2, <1>3, <1>4, <1>5, <1>6, <1>7 DEF Next

(* The CRM gets what one publisher (the holders of channelStateMu, or one  *)
(* upload) had accepted in the order it was accepted, for every queue size *)
(* and any number of publishers and restarts.                              *)
THEOREM PublishersInOrder == Spec => []PublishersKeepOrder
<1>1. Init => TicketsApart /\ TicketsOrdered
  BY WebhookAssumption DEF Init, TicketsApart, TicketsGiven, TicketsDiffer,
     TicketsOrdered, Idle
<1>2. TicketsOrdered => PublishersKeepOrder
  BY DEF TicketsOrdered, PublishersKeepOrder, Before
<1> QED BY <1>1, <1>2, TypeCorrect, TicketsStayApart, TicketsStayOrdered, PTL
     DEF Spec

(* What is in seen was accepted by this process at that time.              *)
SeenWereAccepted ==
  \A id \in DOMAIN seen :
    \E i \in DOMAIN accepted :
      /\ accepted[i].id = id /\ accepted[i].run = restarts
      /\ accepted[i].stamp = seen[id]

(* Neither an acceptance nor a purge puts a time into seen that no         *)
(* acceptance of this process had (markEventSeen, Start).                  *)
LEMMA SeenStaysAccepted ==
  ASSUME TypeOK, SeenWereAccepted, [Next]_vars
  PROVE  SeenWereAccepted'
<1>1. ASSUME NEW p \in Publishers, MarkEventSeen(p) PROVE SeenWereAccepted'
  <2> DEFINE id  == calling[p].id
             now == calling[p].now
             e   == [id |-> id, stamp |-> now, at |-> clock,
                     run |-> restarts, by |-> p]
  <2>1. CASE Remembered(id, now) /\ UNCHANGED <<seen, marked, accepted>>
    BY <1>1, <2>1 DEF MarkEventSeen, SeenWereAccepted
  <2>2. CASE ~(Remembered(id, now) /\ UNCHANGED <<seen, marked, accepted>>)
    <3>1. /\ seen' = [i \in Young(now) \cup {id} |-> IF i = id THEN now ELSE seen[i]]
          /\ accepted' = Append(accepted, e)
          /\ restarts' = restarts
      BY <1>1, <2>2 DEF MarkEventSeen
    <3>2. /\ Len(accepted) + 1 \in DOMAIN accepted'
          /\ accepted'[Len(accepted) + 1] = e
          /\ \A i \in DOMAIN accepted : i \in DOMAIN accepted' /\ accepted'[i] = accepted[i]
      <4> HIDE DEF e
      <4>1. accepted \in Seq(Acceptance)
        BY DEF TypeOK
      <4> QED BY <3>1, <4>1
    <3>3. ASSUME NEW k \in DOMAIN seen'
          PROVE  \E i \in DOMAIN accepted' :
                   /\ accepted'[i].id = k /\ accepted'[i].run = restarts'
                   /\ accepted'[i].stamp = seen'[k]
      <4>1. CASE k = id
        <5>1. seen'[k] = now
          BY <3>1, <4>1
        <5> QED BY <3>1, <3>2, <4>1, <5>1
      <4>2. CASE k # id
        <5>1. k \in DOMAIN seen /\ seen'[k] = seen[k]
          BY <3>1, <3>3, <4>2 DEF Young
        <5>2. PICK i \in DOMAIN accepted :
                /\ accepted[i].id = k /\ accepted[i].run = restarts
                /\ accepted[i].stamp = seen[k]
          BY <5>1 DEF SeenWereAccepted
        <5> QED BY <3>1, <3>2, <5>1, <5>2
      <4> QED BY <4>1, <4>2
    <3> QED BY <3>3 DEF SeenWereAccepted
  <2> QED BY <2>1, <2>2
<1>2. CASE Restart
  BY <1>2 DEF Restart, SeenWereAccepted
<1>3. CASE UNCHANGED <<seen, accepted, restarts>>
  BY <1>3 DEF SeenWereAccepted
<1> QED BY <1>1, <1>2, <1>3 DEF Next, Publish, Enqueue, Take, Deliver, Tick, vars

(* An event is only refused on account of an acceptance of its id by this  *)
(* process, less than the TTL before the time its publisher read, whatever *)
(* was purged, and by whom.                                                *)
THEOREM RefusalsJustified == Spec => RefusalsAreJustified
<1>1. Init => SeenWereAccepted
  BY DEF Init, SeenWereAccepted
<1>2. TypeOK /\ SeenWereAccepted /\ [Next]_vars => SeenWereAccepted'
  BY SeenStaysAccepted
<1>3. ASSUME TypeOK, SeenWereAccepted, NEW p \in Publishers, Refused(p)
      PROVE  \E i \in DOMAIN accepted :
               /\ accepted[i].id = calling[p].id /\ accepted[i].run = restarts
               /\ calling[p].now < accepted[i].stamp + EventDedupeTTL
  <2>1. Remembered(calling[p].id, calling[p].now)
    <3> SUFFICES ASSUME accepted' = Append(accepted, [id |-> calling[p].id,
                          stamp |-> calling[p].now, at |-> clock,
                          run |-> restarts, by |-> p])
                 PROVE  FALSE
      BY <1>3 DEF Refused, MarkEventSeen
    <3> DEFINE e == [id |-> calling[p].id, stamp |-> calling[p].now,
                     at |-> clock, run |-> restarts, by |-> p]
    <3>1. accepted' = Append(accepted, e)
      OBVIOUS
    <3> HIDE DEF e
    <3>2. accepted \in Seq(Acceptance)
      BY <1>3 DEF TypeOK
    <3>3. Len(Append(accepted, e)) = Len(accepted) + 1 /\ Len(accepted) \in Nat
      BY <3>2
    <3> QED BY <1>3, <3>1, <3>3 DEF Refused
  <2> QED BY <1>3, <2>1 DEF SeenWereAccepted, Remembered
<1>4. TypeOK /\ SeenWereAccepted =>
        \A p \in Publishers : Refused(p) =>
          \E i \in DOMAIN accepted :
            /\ accepted[i].id = calling[p].id /\ accepted[i].run = restarts
            /\ calling[p].now < accepted[i].stamp + EventDedupeTTL
  BY <1>3
<1> QED BY <1>1, <1>2, <1>4, TypeCorrect, PTL DEF RefusalsAreJustified, Spec
=============================================================================
