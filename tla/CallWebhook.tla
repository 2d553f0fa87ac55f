---------------------------- MODULE CallWebhook ----------------------------
(***************************************************************************)
(* The call webhook dispatcher (callwebhook/dispatcher.go): the channel    *)
(* event handlers and the recording uploads publish call events, one       *)
(* goroutine posts them to the CRM.  An event id that was accepted is      *)
(* refused for EventDedupeTTL; the queue is bounded and never waited for;  *)
(* a post that fails is logged and forgotten; a restart of CustomPBX       *)
(* forgets the queue and the ids.                                          *)
(***************************************************************************)
EXTENDS Naturals, Sequences

CONSTANTS
  Publishers,      \* what publishes one event after the other: the call
                   \* handlers together, which publish while they hold
                   \* channelStateMu (fsesl.go:716 to :781), and each upload
  EventIds,        \* "<event>:<leg>"
  None,            \* no event in hand, no ticket
  QueueSize,       \* config.QueueSize
  EventDedupeTTL,  \* how long an id is remembered
  MaxTime, MaxAccepted, MaxRestarts   \* bounds of the runs

ASSUME WebhookAssumption ==
  /\ None \notin EventIds
  /\ None \notin Nat
  /\ QueueSize \in Nat \ {0}
  /\ EventDedupeTTL \in Nat \ {0}
  /\ MaxTime \in Nat /\ MaxAccepted \in Nat /\ MaxRestarts \in Nat

VARIABLES
  clock,      \* time.Now()
  restarts,   \* how often CustomPBX was restarted
  seen,       \* d.seen: the time an id was accepted, for the ids remembered
  calling,    \* what Publish was called with by each publisher, and when
  marked,     \* the ticket a publisher holds between the mark and the queue
  queue,      \* d.queue
  posting,    \* the ticket d.run is posting
  accepted,   \* history: every acceptance, its place is its ticket
  received    \* history: the tickets the CRM was sent, in order

vars == <<clock, restarts, seen, calling, marked, queue, posting, accepted,
          received>>

Tickets == 1..MaxAccepted
Idle    == [id |-> None, now |-> 0]
Acceptance == [id : EventIds, stamp : Nat, at : Nat, run : Nat, by : Publishers]

TypeOK ==
  /\ clock \in 0..MaxTime
  /\ restarts \in 0..MaxRestarts
  /\ DOMAIN seen \subseteq EventIds
  /\ \A id \in DOMAIN seen : seen[id] \in Nat
  /\ calling \in [Publishers -> [id : EventIds \cup {None}, now : Nat]]
  /\ marked \in [Publishers -> Nat \cup {None}]
  /\ queue \in Seq(Nat) /\ Len(queue) <= QueueSize
  /\ posting \in Nat \cup {None}
  /\ accepted \in Seq(Acceptance)
  /\ received \in Seq(Nat)

Init ==
  /\ clock = 0 /\ restarts = 0
  /\ seen = [id \in {} |-> 0]
  /\ calling = [p \in Publishers |-> Idle]
  /\ marked = [p \in Publishers |-> None]
  /\ queue = <<>> /\ posting = None
  /\ accepted = <<>> /\ received = <<>>
-----------------------------------------------------------------------------
\* The time is read before seenMu is taken: by then it may be in the past.
Publish(p, id) ==
  /\ calling[p] = Idle /\ marked[p] = None
  /\ calling' = [calling EXCEPT ![p] = [id |-> id, now |-> clock]]
  /\ UNCHANGED <<clock, restarts, seen, marked, queue, posting, accepted,
                 received>>

\* A mutant: whatever is in seen is taken to be young, since it is purged.
RememberedAtAll(id, now) == id \in DOMAIN seen

Remembered(id, now) == id \in DOMAIN seen /\ now < seen[id] + EventDedupeTTL

\* A mutant of the purge: the comparison turned round.
YoungAreOld(now)  == {id \in DOMAIN seen : now < seen[id]}

\* The entries that are not purged when an id is accepted.
Young(now) == {id \in DOMAIN seen : now < seen[id] + EventDedupeTTL}

MarkEventSeen(p) ==
  LET id  == calling[p].id
      now == calling[p].now
  IN  /\ id # None
      /\ calling' = [calling EXCEPT ![p] = Idle]
      /\ \/ Remembered(id, now) /\ UNCHANGED <<seen, marked, accepted>>
         \/ /\ ~Remembered(id, now)
            /\ Len(accepted) < MaxAccepted
            /\ seen' = [i \in Young(now) \cup {id} |->
                          IF i = id THEN now ELSE seen[i]]
            /\ accepted' = Append(accepted, [id |-> id, stamp |-> now,
                                at |-> clock, run |-> restarts, by |-> p])
            /\ marked' = [marked EXCEPT ![p] = Len(accepted')]
      /\ UNCHANGED <<clock, restarts, queue, posting, received>>

\* A mutant: a queue that grows instead of dropping.
EnqueueAlways(p) ==
  /\ marked[p] # None
  /\ marked' = [marked EXCEPT ![p] = None]
  /\ queue' = Append(queue, marked[p])
  /\ UNCHANGED <<clock, restarts, seen, calling, posting, accepted, received>>

\* select { case d.queue <- event: default: the event is dropped }
Enqueue(p) ==
  /\ marked[p] # None
  /\ marked' = [marked EXCEPT ![p] = None]
  /\ \/ Len(queue) < QueueSize /\ queue' = Append(queue, marked[p])
     \/ Len(queue) = QueueSize /\ UNCHANGED queue
  /\ UNCHANGED <<clock, restarts, seen, calling, posting, accepted, received>>

Take ==
  /\ posting = None /\ queue # <<>>
  /\ posting' = Head(queue)
  /\ queue' = Tail(queue)
  /\ UNCHANGED <<clock, restarts, seen, calling, marked, accepted, received>>

\* Mutants: a failed post is made again at once, or queued again.
DeliverAgain ==
  /\ posting # None
  /\ \/ posting' = None /\ received' = Append(received, posting)
     \/ posting' = posting /\ received' \in {received, Append(received, posting)}
  /\ Len(received') <= MaxAccepted
  /\ UNCHANGED <<clock, restarts, seen, calling, marked, queue, accepted>>
DeliverLater ==
  /\ posting # None
  /\ posting' = None
  /\ \/ received' = Append(received, posting) /\ UNCHANGED queue
     \/ queue' = Append(queue, posting) /\ UNCHANGED received
  /\ UNCHANGED <<clock, restarts, seen, calling, marked, accepted>>

\* The post ends: the CRM may have got the event even when deliver reports
\* an error (a refusal, an answer that came too late).
Deliver ==
  /\ posting # None
  /\ posting' = None
  /\ received' \in {received, Append(received, posting)}
  /\ UNCHANGED <<clock, restarts, seen, calling, marked, queue, accepted>>

Tick ==
  /\ clock < MaxTime
  /\ clock' = clock + 1
  /\ UNCHANGED <<restarts, seen, calling, marked, queue, posting, accepted,
                 received>>

\* CustomPBX stops and is started again.
Restart ==
  /\ restarts < MaxRestarts
  /\ restarts' = restarts + 1
  /\ seen' = [id \in {} |-> 0]
  /\ calling' = [p \in Publishers |-> Idle]
  /\ marked' = [p \in Publishers |-> None]
  /\ queue' = <<>> /\ posting' = None
  /\ UNCHANGED <<clock, accepted, received>>

Next ==
  \/ \E p \in Publishers :
       \/ \E id \in EventIds : Publish(p, id)
       \/ MarkEventSeen(p)
       \/ Enqueue(p)
  \/ Take \/ Deliver \/ Tick \/ Restart

Spec == Init /\ [][Next]_vars

\* The scheduler runs every goroutine, and the HTTP client has a timeout.
Fairness == /\ \A p \in Publishers : WF_vars(Enqueue(p))
            /\ WF_vars(Take) /\ WF_vars(Deliver)
FairSpec == Spec /\ Fairness
-----------------------------------------------------------------------------
(* Two acceptances of one id by one process are never closer than the TTL, *)
(* by the clock at the second one: neither publishers racing on the id nor *)
(* a purge made by another publisher lets a second copy through            *)
(* (markEventSeen under seenMu).                                           *)
NoRepeatWithinTTL ==
  \A i, j \in DOMAIN accepted :
    i < j /\ accepted[i].id = accepted[j].id /\ accepted[i].run = accepted[j].run
      => accepted[j].at >= accepted[i].stamp + EventDedupeTTL

(* No event is refused for nothing: when markEventSeen refuses one, this   *)
(* process has accepted its id less than a TTL before the time its         *)
(* publisher read.  Entries outlive the TTL in seen, as only acceptances   *)
(* purge it, and another publisher's purge may have come first.            *)
Refused(p) == MarkEventSeen(p) /\ accepted' = accepted
RefusalsAreJustified ==
  [][\A p \in Publishers : Refused(p) =>
       \E i \in DOMAIN accepted :
         /\ accepted[i].id = calling[p].id /\ accepted[i].run = restarts
         /\ calling[p].now < accepted[i].stamp + EventDedupeTTL]_vars

(* What is published one after the other reaches the CRM in that order,    *)
(* whatever is dropped or lost in between: the events of the call handlers *)
(* in the order in which the handlers held channelStateMu, and those of an *)
(* upload.  Two publishers are not ordered; nor are the handlers by the    *)
(* time of their ESL events, as each has a goroutine that waits for the    *)
(* mutex (fsesl.go:527).                                                   *)
PublishersKeepOrder ==
  \A i, j \in DOMAIN received :
    i < j /\ accepted[received[i]].by = accepted[received[j]].by
      => received[i] < received[j]

Pending == {marked[p] : p \in Publishers} \cup {posting}
             \cup {queue[i] : i \in DOMAIN queue}

(* Every acceptance is sent to the CRM once or lost, never twice: full     *)
(* queue, failed posts and restarts included.                              *)
Promise == INSTANCE WebhookPromise
             WITH Tickets <- Tickets, pending <- Pending \ {None},
                  received <- received
KeepsWebhookPromise == Promise!Spec

(* A failed post does not stop the worker: nothing accepted stays queued   *)
(* for ever.                                                               *)
EventuallySettled ==
  \A n \in Tickets : n \in Pending ~> n \notin Pending
=============================================================================
