------------------------ MODULE RecordingSpoolProofs ------------------------
(***************************************************************************)
(* Machine-checked proofs about RecordingSpool, for any number of calls,   *)
(* any set of upload goroutines, any LIMIT and any failure budget.         *)
(***************************************************************************)
EXTENDS RecordingSpool, TLAPS

SpoolInv == TypeOK /\ UploadInv

(* A goroutine that works has a call. *)
LEMMA WorkingCall ==
  ASSUME TypeOK, NEW w \in Workers, stage[w] # "idle"
  PROVE  job[w] \in Calls
BY SpoolAssumption DEF TypeOK

(* The failure budget is kept by every step that may fail. *)
LEMMA BudgetKept ==
  ASSUME TypeOK, NEW ok \in BOOLEAN, Fails(ok)
  PROVE  failures' \in 0 .. MaxFailures
BY SpoolAssumption DEF TypeOK, Fails

(* QueueUpload gives an idle goroutine the call, or changes no goroutine. *)
LEMMA QueueUploadEffect ==
  ASSUME TypeOK, NEW c \in Calls, NEW dbUp \in BOOLEAN,
         NEW inserted \in [Calls -> Statuses], QueueUpload(c, inserted, dbUp)
  PROVE  /\ job' \in [Workers -> Calls \cup {NoCall}]
         /\ stage' \in [Workers -> Stages]
         /\ status' \in [Calls -> Statuses]
         /\ \A w \in Workers : \/ stage'[w] = stage[w] /\ job'[w] = job[w]
                               \/ stage'[w] = "stat" /\ job'[w] = c
         /\ \A d \in Calls : status'[d] = "uploaded" => inserted[d] = "uploaded"
<1>1. CASE dbUp
  <2>1. status' = [inserted EXCEPT ![c] = "pending"]
    BY <1>1 DEF QueueUpload
  <2>2. PICK v \in Workers : /\ job' = [job EXCEPT ![v] = c]
                             /\ stage' = [stage EXCEPT ![v] = "stat"]
    BY <1>1 DEF QueueUpload, Spawn
  <2> QED
    BY <2>1, <2>2 DEF TypeOK, Stages, Statuses
<1>2. CASE ~dbUp
  BY <1>2 DEF QueueUpload, TypeOK, uploads
<1> QED
  BY <1>1, <1>2

(* Both halves of the invariant hold initially. *)
LEMMA InitSpoolInv == Init => SpoolInv
BY SpoolAssumption
DEF Init, SpoolInv, TypeOK, UploadInv, Statuses, Stages, Calls

(* A recording that FreeSWITCH has just written is a new one. *)
LEMMA EndCallStep ==
  ASSUME SpoolInv, NEW c \in Calls, EndCall(c)
  PROVE  SpoolInv'
<1>1. TypeOK'
  BY SpoolAssumption DEF EndCall, SpoolInv, TypeOK, Calls, bucket, uploads
<1>2. UploadInv'
  BY SpoolAssumption DEF EndCall, SpoolInv, TypeOK, UploadInv, Calls, bucket, uploads
<1> QED
  BY <1>1, <1>2 DEF SpoolInv

(* Inserting the row and queueing the upload keep the invariant. *)
LEMMA PersistStep ==
  ASSUME SpoolInv, NEW c \in Calls, Persist(c)
  PROVE  SpoolInv'
<1> USE DEF SpoolInv
<1>1. UNCHANGED <<running, ended, spooled, stored, announced, batch>> /\ events' \subseteq events
  BY DEF Persist, bucket
<1>2. CASE UNCHANGED <<status, uploads>> /\ Fails(FALSE)
  <2>1. failures' \in 0 .. MaxFailures
    BY <1>2, BudgetKept
  <2> QED
    BY <1>1, <1>2, <2>1 DEF TypeOK, UploadInv, uploads
<1>3. ASSUME NEW dbUp \in BOOLEAN, Fails(dbUp),
             QueueUpload(c, [status EXCEPT ![c] = "local"], dbUp)
      PROVE  SpoolInv'
  <2>1. failures' \in 0 .. MaxFailures
    BY <1>3, BudgetKept
  <2>2. PICK inserted : inserted = [status EXCEPT ![c] = "local"]
    OBVIOUS
  <2>3. /\ inserted \in [Calls -> Statuses]
        /\ \A d \in Calls : inserted[d] = "uploaded" => status[d] = "uploaded"
    BY <2>2 DEF TypeOK, Statuses
  <2>4. QueueUpload(c, inserted, dbUp)
    BY <1>3, <2>2
  <2>5. /\ job' \in [Workers -> Calls \cup {NoCall}]
        /\ stage' \in [Workers -> Stages]
        /\ status' \in [Calls -> Statuses]
        /\ \A w \in Workers : \/ stage'[w] = stage[w] /\ job'[w] = job[w]
                              \/ stage'[w] = "stat" /\ job'[w] = c
        /\ \A d \in Calls : status'[d] = "uploaded" => status[d] = "uploaded"
    BY <2>3, <2>4, QueueUploadEffect
  <2>6. TypeOK'
    BY <1>1, <2>1, <2>5, SpoolAssumption DEF TypeOK
  <2>7. UploadInv'
    BY <1>1, <2>5 DEF TypeOK, UploadInv
  <2> QED
    BY <2>6, <2>7
<1> QED
  BY <1>2, <1>3 DEF Persist

(* Queueing a row of the batch again keeps the invariant, stale or not. *)
LEMMA RequeueStep ==
  ASSUME SpoolInv, NEW c \in Calls, Requeue(c)
  PROVE  SpoolInv'
<1> USE DEF SpoolInv
<1>1. /\ UNCHANGED <<running, ended, spooled, events, stored, announced>>
      /\ batch' \subseteq batch
  BY DEF Requeue, bucket
<1>2. PICK dbUp \in BOOLEAN : Fails(dbUp) /\ QueueUpload(c, status, dbUp)
  BY DEF Requeue
<1>3. failures' \in 0 .. MaxFailures
  BY <1>2, BudgetKept
<1>4. status \in [Calls -> Statuses]
  BY DEF TypeOK
<1>5. TypeOK'
  BY <1>1, <1>2, <1>3, <1>4, QueueUploadEffect, SpoolAssumption DEF TypeOK
<1>6. UploadInv'
  BY <1>1, <1>2, <1>4, QueueUploadEffect DEF TypeOK, UploadInv
<1> QED
  BY <1>5, <1>6

(* A step of an upload goroutine. *)
LEMMA UploadStep ==
  ASSUME SpoolInv, NEW w \in Workers, Upload(w)
  PROVE  SpoolInv'
<1> USE SpoolAssumption DEF SpoolInv, TypeOK, UploadInv, At, Goto, Done, Stages,
                            Statuses, bucket, uploads
<1>0. stage[w] # "idle" /\ job[w] \in Calls
  BY WorkingCall DEF Upload, Stat, Put, MarkUploaded, Announce, Remove, MarkFailure
<1>1. failures' \in 0 .. MaxFailures
  BY BudgetKept
  DEF Upload, Stat, Put, MarkUploaded, Announce, Remove, MarkFailure
<1>2. CASE Stat(w)
  BY <1>0, <1>1, <1>2 DEF Stat
<1>3. CASE Put(w)
  <2>1. /\ UNCHANGED <<running, ended, spooled, events, status, announced, batch, job>>
        /\ \/ stored' = stored \/ (stored' = stored \cup {job[w]} /\ job[w] \in spooled)
        /\ \/ stage' = [stage EXCEPT ![w] = "mark"] /\ job[w] \in stored'
           \/ stage' = [stage EXCEPT ![w] = "fail"]
    BY <1>3 DEF Put
  <2>2. \A v \in Workers : (v # w /\ stage'[v] = stage[v])
                           \/ (v = w /\ stage'[v] \in {"mark", "fail"}
                                      /\ (stage'[v] = "mark" => job[v] \in stored'))
    BY <2>1
  <2>3. TypeOK'
    BY <1>0, <1>1, <2>1, <2>2
  <2>4. UploadInv'
    BY <1>0, <2>1, <2>2
  <2> QED
    BY <2>3, <2>4
<1>4. CASE MarkUploaded(w)
  <2>0. UNCHANGED <<running, ended, spooled, events, stored, announced, batch>>
    BY <1>4 DEF MarkUploaded
  <2>1. CASE /\ status' = [status EXCEPT ![job[w]] = "uploaded"]
             /\ stage' = [stage EXCEPT ![w] = "announce"] /\ job' = job
             /\ job[w] \in stored
    <3>1. TypeOK'
      BY <1>0, <1>1, <2>0, <2>1
    <3>2. UploadInv'
      BY <1>0, <2>0, <2>1
    <3> QED
      BY <3>1, <3>2
  <2>2. CASE Done(w) /\ status' = status
    BY <1>0, <1>1, <2>0, <2>2
  <2> QED
    BY <1>4, <2>1, <2>2 DEF MarkUploaded
<1>5. CASE Announce(w)
  BY <1>0, <1>1, <1>5 DEF Announce
<1>6. CASE Remove(w)
  BY <1>0, <1>1, <1>6 DEF Remove
<1>7. CASE MarkFailure(w)
  BY <1>0, <1>1, <1>7 DEF MarkFailure
<1> QED
  BY <1>2, <1>3, <1>4, <1>5, <1>6, <1>7 DEF Upload

(* The invariant is inductive. *)
LEMMA SpoolInvStep == SpoolInv /\ [Next]_vars => SpoolInv'
<1> SUFFICES ASSUME SpoolInv, [Next]_vars
             PROVE  SpoolInv'
  OBVIOUS
<1>1. ASSUME NEW c \in Calls, EndCall(c) \/ Persist(c) \/ Requeue(c)
      PROVE  SpoolInv'
  BY <1>1, EndCallStep, PersistStep, RequeueStep
<1>2. CASE ReadSpool
  <2>1. batch' \subseteq Calls
    BY <1>2 DEF ReadSpool, Oldest, Retryable
  <2> QED
    BY <1>2, <2>1 DEF ReadSpool, SpoolInv, TypeOK, UploadInv, bucket, uploads
<1>3. ASSUME NEW w \in Workers, Upload(w)
      PROVE  SpoolInv'
  BY <1>3, UploadStep
<1>4. CASE Crash
  <2>1. failures' \in 0 .. MaxFailures
    BY <1>4, BudgetKept DEF Crash, SpoolInv
  <2> QED
    BY <1>4, <2>1 DEF Crash, SpoolInv, TypeOK, UploadInv, bucket, Stages
<1>5. CASE Restart \/ UNCHANGED vars
  BY <1>5 DEF Restart, vars, SpoolInv, TypeOK, UploadInv, bucket, uploads
<1> QED
  BY <1>1, <1>2, <1>3, <1>4, <1>5 DEF Next

(* The invariant holds in every reachable state. *)
THEOREM SpoolCorrect == Spec => []SpoolInv
BY InitSpoolInv, SpoolInvStep, PTL DEF Spec

(* Every variable stays in its range, and a goroutine has a call exactly   *)
(* while it works.                                                         *)
THEOREM SpoolTypeCorrect == Spec => []TypeOK
<1>1. SpoolInv => TypeOK
  BY DEF SpoolInv
<1> QED
  BY <1>1, SpoolCorrect, PTL

-----------------------------------------------------------------------------
(* Every step of the upload pipeline is a step of DurableRecording, or     *)
(* changes no copy of a recording.                                         *)
LEMMA DurableStep ==
  SpoolInv /\ [Next]_vars => [Durable!Next]_Durable!dvars
<1> SUFFICES ASSUME SpoolInv, [Next]_vars
             PROVE  Durable!Next \/ UNCHANGED <<spooled, stored, announced>>
  BY DEF Durable!dvars
<1> USE DEF SpoolInv
<1>1. ASSUME NEW c \in Calls, EndCall(c)
      PROVE  Durable!Record(c)
  BY <1>1, SpoolAssumption DEF EndCall, Durable!Record, TypeOK, UploadInv, Calls, bucket
<1>2. ASSUME NEW c \in Calls, Persist(c) \/ Requeue(c)
      PROVE  UNCHANGED <<spooled, stored, announced>>
  BY <1>2 DEF Persist, Requeue, bucket
<1>3. ReadSpool \/ Crash \/ Restart \/ UNCHANGED vars =>
        UNCHANGED <<spooled, stored, announced>>
  BY DEF ReadSpool, Crash, Restart, vars, bucket
<1>4. ASSUME NEW w \in Workers, Upload(w)
      PROVE  Durable!Next \/ UNCHANGED <<spooled, stored, announced>>
  <2>1. job[w] \in Calls
    BY <1>4, WorkingCall
    DEF Upload, Stat, Put, MarkUploaded, Announce, Remove, MarkFailure, At
  <2>2. CASE Stat(w) \/ MarkUploaded(w) \/ MarkFailure(w)
    BY <2>2 DEF Stat, MarkUploaded, MarkFailure, bucket
  <2>3. CASE Put(w)
    <3>1. Durable!Store(job[w]) \/ UNCHANGED <<spooled, stored, announced>>
      BY <2>3 DEF Put, Durable!Store
    <3> QED
      BY <2>1, <3>1 DEF Durable!Next
  <2>4. CASE Announce(w)
    <3>1. Durable!Announce(job[w])
      BY <2>4 DEF Announce, Durable!Announce, At, UploadInv
    <3> QED
      BY <2>1, <3>1 DEF Durable!Next
  <2>5. CASE Remove(w)
    <3>1. Durable!Discard(job[w]) \/ UNCHANGED <<spooled, stored, announced>>
      BY <2>5 DEF Remove, Durable!Discard, At, UploadInv, bucket
    <3> QED
      BY <2>1, <3>1 DEF Durable!Next
  <2> QED
    BY <1>4, <2>2, <2>3, <2>4, <2>5 DEF Upload
<1> QED
  BY <1>1, <1>2, <1>3, <1>4 DEF Next, Durable!Next

(* Through crashes, retries and failures the upload pipeline implements    *)
(* DurableRecording: a recording always has a copy, its file is given up   *)
(* only when it is stored and announced, and only stored recordings are    *)
(* announced.                                                              *)
THEOREM ImplementsDurable == Spec => RecordingsAreDurable
<1>1. Init => Durable!Init
  BY DEF Init, Durable!Init
<1>2. SpoolInv /\ [Next]_vars => [Durable!Next]_Durable!dvars
  BY DurableStep
<1> QED
  BY <1>1, <1>2, SpoolCorrect, PTL DEF Spec, RecordingsAreDurable, Durable!Spec
=============================================================================
