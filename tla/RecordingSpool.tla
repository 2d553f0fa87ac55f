--------------------------- MODULE RecordingSpool ---------------------------
(***************************************************************************)
(* The way of a call recording from FreeSWITCH's spool directory to object *)
(* storage: cdrwriter.Persist inserts the CDR row and queues an upload,    *)
(* upload goroutines copy the file, mark the row and remove the file, and  *)
(* a ten-minute ticker queues every row that is not 'uploaded' again.      *)
(* CustomPBX may crash between any two steps; the database and object      *)
(* storage may fail.  Object storage is configured (recordingstore.Enabled)*)
(* and every call modelled here has a record_path.                         *)
(***************************************************************************)
EXTENDS Integers, FiniteSets

CONSTANTS
  N,            \* the calls are 1 .. N, in the order of their end_stamp
  BatchSize,    \* the LIMIT of retrySpool's query
  Workers,      \* upload goroutines that can run at once (bound)
  NoCall,
  MaxFailures   \* bound on the failures of a behaviour

Calls == 1 .. N

ASSUME SpoolAssumption ==
  /\ N \in Nat /\ BatchSize \in Nat \ {0}
  /\ NoCall \notin Calls
  /\ MaxFailures \in Nat

VARIABLES
  running,   \* is CustomPBX up?
  ended,     \* how many calls have ended
  spooled,   \* calls whose file is in the spool directory
  events,    \* destroy events received and not yet handled
  status,    \* cdr.recording_status, or "norow"
  stored,    \* calls whose object is in the bucket
  announced, \* calls with a call.recording_ready event
  batch,     \* rows retrySpool has read and not yet queued
  job,       \* the call an upload goroutine works for
  stage,     \* how far it is
  failures   \* bound: MaxFailures

vars == <<running, ended, spooled, events, status, stored, announced, batch,
          job, stage, failures>>

uploads == <<job, stage>>
bucket  == <<stored, announced>>

Statuses == {"norow", "local", "pending", "uploaded", "failed"}
Stages   == {"idle", "stat", "put", "mark", "announce", "remove", "fail"}

(* A step that fails costs one of the failures of the behaviour. *)
Fails(ok) == IF ok THEN failures' = failures
                   ELSE failures < MaxFailures /\ failures' = failures + 1

(***************************************************************************)
(* FreeSWITCH ends a call: it closes the file and emits the destroy event, *)
(* which is lost when CustomPBX is not there.                              *)
(***************************************************************************)
EndCall(c) ==
  /\ c = ended + 1
  /\ ended' = c
  /\ spooled' = spooled \cup {c}
  /\ events' = IF running THEN events \cup {c} ELSE events
  /\ UNCHANGED <<running, status, bucket, batch, uploads, failures>>

(* go upload(callUUID, localPath) *)
Spawn(c) ==
  \E w \in Workers :
    /\ stage[w] = "idle"
    /\ job' = [job EXCEPT ![w] = c]
    /\ stage' = [stage EXCEPT ![w] = "stat"]

(* QueueUpload: mark the row pending and start an upload, or do nothing. *)
QueueUpload(c, inserted, dbUp) ==
  IF dbUp
  THEN status' = [inserted EXCEPT ![c] = "pending"] /\ Spawn(c)
  ELSE status' = inserted /\ UNCHANGED uploads

(* Persist: the row is inserted (with status 'local') and the upload       *)
(* queued; a failed INSERT is logged and the event is gone.                *)
Persist(c) ==
  /\ running
  /\ c \in events
  /\ events' = events \ {c}
  /\ UNCHANGED <<running, ended, spooled, bucket, batch>>
  /\ \/ UNCHANGED <<status, uploads>> /\ Fails(FALSE)
     \/ \E dbUp \in BOOLEAN :
          /\ Fails(dbUp)
          /\ QueueUpload(c, [status EXCEPT ![c] = "local"], dbUp)

(***************************************************************************)
(* retrySpool                                                              *)
(***************************************************************************)
(* Mutant: rows left pending by a crash are not read again. *)
FailedRows == {c \in Calls : status[c] = "failed"}
Retryable == {c \in Calls : status[c] \in {"local", "pending", "failed"}}

(* ORDER BY end_stamp ASC LIMIT BatchSize *)
Oldest(S) == {c \in S : Cardinality({d \in S : d < c}) < BatchSize}

ReadSpool ==
  /\ running
  /\ batch = {}
  /\ batch' = Oldest(Retryable)
  /\ UNCHANGED <<running, ended, spooled, events, status, bucket, uploads, failures>>

Requeue(c) ==
  /\ running
  /\ c \in batch /\ \A d \in batch : c <= d
  /\ batch' = batch \ {c}
  /\ \E dbUp \in BOOLEAN : Fails(dbUp) /\ QueueUpload(c, status, dbUp)
  /\ UNCHANGED <<running, ended, spooled, events, bucket>>

(***************************************************************************)
(* upload, step by step                                                    *)
(***************************************************************************)
At(w, s) == running /\ stage[w] = s
Goto(w, s) == stage' = [stage EXCEPT ![w] = s] /\ UNCHANGED job

(* upload returns.  (Mutant: the goroutine goes on with its call.) *)
KeepCall(w) == stage' = [stage EXCEPT ![w] = "idle"] /\ UNCHANGED job
Done(w) == /\ stage' = [stage EXCEPT ![w] = "idle"]
           /\ job' = [job EXCEPT ![w] = NoCall]

(* os.Stat *)
Stat(w) ==
  /\ At(w, "stat")
  /\ Goto(w, IF job[w] \in spooled THEN "put" ELSE "fail")
  /\ UNCHANGED <<running, ended, spooled, events, status, bucket, batch, failures>>

(* Mutant: the row is marked although the attempts have failed. *)
PutAnyway(w) ==
  /\ At(w, "put")
  /\ stored' \in {stored, stored \cup ({job[w]} \cap spooled)}
  /\ Goto(w, "mark")
  /\ UNCHANGED <<running, ended, spooled, events, status, announced, batch, failures>>

(* Up to five FPutObject attempts.  Without the file all fail; with it, all *)
(* fail only if storage does, and one reported as failed may have stored.  *)
Put(w) ==
  /\ At(w, "put")
  /\ \/ /\ job[w] \in spooled
        /\ stored' = stored \cup {job[w]}
        /\ Goto(w, "mark") /\ Fails(TRUE)
     \/ /\ job[w] \in spooled
        /\ stored' \in {stored, stored \cup {job[w]}}
        /\ Goto(w, "fail") /\ Fails(FALSE)
     \/ /\ job[w] \notin spooled
        /\ Goto(w, "fail") /\ Fails(TRUE) /\ UNCHANGED stored
  /\ UNCHANGED <<running, ended, spooled, events, status, announced, batch>>

(* Mutant: a failed UPDATE does not end the upload. *)
MarkAndRemove(w) ==
  /\ At(w, "mark")
  /\ \/ status' = [status EXCEPT ![job[w]] = "uploaded"] /\ Goto(w, "announce") /\ Fails(TRUE)
     \/ Goto(w, "remove") /\ Fails(FALSE) /\ UNCHANGED status
  /\ UNCHANGED <<running, ended, spooled, events, bucket, batch>>

(* markUploaded: update the row, and if that worked publish the event. *)
MarkUploaded(w) ==
  /\ At(w, "mark")
  /\ \/ status' = [status EXCEPT ![job[w]] = "uploaded"] /\ Goto(w, "announce") /\ Fails(TRUE)
     \/ Done(w) /\ Fails(FALSE) /\ UNCHANGED status
  /\ UNCHANGED <<running, ended, spooled, events, bucket, batch>>

Announce(w) ==
  /\ At(w, "announce")
  /\ announced' = announced \cup {job[w]}
  /\ Goto(w, "remove")
  /\ UNCHANGED <<running, ended, spooled, events, status, stored, batch, failures>>

(* os.Remove; an error is logged and the file stays for ever. *)
Remove(w) ==
  /\ At(w, "remove")
  /\ Done(w)
  /\ \E ok \in BOOLEAN :
       Fails(ok) /\ spooled' = IF ok THEN spooled \ {job[w]} ELSE spooled
  /\ UNCHANGED <<running, ended, events, status, bucket, batch>>

MarkFailure(w) ==
  /\ At(w, "fail")
  /\ Done(w)
  /\ \E dbUp \in BOOLEAN :
       /\ Fails(dbUp)
       /\ status' = IF dbUp THEN [status EXCEPT ![job[w]] = "failed"] ELSE status
  /\ UNCHANGED <<running, ended, spooled, events, bucket, batch>>

(***************************************************************************)
(* CustomPBX stops at any point and is started again.                      *)
(***************************************************************************)
Crash ==
  /\ running
  /\ Fails(FALSE)
  /\ running' = FALSE
  /\ events' = {}
  /\ batch' = {}
  /\ job' = [w \in Workers |-> NoCall]
  /\ stage' = [w \in Workers |-> "idle"]
  /\ UNCHANGED <<ended, spooled, status, bucket>>

Restart ==
  /\ ~running
  /\ running' = TRUE
  /\ UNCHANGED <<ended, spooled, events, status, bucket, batch, uploads, failures>>

-----------------------------------------------------------------------------
Init ==
  /\ running = TRUE
  /\ ended = 0
  /\ spooled = {}
  /\ events = {}
  /\ status = [c \in Calls |-> "norow"]
  /\ stored = {}
  /\ announced = {}
  /\ batch = {}
  /\ job = [w \in Workers |-> NoCall]
  /\ stage = [w \in Workers |-> "idle"]
  /\ failures = 0

Upload(w) == \/ Stat(w) \/ Put(w) \/ MarkUploaded(w) \/ Announce(w)
             \/ Remove(w) \/ MarkFailure(w)

Next ==
  \/ \E c \in Calls : EndCall(c) \/ Persist(c) \/ Requeue(c)
  \/ ReadSpool
  \/ \E w \in Workers : Upload(w)
  \/ Crash \/ Restart

Spec == Init /\ [][Next]_vars

(* Goroutines run, the ticker keeps ticking, and the container is restarted. *)
Fairness ==
  /\ \A c \in Calls : WF_vars(Persist(c)) /\ WF_vars(Requeue(c))
  /\ WF_vars(ReadSpool)
  /\ \A w \in Workers : WF_vars(Upload(w))
  /\ WF_vars(Restart)

FairSpec == Spec /\ Fairness

-----------------------------------------------------------------------------
(* Every variable stays in its range, and a goroutine has a call exactly   *)
(* while it works.                                                         *)
TypeOK ==
  /\ running \in BOOLEAN
  /\ ended \in 0 .. N
  /\ spooled \subseteq Calls
  /\ events \subseteq Calls
  /\ status \in [Calls -> Statuses]
  /\ stored \subseteq Calls
  /\ announced \subseteq Calls
  /\ batch \subseteq Calls
  /\ job \in [Workers -> Calls \cup {NoCall}]
  /\ stage \in [Workers -> Stages]
  /\ failures \in 0 .. MaxFailures
  /\ \A w \in Workers : stage[w] = "idle" <=> job[w] = NoCall

(* Uploads, retries, crashes and failures implement DurableRecording: no   *)
(* recording is ever without a copy, and none is announced that object     *)
(* storage does not have.                                                  *)
Durable == INSTANCE DurableRecording
             WITH Calls <- Calls, spooled <- spooled, stored <- stored,
                  announced <- announced
RecordingsAreDurable == Durable!Spec

(* Why: a goroutine that is about to mark, announce or remove works for a  *)
(* stored call, and what is announced or served has been stored.           *)
UploadInv ==
  /\ announced \subseteq stored
  /\ \A w \in Workers :
       /\ stage[w] \in {"mark", "announce", "remove"} => job[w] \in stored
       /\ stage[w] = "remove" => job[w] \in announced
  /\ \A c \in Calls : status[c] = "uploaded" => c \in stored
  /\ \A c \in Calls : c > ended => c \notin spooled \cup stored

(* A recording that has a CDR row reaches object storage in the end,       *)
(* although uploads fail, updates fail and CustomPBX crashes: the spool    *)
(* retries every row that is not 'uploaded'.                               *)
EventuallyStored == \A c \in Calls : status[c] # "norow" ~> c \in stored

(* And it can be fetched from then on: recordingapi.Serve serves only rows *)
(* whose status is 'uploaded'.  The comment on Start says that the spool   *)
(* reconciliation covers an outage or a restart before the upload.         *)
EventuallyServed ==
  \A c \in Calls : status[c] # "norow" ~> [](status[c] = "uploaded")
=============================================================================
