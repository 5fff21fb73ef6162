------------------------ MODULE IncidentWorkerProofs ------------------------
(***************************************************************************)
(* Proofs about IncidentWorker, in three parts: notifications are          *)
(* delivered as Outbox promises; what a checkpoint claims to have read is  *)
(* what its state was derived from, whatever is appended, lost, put back,  *)
(* not saved or cut short; and what IncidentEngineProofs proves of the     *)
(* engine alone holds of the engine inside the worker.                     *)
(***************************************************************************)
EXTENDS IncidentWorker, IncidentEngineProofs

-----------------------------------------------------------------------------
(* The shape of the records of the state.                                  *)

WorkerFields == {"pc", "now", "files", "next", "changed", "previous", "batch", "queue",
                 "sending", "result"}

FaultKinds == {"crash", "save", "send", "cut", "read", "truncate", "restore"}

(* The steps after which the worker waits in the select of Run.            *)
Rests == DispatchDone \/ \E f \in Files : VisitFails(f)

Shapes ==
    /\ DOMAIN worker = WorkerFields
    /\ faults \in [FaultKinds -> Nat]

(* Where the queue of dispatch is in use, and what it holds: open jobs.    *)
QueueOpen ==
    /\ worker.pc \notin {"dispatch", "mark"} => worker.queue = {}
    /\ worker.pc # "mark" => worker.sending = {}
    /\ worker.queue \cap worker.sending = {}
    /\ \A i, j \in worker.sending : i = j
    /\ (worker.queue \cup worker.sending) \cap (SentIn(delivery) \cup FailedIn(delivery)) = {}

(* A job is closed on the answer of the service, on disk before memory.    *)
ClosedOnAnswer ==
    /\ SentIn(delivery) \subseteq SentIn(disk.delivery)
    /\ FailedIn(delivery) \subseteq FailedIn(disk.delivery)
    /\ SentIn(disk.delivery) \subseteq DOMAIN accepted
    /\ FailedIn(disk.delivery) \subseteq refused
    /\ worker.result = "sent" => worker.sending \subseteq DOMAIN accepted
    /\ worker.result = "permanent" => worker.sending \subseteq refused

OutboxInv == Shapes /\ QueueOpen /\ ClosedOnAnswer

-----------------------------------------------------------------------------
(* What marking a job changes.                                             *)
LEMMA MarkedSets ==
    ASSUME NEW j, NEW d
    PROVE  /\ SentIn(Deliver(j, d)) =
                 (SentIn(delivery) \ {j}) \cup (IF d.sent THEN {j} ELSE {})
           /\ FailedIn(Deliver(j, d)) =
                 (FailedIn(delivery) \ {j}) \cup (IF d.permanent THEN {j} ELSE {})
BY DEF SentIn, FailedIn, Deliver

(* A job that is due is open.                                              *)
LEMMA DueOpen ==
    ASSUME NEW now
    PROVE  DueJobs(now) \cap (SentIn(delivery) \cup FailedIn(delivery)) = {}
BY DEF DueJobs, Delivery, SentIn, FailedIn

(* A rebuild closes no job.                                                *)
LEMMA RebuiltSets ==
    ASSUME NEW old
    PROVE  /\ SentIn(RebuiltDelivery(old)) \subseteq SentIn(delivery)
           /\ FailedIn(RebuiltDelivery(old)) \subseteq FailedIn(delivery)
BY DEF SentIn, FailedIn, RebuiltDelivery

(* What Snapshot saves.                                                    *)
LEMMA SavedDelivery ==
    ASSUME NEW p, NEW d
    PROVE  Snapshot(p, d).delivery = d /\ Snapshot(p, d).progress = p
BY DEF Snapshot

(* A resting worker has nothing to send.                                   *)
LEMMA RestingShape ==
    ASSUME NEW pc
    PROVE  /\ DOMAIN Resting(pc) = WorkerFields
           /\ Resting(pc).pc = pc /\ Resting(pc).queue = {} /\ Resting(pc).sending = {}
           /\ Resting(pc).result = "none"
           /\ Resting(pc).next = NotStarted /\ Resting(pc).changed = NoFile
           /\ Resting(pc).previous = {}
BY DEF Resting, WorkerFields

(* No job has been tried at the start.                                    *)
LEMMA OutboxInit == WorkerInit => OutboxInv
<1>. SUFFICES ASSUME WorkerInit PROVE OutboxInv
  OBVIOUS
<1>1. SentIn(delivery) = {} /\ FailedIn(delivery) = {}
  BY DEF WorkerInit, SentIn, FailedIn, Empty
<1>2. disk.delivery = delivery
  BY SavedDelivery DEF WorkerInit
<1>3. faults \in [FaultKinds -> Nat]
  BY DEF WorkerInit, FaultKinds
<1>4. worker = Resting("start")
  BY DEF WorkerInit
<1>. QED
  BY <1>1, <1>2, <1>3, <1>4, RestingShape
     DEF OutboxInv, Shapes, QueueOpen, ClosedOnAnswer

-----------------------------------------------------------------------------
(* Steps that leave the queue empty or as it is and the outbox alone.      *)
LEMMA OutboxFrame ==
    ASSUME OutboxInv,
           UNCHANGED <<delivery, accepted, refused>>,
           disk' = disk \/ disk'.delivery = delivery,
           faults' \in [FaultKinds -> Nat],
           DOMAIN worker' = WorkerFields,
           \/ /\ worker'.queue = {} /\ worker'.sending = {} /\ worker'.result = "none"
           \/ /\ worker'.queue = {} /\ worker'.sending = {} /\ worker'.result = worker.result
           \/ /\ worker'.queue = worker.queue /\ worker'.sending = worker.sending
              /\ worker'.result = worker.result
              /\ worker'.pc = worker.pc
    PROVE  OutboxInv'
<1>1. SentIn(delivery)' = SentIn(delivery) /\ FailedIn(delivery)' = FailedIn(delivery)
  BY DEF SentIn, FailedIn
<1>2. \/ /\ SentIn(disk.delivery)' = SentIn(disk.delivery)
         /\ FailedIn(disk.delivery)' = FailedIn(disk.delivery)
      \/ SentIn(disk.delivery)' = SentIn(delivery) /\ FailedIn(disk.delivery)' = FailedIn(delivery)
  BY DEF SentIn, FailedIn
<1>. QED
  BY <1>1, <1>2 DEF OutboxInv, Shapes, QueueOpen, ClosedOnAnswer

(* The steps of writers, of time and of the engine do not touch it.        *)
LEMMA OutboxOutside ==
    ASSUME OutboxInv,
           \/ \E m \in Inputs : Receives(m)
           \/ \E m \in ImportInputs, at \in 0 .. MaxTime : Imports(m, at)
           \/ \E writer \in {"syslog", "import"} : Publish(writer)
           \/ \E f \in Files : AppendCut(f) \/ Replaced(f)
           \/ TimePasses
           \/ EngineStep
           \/ UNCHANGED allVars
    PROVE  OutboxInv' /\ UNCHANGED <<delivery, accepted, refused>>
<1>1. UNCHANGED <<worker, delivery, disk, accepted, refused>>
  <2>1. CASE \E m \in Inputs : Receives(m)
    BY <2>1 DEF Receives, Store, deliveryVars
  <2>2. CASE \E m \in ImportInputs, at \in 0 .. MaxTime : Imports(m, at)
    BY <2>2 DEF Imports, Store, deliveryVars
  <2>3. CASE \E writer \in {"syslog", "import"} : Publish(writer)
    BY <2>3 DEF Publish, deliveryVars
  <2>4. CASE \E f \in Files : AppendCut(f) \/ Replaced(f)
    BY <2>4 DEF AppendCut, Replaced, deliveryVars
  <2>5. CASE TimePasses
    BY <2>5 DEF TimePasses, deliveryVars
  <2>6. CASE EngineStep
    BY <2>6 DEF EngineStep, workerVars
  <2>7. CASE UNCHANGED allVars
    BY <2>7 DEF allVars, workerVars
  <2>. QED
    BY <2>1, <2>2, <2>3, <2>4, <2>5, <2>6, <2>7
<1>2. faults' \in [FaultKinds -> Nat]
  <2>1. faults' \in {faults, [faults EXCEPT !.cut = @ + 1],
                    [faults EXCEPT !.truncate = @ + 1], [faults EXCEPT !.restore = @ + 1]}
    BY DEF Receives, Imports, Store, Publish, AppendCut, Replaced, TimePasses, EngineStep,
       workerVars, allVars
  <2>. QED
    BY <2>1 DEF OutboxInv, Shapes, FaultKinds
<1>. QED
  BY <1>1, <1>2, OutboxFrame DEF OutboxInv, Shapes

(* A failing save.                                                         *)
LEMMA FailingSave ==
    ASSUME OutboxInv, SaveFails
    PROVE  faults' \in [FaultKinds -> Nat] /\ disk' = disk
BY DEF SaveFails, OutboxInv, Shapes, FaultKinds

(* The branches of Run start with an empty queue.                          *)
LEMMA OutboxRun ==
    ASSUME OutboxInv, StartUp \/ Woken \/ Periodic \/ EverySecond \/ Rests
    PROVE  OutboxInv' /\ UNCHANGED <<delivery, accepted, refused>>
<1>1. UNCHANGED <<delivery, disk, accepted, refused>>
  BY DEF StartUp, Woken, Periodic, EverySecond, Rests, DispatchDone, VisitFails, deliveryVars
<1>3. faults' \in [FaultKinds -> Nat]
  <2>1. faults' \in {faults, [faults EXCEPT !.read = @ + 1]}
    BY DEF StartUp, Woken, Periodic, EverySecond, Rests, DispatchDone, VisitFails
  <2>. QED
    BY <2>1 DEF OutboxInv, Shapes, FaultKinds
<1>2. /\ DOMAIN worker' = WorkerFields
      /\ worker'.queue = {} /\ worker'.sending = {} /\ worker'.result = "none"
  <2>1. CASE StartReconcile
    BY <2>1 DEF StartReconcile, Resting, WorkerFields
  <2>2. CASE EverySecond
    BY <2>2 DEF EverySecond, Resting, WorkerFields
  <2>3. CASE Rests
    BY <2>3, RestingShape DEF Rests, DispatchDone, VisitFails
  <2>. QED
    BY <2>1, <2>2, <2>3 DEF StartUp, Woken, Periodic
<1>. QED
  BY <1>1, <1>2, <1>3, OutboxFrame DEF OutboxInv, Shapes

(* Reading the files and applying the records leave it empty.              *)
LEMMA OutboxReconcile ==
    ASSUME OutboxInv,
           \/ \E f \in Files : VisitFile(f) \/ PartitionChanged(f)
           \/ AllVisited
           \/ BeginRebuild
           \/ \E p \in worker.batch : ApplyRecord(p)
           \/ Checkpoint
           \/ TickChanges
    PROVE  OutboxInv' /\ UNCHANGED <<delivery, accepted, refused>>
<1>1. UNCHANGED <<delivery, accepted, refused>>
  BY DEF VisitFile, PartitionChanged, AllVisited, BeginRebuild, ApplyRecord, Checkpoint,
         TickChanges, deliveryVars
<1>2. (disk' = disk \/ disk'.delivery = delivery) /\ faults' \in [FaultKinds -> Nat]
  <2>1. CASE Checkpoint
    BY <2>1, FailingSave, SavedDelivery DEF Checkpoint, OutboxInv, Shapes
  <2>2. CASE ~Checkpoint
    BY <2>2 DEF VisitFile, PartitionChanged, AllVisited, BeginRebuild, ApplyRecord,
                TickChanges, OutboxInv, Shapes
  <2>. QED
    BY <2>1, <2>2
<1>3. worker.queue = {} /\ worker.sending = {} /\ DOMAIN worker = WorkerFields
  BY DEF VisitFile, PartitionChanged, AllVisited, BeginRebuild, ApplyRecord, Checkpoint,
         TickChanges, Visiting, Applied, OutboxInv, QueueOpen, Shapes
<1>. DEFINE Quiet == /\ DOMAIN worker' = WorkerFields
                     /\ worker'.queue = {} /\ worker'.sending = {}
                     /\ worker'.result \in {worker.result, "none"}
<1>4. Quiet
  <2>1. ASSUME NEW f \in Files, VisitFile(f) PROVE Quiet
    BY <1>3, <2>1 DEF VisitFile, WorkerFields
  <2>2. ASSUME NEW f \in Files, PartitionChanged(f) PROVE Quiet
    BY <1>3, <2>2 DEF PartitionChanged, WorkerFields
  <2>3. CASE AllVisited
    BY <1>3, <2>3 DEF AllVisited, WorkerFields
  <2>4. CASE BeginRebuild
    BY <1>3, <2>4 DEF BeginRebuild, WorkerFields
  <2>5. ASSUME NEW p \in worker.batch, ApplyRecord(p) PROVE Quiet
    BY <1>3, <2>5 DEF ApplyRecord, WorkerFields
  <2>6. CASE Checkpoint
    <3>1. worker' = [worker EXCEPT !.pc = "tick"] \/ worker' = Resting("idle")
      BY <2>6 DEF Checkpoint
    <3>. QED
      BY <1>3, <3>1, RestingShape DEF WorkerFields
  <2>7. CASE TickChanges
    BY <1>3, <2>7 DEF TickChanges, WorkerFields
  <2>. QED
    BY <2>1, <2>2, <2>3, <2>4, <2>5, <2>6, <2>7
<1>. QED
  BY <1>1, <1>2, <1>4, OutboxFrame

(* dispatch takes the jobs that are due, which are open.                   *)
LEMMA OutboxTick ==
    ASSUME OutboxInv, TickSaved \/ TickChangesNothing
    PROVE  OutboxInv' /\ UNCHANGED <<delivery, accepted, refused>>
<1>1. UNCHANGED <<delivery, accepted, refused>>
  BY DEF TickSaved, TickChangesNothing, deliveryVars
<1>2. (disk' = disk \/ disk'.delivery = delivery) /\ faults' \in [FaultKinds -> Nat]
  BY FailingSave, SavedDelivery DEF TickSaved, TickChangesNothing, OutboxInv, Shapes
<1>3. CASE worker' = Resting("idle")
  BY <1>1, <1>2, <1>3, RestingShape, OutboxFrame
<1>4. CASE worker' = StartDispatch(DueJobs(worker.now))
  <2>1. DOMAIN worker = WorkerFields /\ worker.sending = {}
    BY DEF TickSaved, TickChangesNothing, OutboxInv, QueueOpen, Shapes
  <2>2. /\ DOMAIN worker' = WorkerFields /\ worker'.pc = "dispatch"
        /\ worker'.queue = DueJobs(worker.now) /\ worker'.sending = {}
    BY <1>4, <2>1 DEF StartDispatch, WorkerFields
  <2>3. SentIn(delivery)' = SentIn(delivery) /\ FailedIn(delivery)' = FailedIn(delivery)
    BY <1>1 DEF SentIn, FailedIn
  <2>4. QueueOpen'
    BY <2>2, <2>3, DueOpen DEF QueueOpen
  <2>5. \/ disk' = disk
        \/ /\ SentIn(disk.delivery)' = SentIn(delivery)
           /\ FailedIn(disk.delivery)' = FailedIn(delivery)
    BY <1>2 DEF SentIn, FailedIn
  <2>6. ClosedOnAnswer'
    BY <1>1, <2>2, <2>3, <2>5 DEF OutboxInv, ClosedOnAnswer
  <2>. QED
    BY <1>1, <1>2, <2>2, <2>4, <2>6 DEF OutboxInv, Shapes
<1>. QED
  BY <1>3, <1>4 DEF TickSaved, TickChangesNothing

(* The worker after a send.                                                *)
LEMMA SentShape ==
    ASSUME DOMAIN worker = WorkerFields, NEW j, NEW result, worker' = Sent(j, result)
    PROVE  /\ DOMAIN worker' = WorkerFields
           /\ worker'.pc = "mark" /\ worker'.queue = worker.queue \ {j}
           /\ worker'.sending = {j} /\ worker'.result = result
BY DEF Sent, WorkerFields

(* The domain of the counts.                                               *)
LEMMA CountedDomain ==
    ASSUME NEW j
    PROVE  DOMAIN Counted(j) = DOMAIN accepted \cup {j}
BY DEF Counted

(* A job that is sent or given up is open, and its answer is on record.    *)
LEMMA OutboxSends ==
    ASSUME OutboxInv, NEW j \in worker.queue, Sends(j) \/ GivesUp(j)
    PROVE  /\ OutboxInv'
           /\ UNCHANGED delivery
           /\ j \notin SentIn(delivery) \cup FailedIn(delivery)
           /\ \/ accepted' = Counted(j) /\ refused' = refused
              \/ accepted' = accepted /\ refused' = refused \cup {j}
              \/ UNCHANGED <<accepted, refused>>
<1>1. UNCHANGED <<delivery, disk>>
  BY DEF Sends, GivesUp
<1>2. j \notin SentIn(delivery) \cup FailedIn(delivery)
  BY DEF OutboxInv, QueueOpen
<1>3. DOMAIN worker = WorkerFields
  BY DEF OutboxInv, Shapes
<1>4. \/ /\ worker' = Sent(j, "sent") /\ accepted' = Counted(j) /\ refused' = refused
      \/ /\ worker' = Sent(j, "retry") /\ accepted' \in {accepted, Counted(j)}
         /\ refused' = refused
      \/ /\ worker' = Sent(j, "permanent") /\ accepted' = accepted
         /\ refused' = refused \cup {j}
  BY DEF Sends, SendSucceeds, SendFails, GivesUp
<1>5. PICK result \in {"sent", "retry", "permanent"} :
         /\ worker' = Sent(j, result)
         /\ accepted' \in {accepted, Counted(j)}
         /\ refused' \in {refused, refused \cup {j}}
         /\ result = "sent" => accepted' = Counted(j)
         /\ result = "permanent" => refused' = refused \cup {j}
  BY <1>4
<1>6. /\ DOMAIN worker' = WorkerFields
      /\ worker'.pc = "mark" /\ worker'.queue = worker.queue \ {j}
      /\ worker'.sending = {j} /\ worker'.result = result
  BY <1>3, <1>5, SentShape
<1>7. faults' \in [FaultKinds -> Nat]
  <2>1. faults' \in {faults, [faults EXCEPT !.send = @ + 1]}
    BY DEF Sends, SendSucceeds, SendFails, GivesUp
  <2>. QED
    BY <2>1 DEF OutboxInv, Shapes, FaultKinds
<1>8. /\ DOMAIN accepted \subseteq DOMAIN accepted' /\ refused \subseteq refused'
      /\ result = "sent" => j \in DOMAIN accepted'
      /\ result = "permanent" => j \in refused'
  BY <1>5, CountedDomain
<1>9. /\ SentIn(delivery)' = SentIn(delivery) /\ FailedIn(delivery)' = FailedIn(delivery)
      /\ SentIn(disk.delivery)' = SentIn(disk.delivery)
      /\ FailedIn(disk.delivery)' = FailedIn(disk.delivery)
  BY <1>1 DEF SentIn, FailedIn
<1>10. QueueOpen'
  BY <1>2, <1>6, <1>9 DEF OutboxInv, QueueOpen
<1>11. ClosedOnAnswer'
  BY <1>6, <1>8, <1>9 DEF OutboxInv, ClosedOnAnswer
<1>. QED
  BY <1>1, <1>2, <1>4, <1>6, <1>7, <1>10, <1>11 DEF OutboxInv, Shapes

(* A mark closes the job it is about, or leaves everything open.           *)
LEMMA OutboxMarks ==
    ASSUME OutboxInv, NEW j \in worker.sending, MarkJob(j)
    PROVE  /\ OutboxInv'
           /\ UNCHANGED <<accepted, refused>>
           /\ SentIn(delivery) \subseteq SentIn(delivery)'
           /\ FailedIn(delivery) \subseteq FailedIn(delivery)'
<1>1. UNCHANGED <<accepted, refused>>
  BY DEF MarkJob, deliveryVars
<1>2. j \notin SentIn(delivery) \cup FailedIn(delivery) /\ j \notin worker.queue
  BY DEF OutboxInv, QueueOpen
<1>3. CASE SaveFails /\ worker' = Resting("idle") /\ UNCHANGED delivery
  <2>1. OutboxInv'
    BY <1>1, <1>3, FailingSave, RestingShape, OutboxFrame
  <2>. QED
    BY <1>1, <1>3, <2>1 DEF SentIn, FailedIn
<1>4. ASSUME NEW d \in Marks(j),
             delivery' = Deliver(j, d),
             disk' = Snapshot(progress, delivery'),
             worker' = [worker EXCEPT !.pc = "dispatch", !.sending = {}, !.result = "none"],
             UNCHANGED faults
      PROVE  /\ OutboxInv'
             /\ SentIn(delivery) \subseteq SentIn(delivery)'
             /\ FailedIn(delivery) \subseteq FailedIn(delivery)'
  <2>1. /\ DOMAIN worker' = WorkerFields
        /\ worker'.pc = "dispatch" /\ worker'.queue = worker.queue
        /\ worker'.sending = {} /\ worker'.result = "none"
    BY <1>4 DEF OutboxInv, Shapes, WorkerFields
  <2>2. /\ d.sent = (worker.result = "sent")
        /\ d.permanent = (worker.result = "permanent")
    BY <1>4 DEF Marks
  <2>3. /\ SentIn(delivery)' = SentIn(delivery) \cup (IF worker.result = "sent" THEN {j} ELSE {})
        /\ FailedIn(delivery)' =
              FailedIn(delivery) \cup (IF worker.result = "permanent" THEN {j} ELSE {})
    <3>1. /\ SentIn(delivery)' = (SentIn(delivery) \ {j}) \cup (IF d.sent THEN {j} ELSE {})
          /\ FailedIn(delivery)' = (FailedIn(delivery) \ {j}) \cup (IF d.permanent THEN {j} ELSE {})
      BY <1>4, MarkedSets DEF SentIn, FailedIn
    <3>. QED
      BY <1>2, <2>2, <3>1
  <2>4. disk'.delivery = delivery'
    BY <1>4, SavedDelivery
  <2>5. /\ SentIn(disk.delivery)' = SentIn(delivery)'
        /\ FailedIn(disk.delivery)' = FailedIn(delivery)'
    BY <2>4 DEF SentIn, FailedIn
  <2>6. QueueOpen'
    BY <1>2, <2>1, <2>3 DEF OutboxInv, QueueOpen
  <2>7. ClosedOnAnswer'
    BY <1>1, <2>1, <2>3, <2>5 DEF OutboxInv, ClosedOnAnswer
  <2>. QED
    BY <1>4, <2>1, <2>3, <2>6, <2>7 DEF OutboxInv, Shapes
<1>. QED
  BY <1>1, <1>3, <1>4 DEF MarkJob

(* A rebuild closes nothing.                                               *)
LEMMA OutboxRebuild ==
    ASSUME OutboxInv, Rebuild
    PROVE  /\ OutboxInv'
           /\ UNCHANGED <<accepted, refused>>
           /\ SentIn(delivery)' \subseteq SentIn(delivery)
           /\ FailedIn(delivery)' \subseteq FailedIn(delivery)
<1>1. PICK old \in worker.previous :
         /\ Applied
         /\ delivery' = RebuiltDelivery(old)
         /\ UNCHANGED <<accepted, refused>>
         /\ \/ /\ disk' = [trackers |-> trackers', incidents |-> incidents', jobs |-> jobs',
                            progress |-> Progress(worker.next), delivery |-> delivery',
                            observed |-> observed]
               /\ worker' = [worker EXCEPT !.pc = "tick", !.changed = NoFile, !.previous = {}]
               /\ UNCHANGED faults
            \/ SaveFails /\ worker' = Resting("idle")
  BY DEF Rebuild, deliveryVars
<1>2. /\ SentIn(delivery)' \subseteq SentIn(delivery)
      /\ FailedIn(delivery)' \subseteq FailedIn(delivery)
  <2>1. /\ SentIn(delivery)' = SentIn(RebuiltDelivery(old))
        /\ FailedIn(delivery)' = FailedIn(RebuiltDelivery(old))
    BY <1>1 DEF SentIn, FailedIn
  <2>. QED
    BY <2>1, RebuiltSets
<1>3. worker.queue = {} /\ worker.sending = {} /\ DOMAIN worker = WorkerFields
  BY <1>1 DEF Applied, OutboxInv, QueueOpen, Shapes
<1>4. /\ DOMAIN worker' = WorkerFields
      /\ worker'.queue = {} /\ worker'.sending = {}
  <2>1. CASE worker' = [worker EXCEPT !.pc = "tick", !.changed = NoFile, !.previous = {}]
    BY <1>3, <2>1 DEF WorkerFields
  <2>2. CASE worker' = Resting("idle")
    BY <2>2, RestingShape
  <2>. QED
    BY <1>1, <2>1, <2>2
<1>5. faults' \in [FaultKinds -> Nat]
  BY <1>1, FailingSave DEF OutboxInv, Shapes
<1>6. disk' = disk \/ disk'.delivery = delivery'
  BY <1>1, FailingSave
<1>7. \/ disk' = disk
      \/ /\ SentIn(disk.delivery)' = SentIn(delivery)'
         /\ FailedIn(disk.delivery)' = FailedIn(delivery)'
  BY <1>6 DEF SentIn, FailedIn
<1>8. ClosedOnAnswer'
  BY <1>1, <1>2, <1>4, <1>7 DEF OutboxInv, ClosedOnAnswer
<1>. QED
  BY <1>1, <1>2, <1>4, <1>5, <1>8 DEF OutboxInv, QueueOpen, Shapes

(* A crash brings back what is on disk, where every closed job is.         *)
LEMMA OutboxCrash ==
    ASSUME OutboxInv, NEW c \in Configs, Crash(c)
    PROVE  /\ OutboxInv'
           /\ UNCHANGED <<accepted, refused>>
           /\ SentIn(delivery) \subseteq SentIn(delivery)'
           /\ FailedIn(delivery) \subseteq FailedIn(delivery)'
<1>1. /\ delivery' = disk.delivery /\ disk' = disk /\ worker' = Resting("start")
      /\ UNCHANGED <<accepted, refused>>
      /\ faults' = [faults EXCEPT !.crash = @ + 1]
  BY DEF Crash, deliveryVars
<1>2. /\ SentIn(delivery)' = SentIn(disk.delivery)
      /\ FailedIn(delivery)' = FailedIn(disk.delivery)
      /\ SentIn(disk.delivery)' = SentIn(disk.delivery)
      /\ FailedIn(disk.delivery)' = FailedIn(disk.delivery)
  BY <1>1 DEF SentIn, FailedIn
<1>3. faults' \in [FaultKinds -> Nat]
  BY <1>1 DEF OutboxInv, Shapes, FaultKinds
<1>. QED
  BY <1>1, <1>2, <1>3, RestingShape DEF OutboxInv, QueueOpen, ClosedOnAnswer, Shapes

-----------------------------------------------------------------------------
(* As long as no file is replaced, files grow only at their ends, and no   *)
(* cursor ever finds its file changed: nothing is rebuilt.                 *)

Stored == [id : Int, input : Inputs \cup ImportInputs, at : Int, source : Int,
           import : BOOLEAN, whole : BOOLEAN]

(* A message in a line is what it was.                                     *)
LEMMA Lined ==
    ASSUME NEW r
    PROVE  /\ r \in Stored => Line(r) \in Stored
           /\ r \in Record =>
                 /\ Line(r) \in Record
                 /\ Line(r).id = r.id /\ Line(r).at = r.at /\ Line(r).import = r.import
<1>1. PICK w \in BOOLEAN : Line(r) = [r EXCEPT !.whole = w]
  BY DEF Line
<1>2. r \in Stored => Line(r) \in Stored
  BY <1>1 DEF Stored
<1>3. ASSUME r \in Record
      PROVE  /\ Line(r) \in Record
             /\ Line(r).id = r.id /\ Line(r).at = r.at /\ Line(r).import = r.import
  BY <1>1, <1>3 DEF Record
<1>. QED
  BY <1>2, <1>3

(* The file of the oldest messages.                                        *)
LEMMA FirstFile == 0 \in Files
<1>1. MaxTime \div DayLength \in Nat
  BY BoundsAssumption, DayAssumption
<1>2. ASSUME NEW n \in Nat PROVE Sources * n \in Nat
  BY <1>2, DayAssumption
<1>3. Sources * (MaxTime \div DayLength) \in Nat
  BY <1>1, <1>2
<1>. QED
  BY <1>3, DayAssumption DEF Files

(* A cursor c has read the beginning of the records s.                     *)
Begins(c, s) ==
    /\ Len(c) \in Nat /\ Len(c) <= Len(s)
    /\ \A n \in 1 .. Len(c) : s[n].id = c[n]

CursorsIntact(c, files) ==
    /\ DOMAIN c = Files
    /\ \A f \in Files : Begins(c[f], files[f])

Unreplaced ==
    /\ clock \in Int
    /\ archive \in [Files -> Seq(Stored)]
    /\ CursorsIntact(worker.next, archive)
    /\ CursorsIntact(progress.cursors, archive)
    /\ CursorsIntact(disk.progress.cursors, archive)
    /\ worker.changed = NoFile
    /\ worker.previous = {}

KeptInv == OutboxInv /\ Unreplaced

(* The IDs of a file.                                                      *)
LEMMA IDsShape ==
    ASSUME archive \in [Files -> Seq(Stored)], NEW f \in Files
    PROVE  /\ Len(archive[f]) \in Nat
           /\ Len(IDs(f)) = Len(archive[f])
           /\ \A n \in 1 .. Len(archive[f]) : IDs(f)[n] = archive[f][n].id
<1>1. archive[f] \in Seq(Stored)
  OBVIOUS
<1>2. Len(archive[f]) \in Nat /\ \A n \in 1 .. Len(archive[f]) : archive[f][n] \in Stored
  BY <1>1
<1>3. \A n \in 1 .. Len(archive[f]) : archive[f][n].id \in Int
  BY <1>2 DEF Stored
<1>4. IDs(f) \in Seq(Int)
  BY <1>2, <1>3 DEF IDs
<1>. QED
  BY <1>2, <1>4 DEF IDs

(* What was read from a file lies at its beginning.                        *)
LEMMA ReadIntact ==
    ASSUME archive \in [Files -> Seq(Stored)], NEW f \in Files
    PROVE  /\ Begins(IDs(f), archive[f])
           /\ Begins(<<>>, archive[f])
           /\ \A c : Begins(c, archive[f]) => Intact(c, f)
<1>1. /\ Len(archive[f]) \in Nat
      /\ Len(IDs(f)) = Len(archive[f])
      /\ \A n \in 1 .. Len(archive[f]) : IDs(f)[n] = archive[f][n].id
  BY IDsShape
<1>2. Begins(IDs(f), archive[f])
  BY <1>1 DEF Begins
<1>3. Begins(<<>>, archive[f])
  BY <1>1 DEF Begins
<1>4. ASSUME NEW c, Begins(c, archive[f])
      PROVE  Intact(c, f)
  <2>1. Len(c) \in Nat /\ Len(c) <= Len(archive[f])
    BY <1>4 DEF Begins
  <2>2. \A n \in 1 .. Len(c) : n \in 1 .. Len(archive[f])
    BY <1>1, <2>1
  <2>3. \A n \in 1 .. Len(c) : archive[f][n].id = c[n]
    BY <1>4 DEF Begins
  <2>4. \A n \in 1 .. Len(c) : IDs(f)[n] = c[n]
    BY <1>1, <2>2, <2>3
  <2>. QED
    BY <2>1, <2>4 DEF Intact
<1>. QED
  BY <1>2, <1>3, <1>4

(* An append leaves what was read in place.                                *)
LEMMA AppendIntact ==
    ASSUME archive \in [Files -> Seq(Stored)], NEW r \in Stored, NEW at,
           archive' = [archive EXCEPT ![at] = Append(@, r)]
    PROVE  /\ archive' \in [Files -> Seq(Stored)]
           /\ \A c : CursorsIntact(c, archive) => CursorsIntact(c, archive')
<1>1. archive' \in [Files -> Seq(Stored)]
  <2>1. CASE at \in Files
    <3>1. archive[at] \in Seq(Stored)
      BY <2>1
    <3>2. Append(archive[at], r) \in Seq(Stored)
      BY <3>1
    <3>. QED
      BY <2>1, <3>2
  <2>2. CASE at \notin Files
    BY <2>2
  <2>. QED
    BY <2>1, <2>2
<1>2. ASSUME NEW f \in Files, NEW c, Begins(c, archive[f])
      PROVE  Begins(c, archive'[f])
  <2>1. archive'[f] = archive[f] \/ archive'[f] = Append(archive[f], r)
    OBVIOUS
  <2>2. archive[f] \in Seq(Stored)
    OBVIOUS
  <2>3. CASE archive'[f] = Append(archive[f], r)
    <3>1. Len(archive'[f]) = Len(archive[f]) + 1 /\ Len(archive[f]) \in Nat
      BY <2>2, <2>3
    <3>2. \A n \in 1 .. Len(archive[f]) : archive'[f][n] = archive[f][n]
      BY <2>2, <2>3
    <3>. QED
      BY <1>2, <3>1, <3>2 DEF Begins
  <2>. QED
    BY <1>2, <2>1, <2>3
<1>. QED
  BY <1>1, <1>2 DEF CursorsIntact

(* No record has been lost at the start.                                  *)
LEMMA UnreplacedInit == WorkerInit => Unreplaced
<1>. SUFFICES ASSUME WorkerInit PROVE Unreplaced
  OBVIOUS
<1>1. archive \in [Files -> Seq(Stored)]
  <2>1. CASE archive = [f \in Files |-> <<>>]
    BY <2>1
  <2>2. ASSUME NEW m \in Inputs,
               archive = [f \in Files |->
                  IF f = 0 THEN <<[id |-> 1, input |-> m, at |-> 0, source |-> 0,
                                   import |-> FALSE, whole |-> TRUE]>> ELSE <<>>]
        PROVE  archive \in [Files -> Seq(Stored)]
    <3>1. [id |-> 1, input |-> m, at |-> 0, source |-> 0, import |-> FALSE, whole |-> TRUE] \in Stored
      BY DEF Stored
    <3>. QED
      BY <2>2, <3>1
  <2>. QED
    BY <2>1, <2>2 DEF WorkerInit
<1>2. CursorsIntact(NotStarted, archive)
  BY <1>1, ReadIntact DEF CursorsIntact, NotStarted
<1>3. worker = Resting("start") /\ progress.cursors = NotStarted /\ disk.progress = progress
  BY SavedDelivery DEF WorkerInit
<1>. QED
  BY <1>1, <1>2, <1>3, RestingShape DEF Unreplaced, WorkerInit, FirstStart

(* Steps that move neither the files nor a cursor.                         *)
LEMMA UnreplacedFrame ==
    ASSUME Unreplaced, UNCHANGED archive, clock' \in Int,
           CursorsIntact(worker'.next, archive), CursorsIntact(progress'.cursors, archive),
           CursorsIntact(disk'.progress.cursors, archive),
           worker'.changed = NoFile, worker'.previous = {}
    PROVE  Unreplaced'
BY DEF Unreplaced

(* Writers append.                                                         *)
LEMMA UnreplacedStore ==
    ASSUME Unreplaced, NEW writer, NEW r \in Stored, Store(writer, r)
    PROVE  Unreplaced'
<1>1. /\ UNCHANGED <<clock, worker, progress, disk>>
      /\ archive' = [archive EXCEPT ![FileOf(r)] = Append(@, r)]
  BY DEF Store
<1>2. /\ archive' \in [Files -> Seq(Stored)]
      /\ \A c : CursorsIntact(c, archive) => CursorsIntact(c, archive')
  BY <1>1, AppendIntact DEF Unreplaced
<1>. QED
  BY <1>1, <1>2 DEF Unreplaced

(* A step that replaces no file leaves all cursors intact.                 *)
LEMMA UnreplacedStep ==
    ASSUME KeptInv, \A f \in Files : ~Replaced(f), WorkerNext \/ UNCHANGED allVars
    PROVE  Unreplaced' /\ ~Rebuild
<1>. USE DEF KeptInv
<1>0. DOMAIN worker = WorkerFields
  BY DEF OutboxInv, Shapes
<1>1. ~Rebuild /\ ~BeginRebuild
  BY DEF Rebuild, BeginRebuild, Unreplaced
<1>. SUFFICES Unreplaced'
  BY <1>1
<1>2. ASSUME NEW f \in Files, Replaced(f) PROVE FALSE
  BY <1>2
<1>3. ASSUME NEW f \in Files, PartitionChanged(f) PROVE FALSE
  <2>1. Begins(worker.next[f], archive[f]) /\ ~Intact(worker.next[f], f)
    BY <1>3 DEF PartitionChanged, Unreplaced, CursorsIntact
  <2>. QED
    BY <2>1, ReadIntact DEF Unreplaced
<1>4. ASSUME NEW m \in Inputs, Receives(m) PROVE Unreplaced'
  <2>1. PICK id, source, r :
           /\ id \in NextID /\ source \in 0 .. Sources - 1
           /\ r = [id |-> id, input |-> m, at |-> clock, source |-> source, import |-> FALSE,
                  whole |-> TRUE]
           /\ Store("syslog", Line(r))
    BY <1>4 DEF Receives
  <2>2. r \in Stored
    BY <2>1, DayAssumption DEF Stored, NextID, MsgIDs, Unreplaced
  <2>. QED
    BY <2>1, <2>2, Lined, UnreplacedStore
<1>5. ASSUME NEW m \in ImportInputs, NEW at \in 0 .. MaxTime, Imports(m, at) PROVE Unreplaced'
  <2>1. PICK id, source, r :
           /\ id \in NextID /\ source \in 0 .. Sources - 1
           /\ r = [id |-> id, input |-> m, at |-> at, source |-> source, import |-> TRUE,
                  whole |-> TRUE]
           /\ Store("import", Line(r))
    BY <1>5 DEF Imports
  <2>2. r \in Stored
    BY <2>1, DayAssumption DEF Stored, NextID, MsgIDs
  <2>. QED
    BY <2>1, <2>2, Lined, UnreplacedStore
<1>6. CASE \/ \E writer \in {"syslog", "import"} : Publish(writer)
           \/ (\E f \in Files : AppendCut(f)) \/ TimePasses \/ EngineStep \/ UNCHANGED allVars
  <2>1. UNCHANGED <<archive, worker, progress, disk>> /\ clock' \in Int
    BY <1>6 DEF Publish, AppendCut, TimePasses, EngineStep, allVars, workerVars, Unreplaced
  <2>. QED
    BY <2>1, UnreplacedFrame DEF Unreplaced
<1>7. CASE StartUp \/ Woken \/ Periodic
  <2>1. UNCHANGED <<archive, progress, disk, clock>> /\ StartReconcile
    BY <1>7 DEF StartUp, Woken, Periodic
  <2>2. worker'.next = progress.cursors /\ worker'.changed = NoFile /\ worker'.previous = {}
    BY <2>1 DEF StartReconcile, Resting
  <2>. QED
    BY <2>1, <2>2, UnreplacedFrame DEF Unreplaced
<1>8. CASE EverySecond \/ Rests
  <2>1. UNCHANGED <<archive, progress, disk, clock>>
    BY <1>8 DEF EverySecond, Rests, DispatchDone, VisitFails
  <2>2. worker'.next = NotStarted /\ worker'.changed = NoFile /\ worker'.previous = {}
    <3>1. CASE EverySecond
      BY <3>1 DEF EverySecond, Resting
    <3>2. CASE Rests
      BY <3>2, RestingShape DEF Rests, DispatchDone, VisitFails
    <3>. QED
      BY <1>8, <3>1, <3>2
  <2>3. CursorsIntact(NotStarted, archive)
    BY ReadIntact DEF CursorsIntact, NotStarted, Unreplaced
  <2>. QED
    BY <2>1, <2>2, <2>3, UnreplacedFrame DEF Unreplaced
<1>9. ASSUME NEW f \in Files, VisitFile(f) PROVE Unreplaced'
  <2>1. UNCHANGED <<archive, progress, disk, clock>>
    BY <1>9 DEF VisitFile
  <2>2. /\ worker'.next = [worker.next EXCEPT ![f] = IDs(f)]
        /\ worker'.changed = worker.changed /\ worker'.previous = worker.previous
    BY <1>0, <1>9 DEF VisitFile, WorkerFields
  <2>3. Begins(IDs(f), archive[f])
    BY ReadIntact DEF Unreplaced
  <2>4. CursorsIntact(worker'.next, archive)
    BY <2>2, <2>3 DEF Unreplaced, CursorsIntact
  <2>. QED
    BY <2>1, <2>2, <2>4, UnreplacedFrame DEF Unreplaced
<1>10. ASSUME \/ AllVisited \/ (\E p \in worker.batch : ApplyRecord(p)) \/ TickChanges
              \/ TickChangesNothing \/ (\E j \in worker.queue : Sends(j) \/ GivesUp(j))
       PROVE  Unreplaced'
  <2>1. UNCHANGED <<archive, progress, disk, clock>>
    BY <1>10 DEF AllVisited, ApplyRecord, TickChanges, TickChangesNothing, Sends,
                 GivesUp
  <2>2. /\ worker'.next = worker.next
        /\ worker'.changed = worker.changed /\ worker'.previous = worker.previous
    <3>1. CASE AllVisited
      BY <1>0, <3>1 DEF AllVisited, WorkerFields
    <3>2. CASE \E p \in worker.batch : ApplyRecord(p)
      BY <1>0, <3>2 DEF ApplyRecord, WorkerFields
    <3>3. CASE TickChanges
      BY <1>0, <3>3 DEF TickChanges, WorkerFields
    <3>4. CASE TickChangesNothing
      BY <1>0, <3>4 DEF TickChangesNothing, StartDispatch, WorkerFields
    <3>5. CASE \E j \in worker.queue : Sends(j) \/ GivesUp(j)
      <4>1. PICK j, result : worker' = Sent(j, result)
        BY <3>5 DEF Sends, SendSucceeds, SendFails, GivesUp
      <4>. QED
        BY <1>0, <4>1 DEF Sent, WorkerFields
    <3>. QED
      BY <1>10, <3>1, <3>2, <3>3, <3>4, <3>5
  <2>. QED
    BY <2>1, <2>2, UnreplacedFrame DEF Unreplaced
<1>11. CursorsIntact(NotStarted, archive)
  BY ReadIntact DEF CursorsIntact, NotStarted, Unreplaced
<1>12. CASE Checkpoint
  <2>1. /\ UNCHANGED <<archive, clock>>
        /\ progress' = Progress(worker.next)
        /\ disk' = disk \/ disk' = Snapshot(progress', delivery)
    BY <1>12 DEF Checkpoint, SaveFails
  <2>2. progress'.cursors = worker.next
    BY <2>1 DEF Progress
  <2>3. disk' = disk \/ disk'.progress = progress'
    BY <2>1, SavedDelivery
  <2>4. /\ worker'.next \in {worker.next, NotStarted}
        /\ worker'.changed = NoFile /\ worker'.previous = {}
    <3>1. CASE worker' = [worker EXCEPT !.pc = "tick"]
      BY <1>0, <3>1 DEF WorkerFields, Unreplaced
    <3>2. CASE worker' = Resting("idle")
      BY <3>2, RestingShape
    <3>. QED
      BY <1>12, <3>1, <3>2 DEF Checkpoint
  <2>. QED
    BY <1>11, <2>1, <2>2, <2>3, <2>4, UnreplacedFrame DEF Unreplaced
<1>13. CASE TickSaved \/ (\E j \in worker.sending : MarkJob(j))
  <2>1. /\ UNCHANGED <<archive, progress, clock>>
        /\ disk' = disk \/ \E d : disk' = Snapshot(progress, d)
    BY <1>13 DEF TickSaved, MarkJob, SaveFails
  <2>2. disk' = disk \/ disk'.progress = progress
    BY <2>1, SavedDelivery
  <2>3. /\ worker'.next \in {worker.next, NotStarted}
        /\ worker'.changed = NoFile /\ worker'.previous = {}
    <3>1. CASE worker' = StartDispatch(DueJobs(worker.now))
      BY <1>0, <3>1 DEF StartDispatch, WorkerFields, Unreplaced
    <3>2. CASE worker' = Resting("idle")
      BY <3>2, RestingShape
    <3>3. CASE worker' = [worker EXCEPT !.pc = "dispatch", !.sending = {}, !.result = "none"]
      BY <1>0, <3>3 DEF WorkerFields, Unreplaced
    <3>. QED
      BY <1>13, <3>1, <3>2, <3>3 DEF TickSaved, MarkJob
  <2>. QED
    BY <1>11, <2>1, <2>2, <2>3, UnreplacedFrame DEF Unreplaced
<1>14. ASSUME NEW c \in Configs, Crash(c) PROVE Unreplaced'
  <2>1. UNCHANGED <<archive, clock, disk>> /\ progress' = disk.progress /\ worker' = Resting("start")
    BY <1>14 DEF Crash
  <2>. QED
    BY <1>11, <2>1, RestingShape, UnreplacedFrame DEF Unreplaced
<1>. QED
  BY <1>1, <1>2, <1>3, <1>4, <1>5, <1>6, <1>7, <1>8, <1>9, <1>10, <1>12, <1>13, <1>14
     DEF WorkerNext, WorkerStep, Rests

(* Where no replacements are allowed none happens, and nothing is rebuilt. *)
LEMMA UnreplacedNext ==
    ASSUME MaxReplacements = 0, KeptInv, WorkerNext \/ UNCHANGED allVars
    PROVE  Unreplaced' /\ ~Rebuild
<1>1. faults.truncate \in Nat /\ faults.restore \in Nat
  BY DEF KeptInv, OutboxInv, Shapes, FaultKinds
<1>2. ~(faults.truncate + faults.restore < MaxReplacements)
  BY <1>1
<1>3. \A f \in Files : ~Replaced(f)
  BY <1>2, Zenon DEF Replaced
<1>. QED
  BY <1>3, UnreplacedStep

-----------------------------------------------------------------------------
(* The counts.                                                             *)

Count(j) == IF j \in DOMAIN accepted THEN accepted[j] ELSE 0

Allowed == faults.crash + faults.save + faults.send + faults.restore

(* The answer that j was accepted is about to be recorded.                 *)
Answered(j) == worker.pc = "mark" /\ worker.result = "sent" /\ j \in worker.sending

(* An open job was accepted at most once per fault; an accepted answer,    *)
(* recorded or about to be, adds one.                                      *)
CountsBounded ==
    \A j : /\ Count(j) \in Nat
           /\ Count(j) <= 1 + Allowed
           /\ (j \notin SentIn(delivery) /\ ~Answered(j)) => Count(j) <= Allowed

(* Steps in which nothing is sent and no mark ends.                        *)
LEMMA CountsFrame ==
    ASSUME CountsBounded, UNCHANGED accepted, Allowed \in Nat, Allowed' \in Nat,
           \/ /\ Allowed' >= Allowed
              /\ SentIn(delivery) \subseteq SentIn(delivery)'
              /\ worker.pc # "mark"
           \/ /\ Allowed' >= Allowed
              /\ SentIn(delivery) \subseteq SentIn(delivery)'
              /\ worker' = worker
           \/ Allowed' >= Allowed + 1
    PROVE  CountsBounded'
<1>1. \A j : Count(j)' = Count(j)
  BY DEF Count
<1>2. \A j : worker' = worker => Answered(j)' = Answered(j)
  BY DEF Answered
<1>3. \A j : worker.pc # "mark" => ~Answered(j)
  BY DEF Answered
<1>. SUFFICES ASSUME NEW j
              PROVE  /\ Count(j)' \in Nat
                     /\ Count(j)' <= 1 + Allowed'
                     /\ (j \notin SentIn(delivery)' /\ ~Answered(j)') => Count(j)' <= Allowed'
  BY DEF CountsBounded
<1>4. /\ Count(j) \in Nat
      /\ Count(j) <= 1 + Allowed
      /\ (j \notin SentIn(delivery) /\ ~Answered(j)) => Count(j) <= Allowed
  BY DEF CountsBounded
<1>. QED
  BY <1>1, <1>2, <1>3, <1>4

(* Faults are only ever counted up.                                        *)
LEMMA FaultsGrow ==
    ASSUME OutboxInv, WorkerNext \/ UNCHANGED allVars
    PROVE  Allowed \in Nat /\ Allowed' \in Nat /\ Allowed' >= Allowed
<1>1. /\ faults.crash \in Nat /\ faults.save \in Nat /\ faults.send \in Nat
      /\ faults.truncate \in Nat /\ faults.restore \in Nat
      /\ DOMAIN faults = FaultKinds
  BY DEF OutboxInv, Shapes, FaultKinds
<1>2. \/ faults' = faults
      \/ \E kind \in FaultKinds : faults' = [faults EXCEPT ![kind] = @ + 1]
  BY DEF WorkerNext, WorkerStep, Receives, Imports, Store, Publish, AppendCut, Replaced,
     TimePasses, Woken,
         Periodic, EverySecond, StartUp, VisitFile, PartitionChanged, AllVisited, BeginRebuild,
         ApplyRecord, EngineStep, Checkpoint, Rebuild, TickChanges, TickSaved,
         TickChangesNothing, Sends, SendSucceeds, SendFails, GivesUp, MarkJob, Rests,
         DispatchDone, VisitFails,
         Crash, SaveFails, allVars, workerVars, FaultKinds
<1>. QED
  BY <1>1, <1>2 DEF Allowed, FaultKinds

(* Sending raises the count of one open job, with its answer or its fault. *)
LEMMA CountsSends ==
    ASSUME OutboxInv, CountsBounded, NEW j \in worker.queue, Sends(j) \/ GivesUp(j), WorkerNext
    PROVE  CountsBounded'
<1>1. Allowed \in Nat /\ Allowed' \in Nat /\ Allowed' >= Allowed
  BY FaultsGrow
<1>2. /\ SentIn(delivery)' = SentIn(delivery) /\ j \notin SentIn(delivery)
      /\ worker.pc = "dispatch"
  BY OutboxSends DEF Sends, GivesUp, SentIn
<1>3. /\ DOMAIN worker = WorkerFields
      /\ faults \in [FaultKinds -> Nat]
  BY DEF OutboxInv, Shapes
<1>4. \A i : ~Answered(i) /\ Count(i) \in Nat /\ Count(i) <= 1 + Allowed
              /\ (i \notin SentIn(delivery) => Count(i) <= Allowed)
  BY <1>2 DEF CountsBounded, Answered
<1>5. ASSUME accepted' = Counted(j), NEW i
      PROVE  Count(i)' = IF i = j THEN Count(i) + 1 ELSE Count(i)
  BY <1>4, <1>5 DEF Count, Counted
<1>6. CASE SendSucceeds(j)
  <2>1. \A i : Answered(i)' <=> i = j
    BY <1>3, <1>6, SentShape DEF SendSucceeds, Answered
  <2>2. accepted' = Counted(j)
    BY <1>6 DEF SendSucceeds
  <2>3. \A i : Count(i)' = IF i = j THEN Count(i) + 1 ELSE Count(i)
    BY <1>5, <2>2
  <2>. QED
    BY <1>1, <1>2, <1>4, <2>1, <2>3 DEF CountsBounded
<1>7. CASE SendFails(j)
  <2>1. faults' = [faults EXCEPT !.send = @ + 1]
    BY <1>7 DEF SendFails
  <2>2. Allowed' = Allowed + 1
    <3>1. /\ faults'.send = faults.send + 1 /\ faults'.crash = faults.crash
          /\ faults'.save = faults.save /\ faults'.restore = faults.restore
      BY <1>3, <2>1 DEF FaultKinds
    <3>2. /\ faults.send \in Nat /\ faults.crash \in Nat /\ faults.save \in Nat
          /\ faults.restore \in Nat
      BY <1>3 DEF FaultKinds
    <3>. QED
      BY <3>1, <3>2 DEF Allowed
  <2>3. accepted' \in {accepted, Counted(j)}
    BY <1>7 DEF SendFails
  <2>4. \A i : Count(i)' \in {Count(i), IF i = j THEN Count(i) + 1 ELSE Count(i)}
    <3>1. CASE accepted' = accepted
      BY <3>1 DEF Count
    <3>2. CASE accepted' = Counted(j)
      BY <1>5, <3>2
    <3>. QED
      BY <2>3, <3>1, <3>2
  <2>. QED
    BY <1>1, <1>2, <1>4, <2>2, <2>4 DEF CountsBounded
<1>8. CASE GivesUp(j)
  <2>1. accepted' = accepted /\ worker' = Sent(j, "permanent")
    BY <1>8 DEF GivesUp
  <2>2. \A i : ~Answered(i)' /\ Count(i)' = Count(i)
    BY <1>3, <2>1, SentShape DEF Answered, Count
  <2>. QED
    BY <1>1, <1>2, <1>4, <2>2 DEF CountsBounded
<1>. QED
  BY <1>6, <1>7, <1>8 DEF Sends

(* A mark records the answer or fails to be saved.                         *)
LEMMA CountsMarks ==
    ASSUME OutboxInv, CountsBounded, NEW j \in worker.sending, MarkJob(j), WorkerNext
    PROVE  CountsBounded'
<1>1. Allowed \in Nat /\ Allowed' \in Nat /\ Allowed' >= Allowed
  BY FaultsGrow
<1>2. UNCHANGED accepted
  BY OutboxMarks
<1>3. CASE SaveFails
  <2>1. /\ faults'.save = faults.save + 1 /\ faults'.crash = faults.crash
        /\ faults'.send = faults.send /\ faults'.restore = faults.restore
    BY <1>3 DEF SaveFails, OutboxInv, Shapes, FaultKinds
  <2>2. /\ faults.send \in Nat /\ faults.crash \in Nat /\ faults.save \in Nat
        /\ faults.restore \in Nat
    BY DEF OutboxInv, Shapes, FaultKinds
  <2>3. Allowed' = Allowed + 1
    BY <2>1, <2>2 DEF Allowed
  <2>. QED
    BY <1>1, <1>2, <2>3, CountsFrame
<1>4. ASSUME NEW d \in Marks(j), delivery' = Deliver(j, d)
      PROVE  CountsBounded'
  <2>1. SentIn(delivery)' = (SentIn(delivery) \ {j}) \cup (IF d.sent THEN {j} ELSE {})
    BY <1>4, MarkedSets DEF SentIn
  <2>2. d.sent = (worker.result = "sent") /\ j \notin SentIn(delivery)
    BY <1>4 DEF Marks, OutboxInv, QueueOpen
  <2>3. \A i : Answered(i) <=> i = j /\ worker.result = "sent"
    BY DEF Answered, MarkJob, OutboxInv, QueueOpen
  <2>4. \A i : Count(i)' = Count(i)
    BY <1>2 DEF Count
  <2>5. \A i : i \notin SentIn(delivery)' => i \notin SentIn(delivery) /\ ~Answered(i)
    BY <2>1, <2>2, <2>3
  <2>. QED
    BY <1>1, <2>4, <2>5 DEF CountsBounded
<1>. QED
  BY <1>3, <1>4 DEF MarkJob

-----------------------------------------------------------------------------
(* Every step keeps the invariant of the outbox.                           *)
LEMMA OutboxNext ==
    ASSUME OutboxInv, WorkerNext \/ UNCHANGED allVars
    PROVE  OutboxInv'
BY OutboxOutside, OutboxRun, OutboxReconcile, OutboxTick, OutboxSends, OutboxMarks,
   OutboxRebuild, OutboxCrash DEF WorkerNext, WorkerStep, Rests

(* What holds of every instance.                                           *)
WorkerInv == OutboxInv /\ (MaxReplacements = 0 => Unreplaced)

(* The invariant of the outbox holds in every behaviour.                   *)
LEMMA WorkerInvAlways == WorkerSpec => []WorkerInv
<1>1. WorkerInit => WorkerInv
  BY OutboxInit, UnreplacedInit DEF WorkerInv
<1>2. WorkerInv /\ [WorkerNext]_allVars => WorkerInv'
  BY OutboxNext, UnreplacedNext DEF WorkerInv, KeptInv
<1>. QED
  BY <1>1, <1>2, PTL DEF WorkerSpec

(* A job is marked as sent only after the service has accepted it, for any *)
(* number of jobs, messages, crashes, failing saves and replaced files.    *)
THEOREM SentOnlyIfAccepted == WorkerSpec => []SentWasAccepted
<1>1. WorkerInv => SentWasAccepted
  <2>. SUFFICES ASSUME OutboxInv, NEW j \in DOMAIN jobs, Delivery(j).sent
                PROVE  j \in DOMAIN accepted
    BY DEF WorkerInv, SentWasAccepted
  <2>1. j \in SentIn(delivery)
    BY DEF Delivery, SentIn
  <2>. QED
    BY <2>1 DEF OutboxInv, ClosedOnAnswer
<1>. QED
  BY <1>1, WorkerInvAlways, PTL

(* A step of the worker is a step of Outbox, or changes nothing of it.     *)
LEMMA OutboxStep ==
    ASSUME WorkerInv, WorkerNext \/ UNCHANGED allVars
    PROVE  Out!Next \/ UNCHANGED Out!vars
<1>. USE DEF WorkerInv
<1>1. ASSUME UNCHANGED <<delivery, accepted, refused>> PROVE UNCHANGED Out!vars
  BY <1>1 DEF Out!vars, SentIn, FailedIn
<1>2. ASSUME UNCHANGED <<accepted, refused>>, OutboxInv',
             SentIn(delivery) \subseteq SentIn(delivery)',
             FailedIn(delivery) \subseteq FailedIn(delivery)'
      PROVE  Out!Close
  <2>1. SentIn(delivery)' \subseteq DOMAIN accepted' /\ FailedIn(delivery)' \subseteq refused'
    BY <1>2 DEF OutboxInv, ClosedOnAnswer
  <2>. QED
    BY <1>2, <2>1 DEF Out!Close
<1>3. ASSUME NEW j \in worker.queue, Sends(j) \/ GivesUp(j)
      PROVE  Out!Next \/ UNCHANGED Out!vars
  <2>1. /\ UNCHANGED delivery
        /\ j \notin SentIn(delivery) \cup FailedIn(delivery)
        /\ \/ accepted' = Counted(j) /\ refused' = refused
           \/ accepted' = accepted /\ refused' = refused \cup {j}
           \/ UNCHANGED <<accepted, refused>>
    BY <1>3, OutboxSends
  <2>2. SentIn(delivery)' = SentIn(delivery) /\ FailedIn(delivery)' = FailedIn(delivery)
    BY <2>1 DEF SentIn, FailedIn
  <2>3. CASE accepted' = Counted(j) /\ refused' = refused
    <3>1. Out!Accept(j)
      BY <2>1, <2>2, <2>3 DEF Out!Accept, Out!Open, Out!Once, Counted
    <3>2. j \in DOMAIN accepted'
      BY <2>3, CountedDomain
    <3>. QED
      BY <3>1, <3>2 DEF Out!Next
  <2>4. CASE accepted' = accepted /\ refused' = refused \cup {j}
    <3>1. Out!Refuse(j)
      BY <2>1, <2>2, <2>4 DEF Out!Refuse, Out!Open
    <3>2. j \in refused'
      BY <2>4
    <3>. QED
      BY <3>1, <3>2 DEF Out!Next
  <2>. QED
    BY <1>1, <2>1, <2>3, <2>4
<1>4. ASSUME Rebuild PROVE Out!Next
  <2>1. MaxReplacements > 0
    BY <1>4, UnreplacedNext, ReplacementsAssumption DEF KeptInv
  <2>2. Out!Forget
    BY <1>4, <2>1, OutboxRebuild DEF Out!Forget
  <2>. QED
    BY <2>2 DEF Out!Next
<1>5. ASSUME NEW j \in worker.sending, MarkJob(j) PROVE Out!Next
  BY <1>2, <1>5, OutboxMarks DEF Out!Next
<1>6. ASSUME NEW c \in Configs, Crash(c) PROVE Out!Next
  BY <1>2, <1>6, OutboxCrash DEF Out!Next
<1>. QED
  BY <1>1, <1>3, <1>4, <1>5, <1>6, OutboxOutside, OutboxRun, OutboxReconcile, OutboxTick
     DEF WorkerNext, WorkerStep, Rests

(* The worker implements Outbox, for any number of jobs, messages,         *)
(* crashes, failing saves, lost answers and replaced files: what it sends  *)
(* is open, what it closes was answered, and what is closed stays closed   *)
(* as long as no file is replaced.                                         *)
THEOREM WorkerImplementsOutbox == WorkerSpec => ImplementsOutbox
<1>1. WorkerInit => Out!Init
  BY DEF WorkerInit, Out!Init, Empty, SentIn, FailedIn
<1>2. WorkerInv /\ [WorkerNext]_allVars => [Out!Next]_Out!vars
  BY OutboxStep
<1>. QED
  BY <1>1, <1>2, WorkerInvAlways, PTL DEF WorkerSpec, ImplementsOutbox, Out!Spec

(* Every step keeps the counts bounded.                                    *)
LEMMA CountsNext ==
    ASSUME MaxReplacements = 0, KeptInv, CountsBounded, WorkerNext \/ UNCHANGED allVars
    PROVE  CountsBounded'
<1>. USE DEF KeptInv
<1>1. Allowed \in Nat /\ Allowed' \in Nat /\ Allowed' >= Allowed
  BY FaultsGrow
<1>2. ASSUME UNCHANGED <<delivery, accepted>>, worker.pc # "mark" \/ worker' = worker
      PROVE  CountsBounded'
  <2>1. SentIn(delivery) \subseteq SentIn(delivery)'
    BY <1>2 DEF SentIn
  <2>. QED
    BY <1>1, <1>2, <2>1, CountsFrame
<1>3. CASE \/ \E m \in Inputs : Receives(m)
           \/ \E m \in ImportInputs, at \in 0 .. MaxTime : Imports(m, at)
           \/ \E writer \in {"syslog", "import"} : Publish(writer)
           \/ \E f \in Files : AppendCut(f) \/ Replaced(f)
           \/ TimePasses
           \/ EngineStep
           \/ UNCHANGED allVars
  <2>1. worker' = worker
    BY <1>3 DEF Receives, Imports, Store, Publish, AppendCut, Replaced, TimePasses, EngineStep,
       allVars,
                workerVars
  <2>. QED
    BY <1>2, <1>3, <2>1, OutboxOutside
<1>4. CASE StartUp \/ Woken \/ Periodic \/ EverySecond \/ Rests
  <2>1. worker.pc # "mark"
    BY <1>4 DEF StartUp, Woken, Periodic, EverySecond, Rests, DispatchDone, VisitFails, Visiting
  <2>. QED
    BY <1>2, <1>4, <2>1, OutboxRun
<1>5. CASE \/ \E f \in Files : VisitFile(f) \/ PartitionChanged(f)
           \/ AllVisited
           \/ BeginRebuild
           \/ \E p \in worker.batch : ApplyRecord(p)
           \/ Checkpoint
           \/ TickChanges
  <2>1. worker.pc # "mark"
    BY <1>5 DEF VisitFile, PartitionChanged, AllVisited, BeginRebuild, ApplyRecord, Checkpoint,
                TickChanges, Visiting, Applied
  <2>. QED
    BY <1>2, <1>5, <2>1, OutboxReconcile
<1>6. CASE TickSaved \/ TickChangesNothing
  <2>1. worker.pc # "mark"
    BY <1>6 DEF TickSaved, TickChangesNothing
  <2>. QED
    BY <1>2, <1>6, <2>1, OutboxTick
<1>7. ASSUME NEW j \in worker.queue, Sends(j) \/ GivesUp(j), WorkerNext PROVE CountsBounded'
  BY <1>7, CountsSends
<1>8. ASSUME NEW j \in worker.sending, MarkJob(j), WorkerNext PROVE CountsBounded'
  BY <1>8, CountsMarks
<1>9. ASSUME NEW c \in Configs, Crash(c) PROVE CountsBounded'
  <2>1. /\ faults'.crash = faults.crash + 1 /\ faults'.save = faults.save
        /\ faults'.send = faults.send /\ faults'.restore = faults.restore
    BY <1>9 DEF Crash, OutboxInv, Shapes, FaultKinds
  <2>2. /\ faults.send \in Nat /\ faults.crash \in Nat /\ faults.save \in Nat
        /\ faults.restore \in Nat
    BY DEF OutboxInv, Shapes, FaultKinds
  <2>3. Allowed' = Allowed + 1
    BY <2>1, <2>2 DEF Allowed
  <2>. QED
    BY <1>1, <1>9, <2>3, OutboxCrash, CountsFrame
<1>. QED
  BY <1>3, <1>4, <1>5, <1>6, <1>7, <1>8, <1>9, UnreplacedNext DEF WorkerNext, WorkerStep, Rests

(* Where no file is replaced a job is accepted at most once more than      *)
(* there were crashes, failing saves and failing sends, for any number of  *)
(* jobs and however the faults fall.                                       *)
THEOREM DeliveredOncePerFault ==
    ASSUME MaxReplacements = 0
    PROVE  WorkerSpec => []DuplicatesBounded
<1>1. WorkerInit => KeptInv /\ CountsBounded
  <2>1. WorkerInit => CountsBounded
    <3>. SUFFICES ASSUME WorkerInit PROVE CountsBounded
      OBVIOUS
    <3>1. Allowed = 0
      BY DEF WorkerInit, Allowed
    <3>2. \A j : Count(j) = 0
      BY DEF WorkerInit, Count, Empty
    <3>. QED
      BY <3>1, <3>2 DEF CountsBounded
  <2>. QED
    BY <2>1, OutboxInit, UnreplacedInit DEF KeptInv
<1>2. KeptInv /\ CountsBounded /\ [WorkerNext]_allVars => (KeptInv /\ CountsBounded)'
  BY OutboxNext, UnreplacedNext, CountsNext DEF KeptInv
<1>3. KeptInv /\ CountsBounded => DuplicatesBounded
  <2>. SUFFICES ASSUME KeptInv, CountsBounded, NEW j \in DOMAIN accepted
                PROVE  accepted[j] <= 1 + faults.crash + faults.save + faults.send + faults.restore
    BY DEF DuplicatesBounded
  <2>1. Count(j) <= 1 + Allowed /\ Count(j) = accepted[j] /\ Count(j) \in Nat
    BY DEF CountsBounded, Count
  <2>2. /\ faults.send \in Nat /\ faults.crash \in Nat /\ faults.save \in Nat
        /\ faults.restore \in Nat
    BY DEF KeptInv, OutboxInv, Shapes, FaultKinds
  <2>. QED
    BY <2>1, <2>2 DEF Allowed
<1>. QED
  BY <1>1, <1>2, <1>3, PTL DEF WorkerSpec

-----------------------------------------------------------------------------
(* The log: every record is in the file of its day, and once.              *)

Distinct(s) == \A m, n \in 1 .. Len(s) : s[m].id = s[n].id => m = n

Apart(s, t) == \A x \in ToSet(s), y \in ToSet(t) : x.id # y.id

Home(s, f) == \A x \in ToSet(s) : FileOf(x) = f

RecordsIn(a, l) == UNION {ToSet(a[f]) \cup ToSet(l[f]) : f \in Files}

Filed(a, l) ==
    /\ a \in [Files -> Seq(Record)]
    /\ l \in [Files -> Seq(Record)]
    /\ \A r, q \in RecordsIn(a, l) : r.id = q.id => r = q
    /\ \A f \in Files :
          /\ Distinct(a[f]) /\ Distinct(l[f]) /\ Apart(a[f], l[f])
          /\ Home(a[f], f) /\ Home(l[f], f)

Appended(a, r) == [a EXCEPT ![FileOf(r)] = Append(@, r)]

Divided(a, f, s) == [a EXCEPT ![f] = s]

(* Cursors that name records of a log, each in its own file.               *)
Reads(log, c) ==
    /\ c \in [Files -> Seq(MsgIDs)]
    /\ \A f \in Files : \A n \in 1 .. Len(c[f]) :
          \E r \in log : r.id = c[f][n] /\ FileOf(r) = f

CursorsInv ==
    /\ Reads(Log, worker.next)
    /\ Reads(Log, progress.cursors)
    /\ Reads(Log, disk.progress.cursors)

ClaimedIn(log, c) ==
    {r.id : r \in {x \in log : Supported(x.input) /\ \E f \in Files : x.id \in ToSet(c[f])}}

(* What was read and is not applied yet.                                   *)
BatchIDs == {p.record.id : p \in worker.batch}

BatchInv ==
    /\ \A p \in worker.batch : p.record \in Log
    /\ \A p, q \in worker.batch : p.record.id = q.record.id => p = q
    /\ worker.pc \notin {"visit", "apply"} => worker.batch = {}

(* The supported records the cursors claim: outside of a reading they are  *)
(* those the state was derived from; while the files are read, those and   *)
(* the batch, and after a file was found changed the batch alone; while    *)
(* the batch is applied, those and what is left of it.                     *)
ClaimsInv ==
    /\ disk.observed = Claimed(disk.progress.cursors)
    /\ worker.pc # "apply" => observed = Claimed(progress.cursors)
    /\ (worker.pc = "visit" /\ worker.changed = NoFile) \/ worker.pc = "apply" =>
          /\ observed \cup BatchIDs = Claimed(worker.next)
          /\ observed \cap BatchIDs = {}
    /\ worker.pc = "visit" /\ worker.changed # NoFile => BatchIDs = Claimed(worker.next)

RecoveryInv == clock \in 0 .. MaxTime /\ Filed(archive, lost) /\ CursorsInv /\ BatchInv /\ ClaimsInv

-----------------------------------------------------------------------------
(* The elements of a sequence.                                             *)
LEMMA ElementsOf ==
    ASSUME NEW S, NEW s \in Seq(S)
    PROVE  /\ Len(s) \in Nat /\ DOMAIN s = 1 .. Len(s)
           /\ ToSet(s) \subseteq S
           /\ \A x : x \in ToSet(s) <=> \E n \in 1 .. Len(s) : x = s[n]
BY DEF ToSet

LEMMA AppendElements ==
    ASSUME NEW S, NEW s \in Seq(S), NEW r \in S
    PROVE  /\ Append(s, r) \in Seq(S)
           /\ ToSet(Append(s, r)) = ToSet(s) \cup {r}
<1>. DEFINE t == Append(s, r)
<1>1. /\ t \in Seq(S) /\ Len(s) \in Nat /\ Len(t) = Len(s) + 1
      /\ \A n \in 1 .. Len(s) : t[n] = s[n]
      /\ t[Len(s) + 1] = r
  OBVIOUS
<1>. HIDE DEF t
<1>2. ASSUME NEW x \in ToSet(t) PROVE x \in ToSet(s) \cup {r}
  <2>1. PICK n \in 1 .. Len(t) : x = t[n]
    BY <1>1, ElementsOf
  <2>2. n \in 1 .. Len(s) \/ n = Len(s) + 1
    BY <1>1, <2>1
  <2>. QED
    BY <1>1, <2>1, <2>2, ElementsOf
<1>3. ASSUME NEW x \in ToSet(s) PROVE x \in ToSet(t)
  <2>1. PICK n \in 1 .. Len(s) : x = s[n]
    BY ElementsOf
  <2>2. n \in 1 .. Len(t) /\ t[n] = x
    BY <1>1, <2>1
  <2>. QED
    BY <1>1, <2>2, ElementsOf
<1>4. r \in ToSet(t)
  <2>1. Len(s) + 1 \in 1 .. Len(t)
    BY <1>1
  <2>. QED
    BY <1>1, <2>1, ElementsOf
<1>. QED
  BY <1>1, <1>2, <1>3, <1>4 DEF t

(* The records of a log.                                                   *)
LEMMA RecordsMember ==
    ASSUME NEW a, NEW l
    PROVE  \A r : r \in RecordsIn(a, l) <=> \E f \in Files : r \in ToSet(a[f]) \cup ToSet(l[f])
BY DEF RecordsIn

(* Cursors and what they claim do not change when records with new IDs     *)
(* come in.                                                                *)
LEMMA GrowthKeepsClaims ==
    ASSUME NEW log, NEW more, log \subseteq more,
           \A r \in more \ log : \A q \in log : r.id # q.id,
           NEW c, Reads(log, c)
    PROVE  Reads(more, c) /\ ClaimedIn(more, c) = ClaimedIn(log, c)
<1>1. Reads(more, c)
  BY DEF Reads
<1>2. ASSUME NEW r \in more, NEW f \in Files, r.id \in ToSet(c[f])
      PROVE  r \in log
  <2>1. c[f] \in Seq(MsgIDs)
    BY DEF Reads
  <2>2. PICK n \in 1 .. Len(c[f]) : r.id = c[f][n]
    BY <1>2, <2>1 DEF ToSet
  <2>. QED
    BY <2>2 DEF Reads
<1>3. {x \in more : Supported(x.input) /\ \E f \in Files : x.id \in ToSet(c[f])}
        = {x \in log : Supported(x.input) /\ \E f \in Files : x.id \in ToSet(c[f])}
  BY <1>2
<1>. QED
  BY <1>1, <1>3 DEF ClaimedIn

(* Nothing has been read by a cursor that has not started.                 *)
LEMMA NotStartedClaims ==
    ASSUME NEW log
    PROVE  Reads(log, NotStarted) /\ ClaimedIn(log, NotStarted) = {}
<1>1. NotStarted \in [Files -> Seq(MsgIDs)] /\ \A f \in Files : NotStarted[f] = <<>>
  BY DEF NotStarted
<1>2. Reads(log, NotStarted)
  BY <1>1 DEF Reads
<1>3. \A f \in Files : ToSet(NotStarted[f]) = {}
  BY <1>1 DEF ToSet
<1>. QED
  BY <1>2, <1>3 DEF ClaimedIn

(* An append to the file of the record.                                    *)
LEMMA FiledAppend ==
    ASSUME NEW a, NEW l, Filed(a, l),
           NEW r \in Record, \A q \in RecordsIn(a, l) : q.id # r.id
    PROVE  /\ Filed(Appended(a, r), l)
           /\ RecordsIn(a, l) \subseteq RecordsIn(Appended(a, r), l)
           /\ \A x \in RecordsIn(Appended(a, r), l) \ RecordsIn(a, l) : x = r
<1>. SUFFICES ASSUME NEW b, b = [a EXCEPT ![FileOf(r)] = Append(@, r)]
              PROVE  /\ Filed(b, l)
                     /\ RecordsIn(a, l) \subseteq RecordsIn(b, l)
                     /\ \A x \in RecordsIn(b, l) \ RecordsIn(a, l) : x = r
  BY DEF Appended
<1>. DEFINE g == FileOf(r)
<1>1. a \in [Files -> Seq(Record)] /\ l \in [Files -> Seq(Record)]
  BY DEF Filed
<1>2. b \in [Files -> Seq(Record)]
  <2>1. CASE g \in Files
    <3>1. a[g] \in Seq(Record)
      BY <1>1, <2>1
    <3>2. Append(a[g], r) \in Seq(Record)
      BY <3>1
    <3>. QED
      BY <1>1, <2>1, <3>2
  <2>2. CASE g \notin Files
    BY <1>1, <2>2
  <2>. QED
    BY <2>1, <2>2
<1>3. CASE g \notin Files
  <2>1. b = a
    BY <1>1, <1>3
  <2>. QED
    BY <2>1
<1>4. CASE g \in Files
  <2>1. a[g] \in Seq(Record) /\ b[g] = Append(a[g], r) /\ \A f \in Files : f # g => b[f] = a[f]
    BY <1>1, <1>4
  <2>2. ToSet(b[g]) = ToSet(a[g]) \cup {r}
    BY <2>1, AppendElements
  <2>3. RecordsIn(b, l) = RecordsIn(a, l) \cup {r}
    <3>1. ASSUME NEW x \in RecordsIn(b, l) PROVE x \in RecordsIn(a, l) \cup {r}
      <4>1. PICK f \in Files : x \in ToSet(b[f]) \cup ToSet(l[f])
        BY RecordsMember
      <4>2. x \in ToSet(a[f]) \cup ToSet(l[f]) \cup {r}
        BY <2>1, <2>2, <4>1
      <4>. QED
        BY <4>2, RecordsMember
    <3>2. ASSUME NEW x \in RecordsIn(a, l) PROVE x \in RecordsIn(b, l)
      <4>1. PICK f \in Files : x \in ToSet(a[f]) \cup ToSet(l[f])
        BY RecordsMember
      <4>2. x \in ToSet(b[f]) \cup ToSet(l[f])
        BY <2>1, <2>2, <4>1
      <4>. QED
        BY <4>2, RecordsMember
    <3>3. r \in RecordsIn(b, l)
      BY <1>4, <2>2, RecordsMember
    <3>. QED
      BY <3>1, <3>2, <3>3
  <2>4. \A x \in ToSet(a[g]) \cup ToSet(l[g]) : x.id # r.id
    BY <1>4, RecordsMember
  <2>5. Distinct(b[g])
    <3>1. /\ Len(a[g]) \in Nat /\ Len(b[g]) = Len(a[g]) + 1
          /\ \A n \in 1 .. Len(a[g]) : b[g][n] = a[g][n]
          /\ b[g][Len(a[g]) + 1] = r
      BY <2>1
    <3>2. \A n \in 1 .. Len(b[g]) : n \in 1 .. Len(a[g]) \/ n = Len(a[g]) + 1
      BY <3>1
    <3>3. \A n \in 1 .. Len(a[g]) : a[g][n].id # r.id
      BY <2>1, <2>4, ElementsOf
    <3>. QED
      BY <1>4, <3>1, <3>2, <3>3 DEF Distinct, Filed
  <2>6. Apart(b[g], l[g]) /\ Home(b[g], g)
    BY <1>4, <2>2, <2>4 DEF Apart, Home, Filed
  <2>7. \A x, y \in RecordsIn(b, l) : x.id = y.id => x = y
    BY <2>3 DEF Filed
  <2>8. \A f \in Files :
            /\ Distinct(b[f]) /\ Distinct(l[f]) /\ Apart(b[f], l[f])
            /\ Home(b[f], f) /\ Home(l[f], f)
    BY <2>1, <2>5, <2>6 DEF Filed
  <2>. QED
    BY <1>1, <1>2, <2>3, <2>7, <2>8 DEF Filed
<1>. QED
  BY <1>3, <1>4

(* Two sequences one after the other.                                      *)
LEMMA ConcatElements ==
    ASSUME NEW S, NEW s \in Seq(S), NEW t \in Seq(S)
    PROVE  /\ s \o t \in Seq(S)
           /\ ToSet(s \o t) = ToSet(s) \cup ToSet(t)
           /\ Distinct(s) /\ Distinct(t) /\ Apart(s, t) => Distinct(s \o t)
<1>. DEFINE u == s \o t
<1>1. /\ u \in Seq(S) /\ Len(s) \in Nat /\ Len(t) \in Nat /\ Len(u) = Len(s) + Len(t)
      /\ \A n \in 1 .. Len(u) : u[n] = IF n <= Len(s) THEN s[n] ELSE t[n - Len(s)]
  OBVIOUS
<1>. HIDE DEF u
<1>2. \A n \in 1 .. Len(u) :
         \/ n \in 1 .. Len(s) /\ u[n] = s[n]
         \/ n - Len(s) \in 1 .. Len(t) /\ u[n] = t[n - Len(s)]
  BY <1>1
<1>3. ASSUME NEW x \in ToSet(u) PROVE x \in ToSet(s) \cup ToSet(t)
  <2>1. PICK n \in 1 .. Len(u) : x = u[n]
    BY <1>1, ElementsOf
  <2>. QED
    BY <1>2, <2>1, ElementsOf
<1>4. ASSUME NEW x \in ToSet(s) PROVE x \in ToSet(u)
  <2>1. PICK n \in 1 .. Len(s) : x = s[n]
    BY ElementsOf
  <2>2. n \in 1 .. Len(u) /\ u[n] = x
    BY <1>1, <2>1
  <2>. QED
    BY <1>1, <2>2, ElementsOf
<1>5. ASSUME NEW x \in ToSet(t) PROVE x \in ToSet(u)
  <2>1. PICK n \in 1 .. Len(t) : x = t[n]
    BY ElementsOf
  <2>2. n + Len(s) \in 1 .. Len(u) /\ ~(n + Len(s) <= Len(s)) /\ (n + Len(s)) - Len(s) = n
    BY <1>1, <2>1
  <2>3. u[n + Len(s)] = x
    BY <1>1, <2>1, <2>2
  <2>. QED
    BY <1>1, <2>2, <2>3, ElementsOf
<1>6. ASSUME Distinct(s), Distinct(t), Apart(s, t) PROVE Distinct(u)
  <2>. SUFFICES ASSUME NEW m \in 1 .. Len(u), NEW n \in 1 .. Len(u), u[m].id = u[n].id
                PROVE  m = n
    BY DEF Distinct
  <2>1. \A i \in 1 .. Len(s) : s[i] \in ToSet(s)
    BY ElementsOf
  <2>2. \A i \in 1 .. Len(t) : t[i] \in ToSet(t)
    BY ElementsOf
  <2>3. \A i \in 1 .. Len(s), j \in 1 .. Len(t) : s[i].id # t[j].id
    BY <1>6, <2>1, <2>2 DEF Apart
  <2>4. CASE m \in 1 .. Len(s) /\ u[m] = s[m]
    <3>1. n \in 1 .. Len(s) /\ u[n] = s[n]
      BY <1>2, <2>3, <2>4
    <3>. QED
      BY <1>6, <2>4, <3>1 DEF Distinct
  <2>5. CASE m - Len(s) \in 1 .. Len(t) /\ u[m] = t[m - Len(s)]
    <3>1. n - Len(s) \in 1 .. Len(t) /\ u[n] = t[n - Len(s)]
      BY <1>2, <2>3, <2>5
    <3>2. m - Len(s) = n - Len(s)
      BY <1>6, <2>5, <3>1 DEF Distinct
    <3>. QED
      BY <1>1, <3>2
  <2>. QED
    BY <1>2, <2>4, <2>5
<1>. QED
  BY <1>1, <1>3, <1>4, <1>5, <1>6 DEF u

(* A sequence cut in two.                                                  *)
LEMMA CutElements ==
    ASSUME NEW S, NEW s \in Seq(S), NEW n \in 0 .. Len(s) - 1
    PROVE  LET u == SubSeq(s, 1, n)
               v == SubSeq(s, n + 1, Len(s))
           IN  /\ u \in Seq(S) /\ v \in Seq(S)
               /\ ToSet(u) \cup ToSet(v) = ToSet(s)
               /\ Distinct(s) => Distinct(u) /\ Distinct(v) /\ Apart(u, v)
<1>. DEFINE u == SubSeq(s, 1, n)
            v == SubSeq(s, n + 1, Len(s))
<1>0. Len(s) \in Nat /\ \A i \in 1 .. Len(s) : s[i] \in S
  OBVIOUS
<1>1. u \in Seq(S) /\ Len(u) = n /\ \A i \in 1 .. n : u[i] = s[i]
  BY <1>0
<1>2. v \in Seq(S) /\ Len(v) = Len(s) - n /\ \A i \in 1 .. Len(s) - n : v[i] = s[n + i]
  BY <1>0
<1>. HIDE DEF u, v
<1>3. \A i \in 1 .. Len(u) : i \in 1 .. Len(s) /\ u[i] = s[i] /\ i <= n
  BY <1>0, <1>1
<1>4. \A i \in 1 .. Len(v) : n + i \in 1 .. Len(s) /\ v[i] = s[n + i] /\ n + i > n
  BY <1>0, <1>2
<1>5. \A i \in 1 .. Len(s) :
         \/ i \in 1 .. Len(u) /\ s[i] = u[i]
         \/ i - n \in 1 .. Len(v) /\ s[i] = v[i - n]
  <2>. SUFFICES ASSUME NEW i \in 1 .. Len(s)
                PROVE  \/ i \in 1 .. Len(u) /\ s[i] = u[i]
                       \/ i - n \in 1 .. Len(v) /\ s[i] = v[i - n]
    OBVIOUS
  <2>1. CASE i <= n
    BY <1>0, <1>1, <2>1
  <2>2. CASE ~(i <= n)
    <3>1. i - n \in 1 .. Len(s) - n /\ n + (i - n) = i
      BY <1>0, <2>2
    <3>. QED
      BY <1>2, <3>1
  <2>. QED
    BY <2>1, <2>2
<1>6. \A x : x \in ToSet(u) <=> \E i \in 1 .. Len(u) : x = u[i]
  BY <1>1, ElementsOf
<1>7. \A x : x \in ToSet(v) <=> \E i \in 1 .. Len(v) : x = v[i]
  BY <1>2, ElementsOf
<1>8. ToSet(u) \cup ToSet(v) = ToSet(s)
  <2>1. ASSUME NEW x \in ToSet(s) PROVE x \in ToSet(u) \cup ToSet(v)
    <3>1. PICK i \in 1 .. Len(s) : x = s[i]
      BY ElementsOf
    <3>. QED
      BY <1>5, <1>6, <1>7, <3>1
  <2>2. ASSUME NEW x \in ToSet(u) \cup ToSet(v) PROVE x \in ToSet(s)
    <3>1. CASE x \in ToSet(u)
      <4>1. PICK i \in 1 .. Len(u) : x = u[i]
        BY <1>6, <3>1
      <4>. QED
        BY <1>3, <4>1, ElementsOf
    <3>2. CASE x \in ToSet(v)
      <4>1. PICK i \in 1 .. Len(v) : x = v[i]
        BY <1>7, <3>2
      <4>. QED
        BY <1>4, <4>1, ElementsOf
    <3>. QED
      BY <3>1, <3>2
  <2>. QED
    BY <2>1, <2>2
<1>9. ASSUME Distinct(s) PROVE Distinct(u)
  BY <1>3, <1>9 DEF Distinct
<1>10. ASSUME Distinct(s) PROVE Distinct(v)
  <2>. SUFFICES ASSUME NEW i \in 1 .. Len(v), NEW j \in 1 .. Len(v), v[i].id = v[j].id
                PROVE  i = j
    BY DEF Distinct
  <2>1. /\ n + i \in 1 .. Len(s) /\ s[n + i] = v[i]
        /\ n + j \in 1 .. Len(s) /\ s[n + j] = v[j]
    BY <1>4
  <2>2. s[n + i].id = s[n + j].id
    BY <2>1
  <2>3. n + i = n + j
    BY <1>10, <2>1, <2>2 DEF Distinct
  <2>. QED
    BY <1>2, <2>3
<1>11. ASSUME Distinct(s) PROVE Apart(u, v)
  <2>. SUFFICES ASSUME NEW x \in ToSet(u), NEW y \in ToSet(v), x.id = y.id PROVE FALSE
    BY DEF Apart
  <2>1. PICK i \in 1 .. Len(u) : x = u[i]
    BY <1>6
  <2>2. PICK j \in 1 .. Len(v) : y = v[j]
    BY <1>7
  <2>3. i \in 1 .. Len(s) /\ n + j \in 1 .. Len(s) /\ x = s[i] /\ y = s[n + j]
    BY <1>3, <1>4, <2>1, <2>2
  <2>4. s[i].id = s[n + j].id
    BY <2>3
  <2>5. i = n + j
    BY <1>11, <2>3, <2>4 DEF Distinct
  <2>. QED
    BY <1>3, <1>4, <2>1, <2>2, <2>5
<1>. QED
  BY <1>1, <1>2, <1>8, <1>9, <1>10, <1>11 DEF u, v

(* The records of one file, divided anew.                                  *)
LEMMA FiledDivided ==
    ASSUME NEW a, NEW l, Filed(a, l), NEW f \in Files,
           NEW u \in Seq(Record), NEW v \in Seq(Record),
           ToSet(u) \cup ToSet(v) = ToSet(a[f]) \cup ToSet(l[f]),
           Distinct(u), Distinct(v), Apart(u, v)
    PROVE  /\ Filed(Divided(a, f, u), Divided(l, f, v))
           /\ RecordsIn(Divided(a, f, u), Divided(l, f, v)) = RecordsIn(a, l)
<1>. SUFFICES ASSUME NEW b, b = [a EXCEPT ![f] = u], NEW k, k = [l EXCEPT ![f] = v]
              PROVE  Filed(b, k) /\ RecordsIn(b, k) = RecordsIn(a, l)
  BY DEF Divided
<1>1. /\ a \in [Files -> Seq(Record)] /\ l \in [Files -> Seq(Record)]
      /\ b \in [Files -> Seq(Record)] /\ k \in [Files -> Seq(Record)]
  BY DEF Filed
<1>2. b[f] = u /\ k[f] = v /\ \A g \in Files : g # f => b[g] = a[g] /\ k[g] = l[g]
  BY <1>1
<1>3. \A g \in Files : ToSet(b[g]) \cup ToSet(k[g]) = ToSet(a[g]) \cup ToSet(l[g])
  BY <1>2
<1>4. RecordsIn(b, k) = RecordsIn(a, l)
  BY <1>3 DEF RecordsIn
<1>5. Home(u, f) /\ Home(v, f)
  <2>1. \A x \in ToSet(a[f]) \cup ToSet(l[f]) : FileOf(x) = f
    BY DEF Filed, Home
  <2>. QED
    BY <2>1 DEF Home
<1>6. \A g \in Files :
         /\ Distinct(b[g]) /\ Distinct(k[g]) /\ Apart(b[g], k[g])
         /\ Home(b[g], g) /\ Home(k[g], g)
  BY <1>2, <1>5 DEF Filed
<1>. QED
  BY <1>1, <1>4, <1>6 DEF Filed

-----------------------------------------------------------------------------
(* The names of the log and of what is claimed.                            *)
LEMMA LogNames ==
    /\ Log = RecordsIn(archive, lost) /\ Log' = RecordsIn(archive', lost')
    /\ \A c : Claimed(c) = ClaimedIn(Log, c)
    /\ Claimed(worker.next)' = ClaimedIn(Log', worker'.next)
    /\ Claimed(progress.cursors)' = ClaimedIn(Log', progress'.cursors)
    /\ Claimed(disk.progress.cursors)' = ClaimedIn(Log', disk'.progress.cursors)
BY DEF Log, RecordsIn, Claimed, ClaimedIn

(* A stored record has its type.                                           *)
LEMMA StoredRecord ==
    ASSUME Filed(archive, lost), NEW r \in Log
    PROVE  r \in Record
<1>1. r \in RecordsIn(archive, lost)
  BY LogNames
<1>2. PICK f \in Files : r \in ToSet(archive[f]) \cup ToSet(lost[f])
  BY <1>1, RecordsMember
<1>3. archive[f] \in Seq(Record) /\ lost[f] \in Seq(Record)
  BY DEF Filed
<1>. QED
  BY <1>2, <1>3, ElementsOf

(* Every step keeps the records filed; those it adds have new IDs.         *)
LEMMA LogGrows ==
    ASSUME RecoveryInv, WorkerNext \/ UNCHANGED allVars
    PROVE  /\ clock' \in 0 .. MaxTime
           /\ Filed(archive', lost')
           /\ Log \subseteq Log'
           /\ \A r \in Log' \ Log : \A q \in Log : r.id # q.id
<1>0. Filed(archive, lost)
  BY DEF RecoveryInv
<1>1. ASSUME NEW writer, NEW r \in Record, r.id \notin LoggedIDs, Store(writer, r)
      PROVE  /\ Filed(archive', lost')
             /\ Log \subseteq Log'
             /\ \A x \in Log' \ Log : \A q \in Log : x.id # q.id
  <2>1. archive' = Appended(archive, r) /\ lost' = lost
    BY <1>1 DEF Store, Appended
  <2>2. \A q \in RecordsIn(archive, lost) : q.id # r.id
    BY <1>1, LogNames DEF LoggedIDs
  <2>3. /\ Filed(archive', lost)
        /\ RecordsIn(archive, lost) \subseteq RecordsIn(archive', lost)
        /\ \A x \in RecordsIn(archive', lost) \ RecordsIn(archive, lost) : x = r
    BY <1>0, <1>1, <2>1, <2>2, FiledAppend
  <2>. QED
    BY <2>1, <2>2, <2>3, LogNames
<1>2. ASSUME NEW m \in Inputs, Receives(m)
      PROVE  /\ clock' \in 0 .. MaxTime
             /\ Filed(archive', lost') /\ Log \subseteq Log'
             /\ \A x \in Log' \ Log : \A q \in Log : x.id # q.id
  <2>1. PICK id, source, r :
           /\ id \in NextID /\ source \in 0 .. Sources - 1
           /\ r = [id |-> id, input |-> m, at |-> clock, source |-> source, import |-> FALSE,
                  whole |-> TRUE]
           /\ Store("syslog", Line(r))
    BY <1>2 DEF Receives
  <2>2. r \in Record /\ r.id \notin LoggedIDs
    BY <2>1 DEF Record, NextID, RecoveryInv
  <2>3. Line(r) \in Record /\ Line(r).id \notin LoggedIDs
    BY <2>2, Lined
  <2>4. clock' = clock
    BY <2>1 DEF Store
  <2>. QED
    BY <1>1, <2>1, <2>3, <2>4 DEF RecoveryInv
<1>3. ASSUME NEW m \in ImportInputs, NEW at \in 0 .. MaxTime, Imports(m, at)
      PROVE  /\ clock' \in 0 .. MaxTime
             /\ Filed(archive', lost') /\ Log \subseteq Log'
             /\ \A x \in Log' \ Log : \A q \in Log : x.id # q.id
  <2>1. PICK id, source, r :
           /\ id \in NextID /\ source \in 0 .. Sources - 1
           /\ r = [id |-> id, input |-> m, at |-> at, source |-> source, import |-> TRUE,
                  whole |-> TRUE]
           /\ Store("import", Line(r))
    BY <1>3 DEF Imports
  <2>2. r \in Record /\ r.id \notin LoggedIDs
    BY <2>1 DEF Record, NextID
  <2>3. Line(r) \in Record /\ Line(r).id \notin LoggedIDs
    BY <2>2, Lined
  <2>4. clock' = clock
    BY <2>1 DEF Store
  <2>. QED
    BY <1>1, <2>1, <2>3, <2>4 DEF RecoveryInv
<1>4. ASSUME NEW f \in Files, Replaced(f)
      PROVE  clock' = clock /\ Filed(archive', lost') /\ Log' = Log
  <2>0. archive[f] \in Seq(Record) /\ lost[f] \in Seq(Record)
    BY DEF RecoveryInv, Filed
  <2>00. Distinct(archive[f]) /\ Distinct(lost[f]) /\ Apart(archive[f], lost[f])
    BY DEF RecoveryInv, Filed
  <2>1. ASSUME NEW n \in 0 .. Len(archive[f]) - 1,
               archive' = [archive EXCEPT ![f] = SubSeq(@, 1, n)],
               lost' = [lost EXCEPT ![f] = @ \o SubSeq(archive[f], n + 1, Len(archive[f]))]
        PROVE  Filed(archive', lost') /\ RecordsIn(archive', lost') = RecordsIn(archive, lost)
    <3>. DEFINE u == SubSeq(archive[f], 1, n)
                w == SubSeq(archive[f], n + 1, Len(archive[f]))
                v == lost[f] \o w
    <3>1. /\ u \in Seq(Record) /\ w \in Seq(Record)
          /\ ToSet(u) \cup ToSet(w) = ToSet(archive[f])
          /\ Distinct(u) /\ Distinct(w) /\ Apart(u, w)
      BY <2>0, <2>00, CutElements
    <3>2. archive' = Divided(archive, f, u) /\ lost' = Divided(lost, f, v)
      BY <2>1 DEF Divided
    <3>. HIDE DEF u, w
    <3>3. Apart(lost[f], w) /\ Apart(u, lost[f])
      BY <2>00, <3>1 DEF Apart
    <3>4. v \in Seq(Record) /\ ToSet(v) = ToSet(lost[f]) \cup ToSet(w) /\ Distinct(v)
      BY <2>0, <2>00, <3>1, <3>3, ConcatElements
    <3>. HIDE DEF v
    <3>5. ToSet(u) \cup ToSet(v) = ToSet(archive[f]) \cup ToSet(lost[f]) /\ Apart(u, v)
      BY <3>1, <3>3, <3>4 DEF Apart
    <3>. QED
      BY <1>0, <1>4, <3>1, <3>2, <3>4, <3>5, FiledDivided
  <2>2. ASSUME archive' = [archive EXCEPT ![f] = lost[f] \o @], lost' = [lost EXCEPT ![f] = <<>>]
        PROVE  Filed(archive', lost') /\ RecordsIn(archive', lost') = RecordsIn(archive, lost)
    <3>. DEFINE u == lost[f] \o archive[f]
    <3>1. Apart(lost[f], archive[f])
      BY <2>00 DEF Apart
    <3>2. u \in Seq(Record) /\ ToSet(u) = ToSet(lost[f]) \cup ToSet(archive[f]) /\ Distinct(u)
      BY <2>0, <2>00, <3>1, ConcatElements
    <3>. HIDE DEF u
    <3>3. PICK e : e = <<>>
      OBVIOUS
    <3>4. e \in Seq(Record) /\ ToSet(e) = {} /\ Distinct(e)
      BY <3>3 DEF ToSet, Distinct
    <3>5. Apart(u, e) /\ ToSet(u) \cup ToSet(e) = ToSet(archive[f]) \cup ToSet(lost[f])
      BY <3>2, <3>4 DEF Apart
    <3>6. archive' = Divided(archive, f, u) /\ lost' = Divided(lost, f, e)
      BY <2>2, <3>3 DEF Divided, u
    <3>. QED
      BY <1>0, <1>4, <3>2, <3>4, <3>5, <3>6, FiledDivided
  <2>. QED
    BY <1>4, <2>1, <2>2, LogNames DEF Replaced
<1>5. CASE TimePasses
  <2>1. clock' \in 0 .. MaxTime
    BY <1>5, BoundsAssumption DEF TimePasses, RecoveryInv
  <2>2. UNCHANGED <<archive, lost>>
    BY <1>5 DEF TimePasses
  <2>. QED
    BY <2>1, <2>2, LogNames DEF RecoveryInv
<1>6. CASE UNCHANGED <<archive, lost, clock>>
  BY <1>6, LogNames DEF RecoveryInv
<1>7. \/ \E m \in Inputs : Receives(m)
      \/ \E m \in ImportInputs, at \in 0 .. MaxTime : Imports(m, at)
      \/ \E f \in Files : Replaced(f)
      \/ TimePasses
      \/ UNCHANGED <<archive, lost, clock>>
  BY DEF WorkerNext, WorkerStep, AppendCut, VisitFails, Publish, Woken, Periodic, EverySecond,
     StartUp, VisitFile,
         PartitionChanged, AllVisited, BeginRebuild, ApplyRecord, EngineStep, Checkpoint,
         Rebuild, TickChanges, TickSaved, TickChangesNothing, Sends, GivesUp, MarkJob,
         DispatchDone, Crash, allVars, workerVars
<1>. QED
  BY <1>2, <1>3, <1>4, <1>5, <1>6, <1>7 DEF RecoveryInv

(* What lies past a cursor in a file that begins with it was not claimed.  *)
LEMMA VisitReads ==
    ASSUME Filed(archive, lost), NEW f \in Files, NEW c, Reads(Log, c), Intact(c[f], f),
           NEW d, d = [c EXCEPT ![f] = IDs(f)]
    PROVE  LET past == {n \in Len(c[f]) + 1 .. Len(archive[f]) : Supported(archive[f][n].input)}
               new == {archive[f][n].id : n \in past}
           IN  /\ Reads(Log, d)
               /\ ClaimedIn(Log, d) = ClaimedIn(Log, c) \cup new
               /\ ClaimedIn(Log, c) \cap new = {}
               /\ \A n \in past : archive[f][n] \in Log
               /\ \A m, n \in past : archive[f][m].id = archive[f][n].id => m = n
<1>. DEFINE past == {n \in Len(c[f]) + 1 .. Len(archive[f]) : Supported(archive[f][n].input)}
            new == {archive[f][n].id : n \in past}
            s == archive[f]
<1>1. /\ s \in Seq(Record) /\ Len(s) \in Nat
      /\ \A n \in 1 .. Len(s) : s[n] \in Record /\ s[n] \in ToSet(s)
  <2>1. s \in Seq(Record)
    BY DEF Filed
  <2>. QED
    BY <2>1, ElementsOf
<1>2. /\ c \in [Files -> Seq(MsgIDs)] /\ Len(c[f]) \in Nat
      /\ \A n \in 1 .. Len(c[f]) : n \in 1 .. Len(s) /\ s[n].id = c[f][n]
  <2>1. c \in [Files -> Seq(MsgIDs)]
    BY DEF Reads
  <2>2. Len(c[f]) \in Nat
    BY <2>1
  <2>3. Len(c[f]) <= Len(s) /\ \A n \in 1 .. Len(c[f]) : IDs(f)[n] = c[f][n]
    BY DEF Intact
  <2>4. \A n \in 1 .. Len(c[f]) : n \in 1 .. Len(s)
    BY <1>1, <2>2, <2>3
  <2>5. \A n \in 1 .. Len(s) : IDs(f)[n] = s[n].id
    BY DEF IDs
  <2>. QED
    BY <2>1, <2>2, <2>3, <2>4, <2>5
<1>3. /\ IDs(f) \in Seq(MsgIDs) /\ Len(IDs(f)) = Len(s)
      /\ \A n \in 1 .. Len(s) : IDs(f)[n] = s[n].id
  <2>1. \A n \in 1 .. Len(s) : s[n].id \in MsgIDs
    BY <1>1 DEF Record
  <2>. QED
    BY <1>1, <2>1 DEF IDs
<1>4. d \in [Files -> Seq(MsgIDs)] /\ d[f] = IDs(f) /\ \A g \in Files : g # f => d[g] = c[g]
  BY <1>2, <1>3
<1>5. \A n \in 1 .. Len(s) : s[n] \in Log /\ FileOf(s[n]) = f
  <2>1. \A x \in ToSet(s) : x \in Log /\ FileOf(x) = f
    BY LogNames, RecordsMember DEF Filed, Home
  <2>. QED
    BY <1>1, <2>1
<1>6. Reads(Log, d)
  <2>1. ASSUME NEW g \in Files, NEW n \in 1 .. Len(d[g])
        PROVE  \E r \in Log : r.id = d[g][n] /\ FileOf(r) = g
    <3>1. CASE g = f
      BY <1>3, <1>4, <1>5, <2>1, <3>1
    <3>2. CASE g # f
      BY <1>4, <2>1, <3>2 DEF Reads
    <3>. QED
      BY <3>1, <3>2
  <2>. QED
    BY <1>4, <2>1 DEF Reads
<1>7. \A x, y \in Log : x.id = y.id => x = y
  BY LogNames DEF Filed
<1>8. \A m, n \in 1 .. Len(s) : s[m].id = s[n].id => m = n
  BY DEF Filed, Distinct
<1>9. \A n \in past : n \in 1 .. Len(s) /\ ~(n <= Len(c[f])) /\ Supported(s[n].input)
  BY <1>1, <1>2
<1>10. \A n \in 1 .. Len(s) : Supported(s[n].input) => n \in past \/ n \in 1 .. Len(c[f])
  BY <1>1, <1>2
<1>. HIDE DEF past
<1>11. ASSUME NEW g \in Files, NEW x
       PROVE  x \in ToSet(c[g]) <=> \E n \in 1 .. Len(c[g]) : x = c[g][n]
  <2>1. c[g] \in Seq(MsgIDs)
    BY <1>2
  <2>. QED
    BY <2>1, ElementsOf
<1>12. \A x : x \in ToSet(d[f]) <=> \E n \in 1 .. Len(s) : x = s[n].id
  <2>1. \A x : x \in ToSet(IDs(f)) <=> \E n \in 1 .. Len(IDs(f)) : x = IDs(f)[n]
    BY <1>3, ElementsOf
  <2>. QED
    BY <1>3, <1>4, <2>1
<1>13. ASSUME NEW x \in ClaimedIn(Log, d) PROVE x \in ClaimedIn(Log, c) \cup new
  <2>1. PICK r \in Log, g \in Files : Supported(r.input) /\ r.id = x /\ r.id \in ToSet(d[g])
    BY <1>13 DEF ClaimedIn
  <2>2. CASE g # f
    BY <1>4, <2>1, <2>2 DEF ClaimedIn
  <2>3. CASE g = f
    <3>1. PICK n \in 1 .. Len(s) : r.id = s[n].id
      BY <1>12, <2>1, <2>3
    <3>2. r = s[n]
      BY <1>5, <1>7, <2>1, <3>1
    <3>3. CASE n \in past
      BY <2>1, <3>1, <3>3
    <3>4. CASE n \in 1 .. Len(c[f])
      <4>1. r.id \in ToSet(c[f])
        BY <1>2, <1>11, <3>1, <3>4
      <4>. QED
        BY <2>1, <4>1 DEF ClaimedIn
    <3>. QED
      BY <1>10, <2>1, <3>2, <3>3, <3>4
  <2>. QED
    BY <2>2, <2>3
<1>14. ASSUME NEW x \in ClaimedIn(Log, c) PROVE x \in ClaimedIn(Log, d)
  <2>1. PICK r \in Log, g \in Files : Supported(r.input) /\ r.id = x /\ r.id \in ToSet(c[g])
    BY <1>14 DEF ClaimedIn
  <2>2. r.id \in ToSet(d[g])
    <3>1. CASE g # f
      BY <1>4, <2>1, <3>1
    <3>2. CASE g = f
      BY <1>2, <1>11, <1>12, <2>1, <3>2
    <3>. QED
      BY <3>1, <3>2
  <2>. QED
    BY <2>1, <2>2 DEF ClaimedIn
<1>15. ASSUME NEW n \in past PROVE s[n].id \in ClaimedIn(Log, d) /\ s[n].id \notin ClaimedIn(Log, c)
  <2>1. s[n] \in Log /\ Supported(s[n].input) /\ s[n].id \in ToSet(d[f]) /\ n \in 1 .. Len(s)
    BY <1>5, <1>9, <1>12
  <2>2. ASSUME NEW r \in Log, NEW g \in Files, r.id \in ToSet(c[g]), r.id = s[n].id PROVE FALSE
    <3>1. PICK m \in 1 .. Len(c[g]) : r.id = c[g][m]
      BY <1>11, <2>2
    <3>2. PICK q \in Log : q.id = c[g][m] /\ FileOf(q) = g
      BY <3>1 DEF Reads
    <3>3. q = s[n]
      BY <1>7, <2>1, <2>2, <3>1, <3>2
    <3>4. g = f
      BY <1>5, <2>1, <3>2, <3>3
    <3>5. m \in 1 .. Len(s) /\ s[m].id = s[n].id /\ m <= Len(c[f])
      BY <1>2, <2>2, <3>1, <3>4
    <3>6. m = n
      BY <1>8, <2>1, <3>5
    <3>. QED
      BY <1>9, <3>5, <3>6
  <2>. QED
    BY <2>1, <2>2 DEF ClaimedIn
<1>16. ClaimedIn(Log, d) = ClaimedIn(Log, c) \cup new /\ ClaimedIn(Log, c) \cap new = {}
  BY <1>13, <1>14, <1>15
<1>17. /\ \A n \in past : s[n] \in Log
       /\ \A m, n \in past : s[m].id = s[n].id => m = n
  BY <1>5, <1>8, <1>9
<1>. QED
  BY <1>6, <1>16, <1>17 DEF past

-----------------------------------------------------------------------------
(* Steps that touch neither the worker nor what it has read.               *)
LEMMA RecoveryOutside ==
    ASSUME RecoveryInv, WorkerNext \/ UNCHANGED allVars,
           UNCHANGED <<worker, progress, disk, observed>>
    PROVE  RecoveryInv'
<1>1. /\ clock' \in 0 .. MaxTime /\ Filed(archive', lost') /\ Log \subseteq Log'
      /\ \A r \in Log' \ Log : \A q \in Log : r.id # q.id
  BY LogGrows
<1>2. \A c : Reads(Log, c) => Reads(Log', c) /\ ClaimedIn(Log', c) = ClaimedIn(Log, c)
  BY <1>1, GrowthKeepsClaims
<1>3. CursorsInv'
  BY <1>2 DEF RecoveryInv, CursorsInv
<1>4. BatchInv'
  BY <1>1 DEF RecoveryInv, BatchInv
<1>5. /\ Claimed(worker.next)' = Claimed(worker.next)
      /\ Claimed(progress.cursors)' = Claimed(progress.cursors)
      /\ Claimed(disk.progress.cursors)' = Claimed(disk.progress.cursors)
  BY <1>2, LogNames DEF RecoveryInv, CursorsInv
<1>6. BatchIDs' = BatchIDs
  BY DEF BatchIDs
<1>7. ClaimsInv'
  BY <1>5, <1>6 DEF RecoveryInv, ClaimsInv
<1>. QED
  BY <1>1, <1>3, <1>4, <1>7 DEF RecoveryInv

(* Steps outside of a reading, which may save what is in memory.           *)
LEMMA RecoveryResting ==
    ASSUME RecoveryInv, UNCHANGED <<archive, lost, clock, observed, progress>>,
           worker.pc # "apply", worker'.pc \notin {"visit", "apply"},
           worker'.batch = {}, worker'.next \in {worker.next, NotStarted},
           disk' = disk \/ (disk'.progress = progress /\ disk'.observed = observed)
    PROVE  RecoveryInv'
<1>1. Log' = Log
  BY LogNames
<1>2. CursorsInv'
  BY <1>1, NotStartedClaims DEF RecoveryInv, CursorsInv
<1>3. BatchInv'
  BY DEF BatchInv
<1>4. /\ Claimed(progress.cursors)' = Claimed(progress.cursors)
      /\ \/ disk' = disk /\ Claimed(disk.progress.cursors)' = Claimed(disk.progress.cursors)
         \/ /\ disk'.observed = observed
            /\ Claimed(disk.progress.cursors)' = Claimed(progress.cursors)
  BY <1>1, LogNames
<1>5. ClaimsInv'
  BY <1>4 DEF RecoveryInv, ClaimsInv
<1>. QED
  BY <1>2, <1>3, <1>5 DEF RecoveryInv

(* The batch has been applied: what the new cursors claim is observed.     *)
LEMMA RecoveryApplied ==
    ASSUME RecoveryInv, Applied, UNCHANGED <<archive, lost, clock, observed>>,
           progress'.cursors = worker.next, worker'.pc \notin {"visit", "apply"},
           worker'.batch = {}, worker'.next \in {worker.next, NotStarted},
           disk' = disk \/ (disk'.progress = progress' /\ disk'.observed = observed)
    PROVE  RecoveryInv'
<1>1. Log' = Log
  BY LogNames
<1>2. CursorsInv'
  BY <1>1, NotStartedClaims DEF RecoveryInv, CursorsInv
<1>3. BatchInv'
  BY DEF BatchInv
<1>4. observed = Claimed(worker.next)
  BY DEF Applied, RecoveryInv, ClaimsInv, BatchIDs
<1>5. /\ Claimed(progress.cursors)' = Claimed(worker.next)
      /\ \/ disk' = disk /\ Claimed(disk.progress.cursors)' = Claimed(disk.progress.cursors)
         \/ /\ disk'.observed = observed
            /\ Claimed(disk.progress.cursors)' = Claimed(worker.next)
  BY <1>1, LogNames
<1>6. ClaimsInv'
  BY <1>4, <1>5 DEF RecoveryInv, ClaimsInv
<1>. QED
  BY <1>2, <1>3, <1>6 DEF RecoveryInv

(* Steps of a reading: memory and disk stay as they are.                   *)
LEMMA RecoveryReading ==
    ASSUME RecoveryInv, UNCHANGED <<archive, lost, clock, progress, disk>>,
           Reads(Log, worker'.next), worker'.pc \in {"visit", "apply"},
           \A p \in worker'.batch : p.record \in Log,
           \A p, q \in worker'.batch : p.record.id = q.record.id => p = q,
           worker'.pc = "visit" => worker.pc # "apply" /\ observed' = observed,
           (worker'.pc = "visit" /\ worker'.changed = NoFile) \/ worker'.pc = "apply" =>
              /\ observed' \cup BatchIDs' = ClaimedIn(Log, worker'.next)
              /\ observed' \cap BatchIDs' = {},
           worker'.pc = "visit" /\ worker'.changed # NoFile =>
              BatchIDs' = ClaimedIn(Log, worker'.next)
    PROVE  RecoveryInv'
<1>1. Log' = Log
  BY LogNames
<1>2. CursorsInv'
  BY <1>1 DEF RecoveryInv, CursorsInv
<1>3. BatchInv'
  BY <1>1 DEF BatchInv
<1>4. /\ Claimed(progress.cursors)' = Claimed(progress.cursors)
      /\ Claimed(disk.progress.cursors)' = Claimed(disk.progress.cursors)
      /\ Claimed(worker.next)' = ClaimedIn(Log, worker'.next)
  BY <1>1, LogNames
<1>5. ClaimsInv'
  BY <1>4 DEF RecoveryInv, ClaimsInv
<1>. QED
  BY <1>2, <1>3, <1>5 DEF RecoveryInv

(* The files are listed, read and, if one changed, read again.             *)
LEMMA RecoveryVisits ==
    ASSUME RecoveryInv, OutboxInv,
           \/ StartUp \/ Woken \/ Periodic
           \/ \E f \in Files : VisitFile(f) \/ PartitionChanged(f)
           \/ AllVisited
           \/ BeginRebuild
    PROVE  RecoveryInv'
<1>0. DOMAIN worker = WorkerFields
  BY DEF OutboxInv, Shapes
<1>1. UNCHANGED <<archive, lost, clock, progress, disk>>
  BY DEF StartUp, Woken, Periodic, VisitFile, PartitionChanged, AllVisited, BeginRebuild
<1>2. CASE StartUp \/ Woken \/ Periodic
  <2>1. StartReconcile /\ observed' = observed /\ worker.pc # "apply" /\ worker.pc # "visit"
    BY <1>2 DEF StartUp, Woken, Periodic, vars
  <2>2. /\ worker'.pc = "visit" /\ worker'.next = progress.cursors
        /\ worker'.changed = NoFile /\ worker'.batch = {}
    BY <2>1 DEF StartReconcile, Resting
  <2>3. BatchIDs' = {}
    BY <2>2 DEF BatchIDs
  <2>4. observed = ClaimedIn(Log, progress.cursors)
    BY <2>1, LogNames DEF RecoveryInv, ClaimsInv
  <2>. QED
    BY <1>1, <2>1, <2>2, <2>3, <2>4, RecoveryReading DEF RecoveryInv, CursorsInv
<1>3. ASSUME NEW f \in Files, VisitFile(f) PROVE RecoveryInv'
  <2>1. /\ worker.pc = "visit" /\ Intact(worker.next[f], f) /\ observed' = observed
        /\ worker'.pc = "visit" /\ worker'.changed = worker.changed
        /\ worker'.batch = worker.batch \cup Unread(f)
        /\ worker'.next = [worker.next EXCEPT ![f] = IDs(f)]
    BY <1>0, <1>3 DEF VisitFile, Visiting, WorkerFields, vars
  <2>. DEFINE past == {n \in Len(worker.next[f]) + 1 .. Len(archive[f]) :
                          Supported(archive[f][n].input)}
              new == {archive[f][n].id : n \in past}
  <2>2. /\ Reads(Log, worker'.next)
        /\ ClaimedIn(Log, worker'.next) = ClaimedIn(Log, worker.next) \cup new
        /\ ClaimedIn(Log, worker.next) \cap new = {}
        /\ \A n \in past : archive[f][n] \in Log
        /\ \A m, n \in past : archive[f][m].id = archive[f][n].id => m = n
    BY <2>1, VisitReads DEF RecoveryInv, CursorsInv
  <2>3. Unread(f) = {[file |-> f, offset |-> n, record |-> archive[f][n]] : n \in past}
    BY DEF Unread
  <2>. HIDE DEF past
  <2>4. /\ \A p \in Unread(f) : p.record \in Log /\ p.record.id \in new
        /\ \A p, q \in Unread(f) : p.record.id = q.record.id => p = q
        /\ {p.record.id : p \in Unread(f)} = new
    <3>1. ASSUME NEW p \in Unread(f)
          PROVE  \E n \in past : p = [file |-> f, offset |-> n, record |-> archive[f][n]]
      BY <2>3
    <3>2. ASSUME NEW n \in past
          PROVE  \E p \in Unread(f) : p.record = archive[f][n]
      <4>1. [file |-> f, offset |-> n, record |-> archive[f][n]] \in Unread(f)
        BY <2>3
      <4>. QED
        BY <4>1
    <3>3. ASSUME NEW p \in Unread(f), NEW q \in Unread(f), p.record.id = q.record.id
          PROVE  p = q
      <4>1. PICK m \in past : p = [file |-> f, offset |-> m, record |-> archive[f][m]]
        BY <3>1
      <4>2. PICK n \in past : q = [file |-> f, offset |-> n, record |-> archive[f][n]]
        BY <3>1
      <4>3. m = n
        BY <2>2, <3>3, <4>1, <4>2
      <4>. QED
        BY <4>1, <4>2, <4>3
    <3>4. ASSUME NEW p \in Unread(f) PROVE p.record \in Log /\ p.record.id \in new
      BY <2>2, <3>1
    <3>. QED
      BY <3>2, <3>3, <3>4
  <2>5. BatchIDs \subseteq ClaimedIn(Log, worker.next)
    BY <2>1, LogNames DEF RecoveryInv, ClaimsInv
  <2>. HIDE DEF new
  <2>6. BatchIDs' = BatchIDs \cup new
    BY <2>1, <2>4 DEF BatchIDs
  <2>7. \A p \in worker'.batch : p.record \in Log
    BY <2>1, <2>4 DEF RecoveryInv, BatchInv
  <2>8. \A p \in worker.batch, q \in Unread(f) : p.record.id # q.record.id
    BY <2>2, <2>4, <2>5 DEF BatchIDs
  <2>9. \A p, q \in worker'.batch : p.record.id = q.record.id => p = q
    BY <2>1, <2>4, <2>8 DEF RecoveryInv, BatchInv
  <2>10. worker.changed = NoFile =>
            /\ observed \cup BatchIDs = ClaimedIn(Log, worker.next)
            /\ observed \cap BatchIDs = {}
    BY <2>1, LogNames DEF RecoveryInv, ClaimsInv
  <2>11. worker.changed # NoFile => BatchIDs = ClaimedIn(Log, worker.next)
    BY <2>1, LogNames DEF RecoveryInv, ClaimsInv
  <2>. QED
    BY <1>1, <2>1, <2>2, <2>6, <2>7, <2>9, <2>10, <2>11, RecoveryReading
<1>4. ASSUME NEW f \in Files, PartitionChanged(f) PROVE RecoveryInv'
  <2>1. /\ worker.pc = "visit" /\ observed' = observed
        /\ worker'.pc = "visit" /\ worker'.changed = f
        /\ worker'.batch = {} /\ worker'.next = NotStarted
    BY <1>0, <1>4 DEF PartitionChanged, Visiting, WorkerFields, vars
  <2>2. f # NoFile
    BY DEF Files, NoFile
  <2>3. BatchIDs' = {}
    BY <2>1 DEF BatchIDs
  <2>. QED
    BY <1>1, <2>1, <2>2, <2>3, NotStartedClaims, RecoveryReading
<1>5. CASE AllVisited
  <2>1. /\ worker.pc = "visit" /\ worker.changed = NoFile /\ observed' = observed
        /\ worker'.pc = "apply" /\ worker'.changed = worker.changed
        /\ worker'.batch = worker.batch /\ worker'.next = worker.next
    BY <1>0, <1>5 DEF AllVisited, WorkerFields, vars
  <2>2. BatchIDs' = BatchIDs
    BY <2>1 DEF BatchIDs
  <2>3. /\ observed \cup BatchIDs = ClaimedIn(Log, worker.next)
        /\ observed \cap BatchIDs = {}
    BY <2>1, LogNames DEF RecoveryInv, ClaimsInv
  <2>. QED
    BY <1>1, <2>1, <2>2, <2>3, RecoveryReading DEF RecoveryInv, BatchInv, CursorsInv
<1>6. CASE BeginRebuild
  <2>1. /\ worker.pc = "visit" /\ worker.changed # NoFile /\ observed' = {}
        /\ worker'.pc = "apply" /\ worker'.changed = worker.changed
        /\ worker'.batch = worker.batch /\ worker'.next = worker.next
    BY <1>0, <1>6 DEF BeginRebuild, WorkerFields
  <2>2. BatchIDs' = BatchIDs
    BY <2>1 DEF BatchIDs
  <2>3. BatchIDs = ClaimedIn(Log, worker.next)
    BY <2>1, LogNames DEF RecoveryInv, ClaimsInv
  <2>. QED
    BY <1>1, <2>1, <2>2, <2>3, RecoveryReading DEF RecoveryInv, BatchInv, CursorsInv
<1>. QED
  BY <1>2, <1>3, <1>4, <1>5, <1>6

(* A record of the batch is observed.                                      *)
LEMMA RecoveryApplies ==
    ASSUME RecoveryInv, OutboxInv, NEW p \in worker.batch, ApplyRecord(p)
    PROVE  RecoveryInv'
<1>0. DOMAIN worker = WorkerFields
  BY DEF OutboxInv, Shapes
<1>1. UNCHANGED <<archive, lost, clock, progress, disk>>
  BY DEF ApplyRecord
<1>2. /\ worker.pc = "apply" /\ worker'.pc = "apply" /\ worker'.changed = worker.changed
      /\ worker'.batch = worker.batch \ {p} /\ worker'.next = worker.next
  BY <1>0 DEF ApplyRecord, WorkerFields
<1>3. observed' = observed \cup {p.record.id}
  BY DEF ApplyRecord, ObserveIgnored, ObserveSelection, BeginObserve, Receive
<1>4. /\ observed \cup BatchIDs = ClaimedIn(Log, worker.next)
      /\ observed \cap BatchIDs = {}
  BY <1>2, LogNames DEF RecoveryInv, ClaimsInv
<1>5. BatchIDs' = BatchIDs \ {p.record.id} /\ p.record.id \in BatchIDs
  BY <1>2 DEF RecoveryInv, BatchInv, BatchIDs
<1>. QED
  BY <1>1, <1>2, <1>3, <1>4, <1>5, RecoveryReading DEF RecoveryInv, BatchInv, CursorsInv

(* The engine's own steps observe nothing.                                 *)
LEMMA LockedObserves == Locked => UNCHANGED <<cfg, observed, frontier>>
BY DEF Locked, ActivatePrimary, ActivateFallback, Resolve, FinishTick, UpOverruled, Finish,
       StartIncident, FailureConfirmed, RecoveryInterrupted, PhaseConfirmed, FirstOnline,
       FailureCancelled, RecoveryBegins

(* Snapshots hold what was observed.                                       *)
LEMMA SavedObserved ==
    ASSUME NEW p, NEW d
    PROVE  Snapshot(p, d).progress = p /\ Snapshot(p, d).observed = observed
BY DEF Snapshot

(* Ticks, deliveries and their marks.                                      *)
LEMMA DeliversShape ==
    ASSUME RecoveryInv, OutboxInv,
           \/ EverySecond \/ Rests \/ TickChanges \/ TickSaved \/ TickChangesNothing
           \/ \E j \in worker.queue : Sends(j) \/ GivesUp(j)
           \/ \E j \in worker.sending : MarkJob(j)
    PROVE  /\ UNCHANGED <<archive, lost, clock, startedAt, progress, observed>>
           /\ worker.pc # "apply" /\ worker'.pc \notin {"visit", "apply"}
           /\ worker'.batch = {} /\ worker'.next \in {worker.next, NotStarted}
           /\ disk' = disk \/ (disk'.progress = progress /\ disk'.observed = observed)
<1>0. DOMAIN worker = WorkerFields
  BY DEF OutboxInv, Shapes
<1>1. UNCHANGED <<archive, lost, clock, startedAt, progress, observed>>
  BY DEF EverySecond, Rests, DispatchDone, VisitFails, TickChanges, TickSaved, TickChangesNothing,
         Sends, GivesUp, MarkJob, BeginTick, vars
<1>2. worker.pc # "apply"
  BY DEF EverySecond, Rests, DispatchDone, VisitFails, Visiting, TickChanges, TickSaved,
         TickChangesNothing, Sends, GivesUp, MarkJob
<1>3. ASSUME \/ TickChanges \/ TickSaved \/ TickChangesNothing
             \/ \E j \in worker.queue : Sends(j) \/ GivesUp(j)
             \/ \E j \in worker.sending : MarkJob(j)
      PROVE  worker.pc \notin {"visit", "apply"} /\ worker.batch = {}
  BY <1>3 DEF TickChanges, TickSaved, TickChangesNothing, Sends, GivesUp, MarkJob, RecoveryInv,
              BatchInv
<1>4. disk' = disk \/ (disk'.progress = progress /\ disk'.observed = observed)
  <2>1. disk' = disk \/ \E d : disk' = Snapshot(progress, d)
    BY DEF EverySecond, Rests, DispatchDone, VisitFails, TickChanges, TickSaved,
           TickChangesNothing, Sends, GivesUp, MarkJob, SaveFails
  <2>. QED
    BY <2>1, SavedObserved
<1>5. /\ worker'.pc \notin {"visit", "apply"} /\ worker'.batch = {}
      /\ worker'.next \in {worker.next, NotStarted}
  <2>1. CASE EverySecond
    BY <2>1 DEF EverySecond, Resting
  <2>2. CASE Rests
    BY <2>2 DEF Rests, DispatchDone, VisitFails, Resting
  <2>3. CASE TickChanges
    BY <1>0, <1>3, <2>3 DEF TickChanges, WorkerFields
  <2>4. CASE TickSaved \/ TickChangesNothing
    <3>1. worker' = Resting("idle") \/ worker' = StartDispatch(DueJobs(worker.now))
      BY <2>4 DEF TickSaved, TickChangesNothing
    <3>2. CASE worker' = Resting("idle")
      BY <3>2 DEF Resting
    <3>3. CASE worker' = StartDispatch(DueJobs(worker.now))
      BY <1>0, <1>3, <2>4, <3>3 DEF StartDispatch, WorkerFields
    <3>. QED
      BY <3>1, <3>2, <3>3
  <2>5. CASE \E j \in worker.queue : Sends(j) \/ GivesUp(j)
    <3>1. PICK j, result : worker' = Sent(j, result)
      BY <2>5 DEF Sends, SendSucceeds, SendFails, GivesUp
    <3>. QED
      BY <1>0, <1>3, <2>5, <3>1 DEF Sent, WorkerFields
  <2>6. CASE \E j \in worker.sending : MarkJob(j)
    <3>1. \/ worker' = Resting("idle")
          \/ worker' = [worker EXCEPT !.pc = "dispatch", !.sending = {}, !.result = "none"]
      BY <2>6 DEF MarkJob
    <3>2. CASE worker' = Resting("idle")
      BY <3>2 DEF Resting
    <3>3. CASE worker' = [worker EXCEPT !.pc = "dispatch", !.sending = {}, !.result = "none"]
      BY <1>0, <1>3, <2>6, <3>3 DEF WorkerFields
    <3>. QED
      BY <3>1, <3>2, <3>3
  <2>. QED
    BY <2>1, <2>2, <2>3, <2>4, <2>5, <2>6
<1>. QED
  BY <1>1, <1>2, <1>4, <1>5

LEMMA RecoveryDelivers ==
    ASSUME RecoveryInv, OutboxInv,
           \/ EverySecond \/ Rests \/ TickChanges \/ TickSaved \/ TickChangesNothing
           \/ \E j \in worker.queue : Sends(j) \/ GivesUp(j)
           \/ \E j \in worker.sending : MarkJob(j)
    PROVE  RecoveryInv'
  BY DeliversShape, RecoveryResting

(* A checkpoint, or the end of a rebuild.                                  *)
LEMMA CheckpointShape ==
    ASSUME RecoveryInv, OutboxInv, Checkpoint \/ Rebuild
    PROVE  /\ Applied /\ UNCHANGED <<archive, lost, clock, startedAt, observed>>
           /\ progress'.cursors = worker.next /\ progress'.bootstrapped
           /\ worker'.pc \notin {"visit", "apply"} /\ worker'.batch = {}
           /\ worker'.next \in {worker.next, NotStarted}
           /\ disk' = disk \/ (disk'.progress = progress' /\ disk'.observed = observed)
<1>0. DOMAIN worker = WorkerFields
  BY DEF OutboxInv, Shapes
<1>1. Applied /\ UNCHANGED <<archive, lost, clock, startedAt, observed>>
  BY DEF Checkpoint, Rebuild, vars
<1>2. progress' = Progress(worker.next)
  BY DEF Checkpoint, Rebuild
<1>3. progress'.cursors = worker.next /\ progress'.bootstrapped
  BY <1>2 DEF Progress
<1>4. disk' = disk \/ (disk'.progress = progress' /\ disk'.observed = observed)
  <2>1. CASE Checkpoint
    BY <1>2, <2>1, SavedObserved DEF Checkpoint, SaveFails
  <2>2. CASE Rebuild
    <3>1. \/ disk' = disk
          \/ disk' = [trackers |-> trackers', incidents |-> incidents', jobs |-> jobs',
                      progress |-> Progress(worker.next), delivery |-> delivery',
                      observed |-> observed]
      BY <2>2 DEF Rebuild, SaveFails
    <3>. QED
      BY <1>2, <3>1
  <2>. QED
    BY <2>1, <2>2
<1>5. /\ worker'.pc \notin {"visit", "apply"} /\ worker'.batch = {}
      /\ worker'.next \in {worker.next, NotStarted}
  <2>1. \/ worker' = Resting("idle")
        \/ worker' = [worker EXCEPT !.pc = "tick"]
        \/ worker' = [worker EXCEPT !.pc = "tick", !.changed = NoFile, !.previous = {}]
    BY DEF Checkpoint, Rebuild
  <2>2. worker.batch = {}
    BY <1>1 DEF Applied
  <2>3. CASE worker' = Resting("idle")
    BY <2>3 DEF Resting
  <2>4. CASE worker' = [worker EXCEPT !.pc = "tick"]
    BY <1>0, <2>2, <2>4 DEF WorkerFields
  <2>5. CASE worker' = [worker EXCEPT !.pc = "tick", !.changed = NoFile, !.previous = {}]
    BY <1>0, <2>2, <2>5 DEF WorkerFields
  <2>. QED
    BY <2>1, <2>3, <2>4, <2>5
<1>. QED
  BY <1>1, <1>3, <1>4, <1>5

LEMMA RecoveryCheckpoints ==
    ASSUME RecoveryInv, OutboxInv, Checkpoint \/ Rebuild
    PROVE  RecoveryInv'
  BY CheckpointShape, RecoveryApplied

(* A restart takes the checkpoint up where it was saved.                   *)
LEMMA RecoveryCrash ==
    ASSUME RecoveryInv, NEW c \in Configs, Crash(c)
    PROVE  RecoveryInv'
<1>1. /\ UNCHANGED <<archive, lost, clock, disk>> /\ observed' = disk.observed
      /\ progress' = disk.progress /\ worker' = Resting("start")
  BY DEF Crash
<1>2. worker'.pc = "start" /\ worker'.next = NotStarted /\ worker'.batch = {}
  BY <1>1 DEF Resting
<1>3. Log' = Log
  BY <1>1, LogNames
<1>4. CursorsInv'
  BY <1>1, <1>2, <1>3, NotStartedClaims DEF RecoveryInv, CursorsInv
<1>5. BatchInv'
  BY <1>2 DEF BatchInv
<1>6. /\ Claimed(progress.cursors)' = Claimed(disk.progress.cursors)
      /\ Claimed(disk.progress.cursors)' = Claimed(disk.progress.cursors)
  BY <1>1, <1>3, LogNames
<1>7. ClaimsInv'
  BY <1>1, <1>2, <1>6 DEF RecoveryInv, ClaimsInv
<1>. QED
  BY <1>1, <1>4, <1>5, <1>7 DEF RecoveryInv

(* At the start nothing has been read, and the archive may hold a message. *)
LEMMA RecoveryInit == WorkerInit => RecoveryInv
<1>. SUFFICES ASSUME WorkerInit PROVE RecoveryInv
  OBVIOUS
<1>1. clock \in 0 .. MaxTime
  BY BoundsAssumption DEF WorkerInit, FirstStart
<1>2. PICK a : a = [f \in Files |-> <<>>]
  OBVIOUS
<1>3. Filed(a, a) /\ RecordsIn(a, a) = {}
  <2>1. a \in [Files -> Seq(Record)] /\ \A f \in Files : a[f] = <<>>
    BY <1>2
  <2>2. \A f \in Files : ToSet(a[f]) = {} /\ Distinct(a[f])
    BY <2>1 DEF ToSet, Distinct
  <2>3. RecordsIn(a, a) = {}
    BY <2>2 DEF RecordsIn
  <2>. QED
    BY <2>1, <2>2, <2>3 DEF Filed, Apart, Home
<1>4. lost = a
  BY <1>2 DEF WorkerInit
<1>5. Filed(archive, lost)
  <2>1. CASE archive = a
    BY <1>3, <1>4, <2>1
  <2>2. ASSUME NEW m \in Inputs,
               archive = [f \in Files |->
                  IF f = 0 THEN <<[id |-> 1, input |-> m, at |-> 0, source |-> 0,
                                   import |-> FALSE, whole |-> TRUE]>> ELSE <<>>]
        PROVE  Filed(archive, lost)
    <3>. DEFINE r == [id |-> 1, input |-> m, at |-> 0, source |-> 0, import |-> FALSE, whole |-> TRUE]
    <3>1. r \in Record
      BY BoundsAssumption, DayAssumption DEF Record, MsgIDs
    <3>2. FileOf(r) = 0
      <4>1. 0 \div DayLength = 0 /\ Sources * 0 = 0
        BY DayAssumption
      <4>. QED
        BY <4>1, DayAssumption DEF FileOf
    <3>3. archive = [f \in Files |-> IF f = 0 THEN <<r>> ELSE <<>>]
      BY <2>2
    <3>4. [a EXCEPT ![0] = Append(@, r)] = [f \in Files |-> IF f = 0 THEN <<r>> ELSE <<>>]
      <4>1. Append(<<>>, r) = <<r>>
        OBVIOUS
      <4>. QED
        BY <1>2, <4>1
    <3>6. archive = Appended(a, r)
      BY <3>2, <3>3, <3>4 DEF Appended
    <3>. HIDE DEF r
    <3>. QED
      BY <1>3, <1>4, <3>1, <3>6, FiledAppend
  <2>. QED
    BY <1>2, <2>1, <2>2 DEF WorkerInit
<1>6. worker = Resting("start") /\ progress.cursors = NotStarted /\ observed = {}
  BY DEF WorkerInit, Init
<1>7. disk.progress = progress /\ disk.observed = observed
  BY SavedObserved DEF WorkerInit
<1>8. worker.pc = "start" /\ worker.next = NotStarted /\ worker.batch = {}
  BY <1>6 DEF Resting
<1>9. CursorsInv
  BY <1>6, <1>7, <1>8, NotStartedClaims DEF CursorsInv
<1>10. BatchInv
  BY <1>8 DEF BatchInv
<1>11. ClaimsInv
  <2>1. Claimed(NotStarted) = {}
    BY LogNames, NotStartedClaims
  <2>. QED
    BY <1>6, <1>7, <1>8, <2>1 DEF ClaimsInv
<1>. QED
  BY <1>1, <1>5, <1>9, <1>10, <1>11 DEF RecoveryInv

(* Every step keeps what the cursors claim and what was observed together. *)
LEMMA RecoveryNext ==
    ASSUME RecoveryInv, OutboxInv, WorkerNext \/ UNCHANGED allVars
    PROVE  RecoveryInv'
<1>1. CASE \/ \E m \in Inputs : Receives(m)
           \/ \E m \in ImportInputs, at \in 0 .. MaxTime : Imports(m, at)
           \/ \E writer \in {"syslog", "import"} : Publish(writer)
           \/ \E f \in Files : AppendCut(f) \/ Replaced(f)
           \/ TimePasses
           \/ EngineStep
           \/ UNCHANGED allVars
  <2>1. UNCHANGED <<worker, progress, disk, observed>>
    BY <1>1, LockedObserves DEF Receives, Imports, Store, Publish, AppendCut, Replaced, TimePasses,
       EngineStep, allVars, vars, workerVars
  <2>. QED
    BY <2>1, RecoveryOutside
<1>. QED
  BY <1>1, RecoveryVisits, RecoveryApplies, RecoveryDelivers, RecoveryCheckpoints,
     RecoveryCrash DEF WorkerNext, WorkerStep, Rests

(* A saved checkpoint claims exactly the records its state was derived     *)
(* from, and nothing is observed twice: for any number of messages, files, *)
(* crashes, failing saves, truncations and restored backups, wherever they *)
(* fall between the steps of the worker.                                   *)
THEOREM CheckpointsExact == WorkerSpec => []CheckpointExact
<1>1. WorkerInit => RecoveryInv /\ OutboxInv
  BY RecoveryInit, OutboxInit
<1>2. RecoveryInv /\ OutboxInv /\ [WorkerNext]_allVars => (RecoveryInv /\ OutboxInv)'
  BY RecoveryNext, OutboxNext
<1>3. RecoveryInv => CheckpointExact
  BY DEF RecoveryInv, ClaimsInv, CheckpointExact, BatchIDs
<1>. QED
  BY <1>1, <1>2, <1>3, PTL DEF WorkerSpec

-----------------------------------------------------------------------------
(* The type of the state, and where jobs are known.                        *)

Steps == {"start", "idle", "visit", "apply", "tick", "ticking", "dispatch", "mark"}

ProgressType == [cursors : [Files -> Seq(MsgIDs)], bootstrapped : BOOLEAN, checkpointAt : OptTime]

TypedInv ==
    /\ publishing \subseteq {"syslog", "import"}
    /\ wake \in BOOLEAN
    /\ worker.now \in Nat
    /\ worker.pc \in Steps
    /\ worker.previous # {} => worker.pc = "apply" /\ worker.changed # NoFile
    /\ progress \in ProgressType
    /\ disk.progress \in ProgressType
    /\ worker.previous = {} => DOMAIN delivery \subseteq DOMAIN jobs
    /\ DOMAIN disk.delivery \subseteq DOMAIN disk.jobs
    /\ worker.queue \cup worker.sending \subseteq DOMAIN jobs
    /\ worker.pc = "mark" <=> worker.sending # {}

(* The engine only adds jobs.                                              *)
LEMMA LockedJobs == Locked => DOMAIN jobs \subseteq DOMAIN jobs'
<1>1. \A ids, at : DOMAIN Enqueue(ids, at) = DOMAIN jobs \cup ids
  BY DEF Enqueue
<1>2. ASSUME NEW k \in Keys, ActivatePrimary(k) \/ ActivateFallback(k) \/ Resolve(k)
      PROVE  DOMAIN jobs \subseteq DOMAIN jobs'
  <2>1. CASE ActivatePrimary(k)
    <3>1. PICK ids, at : jobs' = Enqueue(ids, at)
      BY <2>1 DEF ActivatePrimary
    <3>. QED
      BY <1>1, <3>1
  <2>2. CASE ActivateFallback(k)
    <3>1. jobs' = jobs \/ \E ids, at : jobs' = Enqueue(ids, at)
      BY <2>2 DEF ActivateFallback
    <3>2. ASSUME NEW ids, NEW at, jobs' = Enqueue(ids, at)
          PROVE  DOMAIN jobs \subseteq DOMAIN jobs'
      BY <1>1, <3>2
    <3>. QED
      BY <3>1, <3>2
  <2>3. CASE Resolve(k)
    <3>1. PICK ids, at : jobs' = Enqueue(ids, at)
      BY <2>3 DEF Resolve
    <3>. QED
      BY <1>1, <3>1
  <2>. QED
    BY <1>2, <2>1, <2>2, <2>3
<1>3. FinishTick \/ UpOverruled \/ StartIncident \/ FailureConfirmed => jobs' = jobs
  BY DEF FinishTick, UpOverruled, StartIncident, FailureConfirmed
<1>4. RecoveryInterrupted \/ PhaseConfirmed \/ FirstOnline \/ FailureCancelled
        \/ RecoveryBegins => jobs' = jobs
  BY DEF RecoveryInterrupted, PhaseConfirmed, FirstOnline, FailureCancelled, RecoveryBegins
<1>. QED
  BY <1>2, <1>3, <1>4 DEF Locked

(* What a resting worker holds.                                            *)
LEMMA RestingTyped ==
    ASSUME NEW pc
    PROVE  /\ Resting(pc).pc = pc /\ Resting(pc).now = 0 /\ Resting(pc).previous = {}
           /\ Resting(pc).queue = {} /\ Resting(pc).sending = {}
BY DEF Resting

(* What a snapshot holds.                                                  *)
LEMMA SavedJobs ==
    ASSUME NEW p, NEW d
    PROVE  /\ Snapshot(p, d).progress = p /\ Snapshot(p, d).delivery = d
           /\ Snapshot(p, d).jobs = jobs
BY DEF Snapshot

LEMMA TypedInit == WorkerInit => TypedInv
<1>. SUFFICES ASSUME WorkerInit PROVE TypedInv
  OBVIOUS
<1>1. NotStarted \in [Files -> Seq(MsgIDs)]
  BY DEF NotStarted
<1>2. progress \in ProgressType
  BY <1>1 DEF WorkerInit, ProgressType, OptTime, NoTime
<1>3. disk.progress = progress /\ disk.delivery = delivery /\ disk.jobs = jobs
  BY SavedJobs DEF WorkerInit
<1>4. DOMAIN delivery \subseteq DOMAIN jobs
  BY DEF WorkerInit, Empty
<1>5. worker = Resting("start")
  BY DEF WorkerInit
<1>6. publishing = {} /\ wake = FALSE
  BY DEF WorkerInit
<1>7. /\ worker.pc = "start" /\ worker.now = 0 /\ worker.previous = {}
      /\ worker.queue = {} /\ worker.sending = {}
  BY <1>5, RestingTyped
<1>8. publishing \subseteq {"syslog", "import"} /\ wake \in BOOLEAN
  BY <1>6
<1>. QED
  BY <1>2, <1>3, <1>4, <1>7, <1>8 DEF TypedInv, Steps

(* Steps that leave the worker's own state alone.                          *)
LEMMA TypedOutside ==
    ASSUME TypedInv,
           \/ \E m \in Inputs : Receives(m)
           \/ \E m \in ImportInputs, at \in 0 .. MaxTime : Imports(m, at)
           \/ \E writer \in {"syslog", "import"} : Publish(writer)
           \/ \E f \in Files : AppendCut(f) \/ Replaced(f)
           \/ TimePasses
           \/ EngineStep
           \/ UNCHANGED allVars
    PROVE  TypedInv'
<1>1. UNCHANGED <<worker, progress, delivery, disk>> /\ DOMAIN jobs \subseteq DOMAIN jobs'
  BY LockedJobs DEF Receives, Imports, Store, Publish, AppendCut, Replaced, TimePasses, EngineStep,
     allVars, workerVars, vars
<1>2. publishing \subseteq {"syslog", "import"} /\ wake \in BOOLEAN
  BY DEF TypedInv
<1>3. ASSUME NEW writer \in {"syslog", "import"}, NEW r, Store(writer, r)
      PROVE  publishing' \subseteq {"syslog", "import"} /\ wake' \in BOOLEAN
  BY <1>2, <1>3 DEF Store
<1>4. ASSUME \/ \E m \in Inputs : Receives(m)
             \/ \E m \in ImportInputs, at \in 0 .. MaxTime : Imports(m, at)
      PROVE  publishing' \subseteq {"syslog", "import"} /\ wake' \in BOOLEAN
  BY <1>3, <1>4 DEF Receives, Imports
<1>5. ASSUME NEW writer \in {"syslog", "import"}, Publish(writer)
      PROVE  publishing' \subseteq {"syslog", "import"} /\ wake' \in BOOLEAN
  BY <1>2, <1>5 DEF Publish
<1>6. ASSUME \/ \E f \in Files : AppendCut(f) \/ Replaced(f)
             \/ TimePasses
             \/ EngineStep
             \/ UNCHANGED allVars
      PROVE  publishing' \subseteq {"syslog", "import"} /\ wake' \in BOOLEAN
  <2>1. publishing' = publishing /\ wake' = wake
    BY <1>6 DEF AppendCut, Replaced, TimePasses, EngineStep, allVars, workerVars
  <2>. QED
    BY <1>2, <2>1
<1>7. publishing' \subseteq {"syslog", "import"} /\ wake' \in BOOLEAN
  BY <1>4, <1>5, <1>6
<1>. QED
  BY <1>1, <1>7 DEF TypedInv

(* Steps outside of a reading that rest or go on to the tick.              *)
LEMMA TypedRun ==
    ASSUME TypedInv, OutboxInv, clock \in Nat,
           StartUp \/ Woken \/ Periodic \/ EverySecond \/ Rests
    PROVE  TypedInv'
<1>1. UNCHANGED <<publishing, progress, delivery, disk, jobs>> /\ wake' \in BOOLEAN
  BY DEF TypedInv, StartUp, Woken, Periodic, EverySecond, Rests, DispatchDone, VisitFails, vars
<1>2. worker.previous = {}
  BY DEF TypedInv, StartUp, Woken, Periodic, EverySecond, Rests, DispatchDone, VisitFails, Visiting
<1>3. /\ worker'.now \in Nat /\ worker'.pc \in Steps \ {"mark"} /\ worker'.previous = {}
      /\ worker'.queue = {} /\ worker'.sending = {}
  <2>1. CASE StartReconcile
    BY <2>1 DEF StartReconcile, Resting, Steps
  <2>2. CASE EverySecond
    BY <2>2 DEF EverySecond, Resting, Steps
  <2>3. CASE Rests
    BY <2>3, RestingTyped DEF Rests, DispatchDone, VisitFails, Steps
  <2>. QED
    BY <2>1, <2>2, <2>3 DEF StartUp, Woken, Periodic
<1>. QED
  BY <1>1, <1>2, <1>3 DEF TypedInv

(* Reading the files and applying the batch.                               *)
LEMMA TypedReconcile ==
    ASSUME TypedInv, OutboxInv,
           \/ \E f \in Files : VisitFile(f) \/ PartitionChanged(f)
           \/ AllVisited
           \/ BeginRebuild
           \/ \E p \in worker.batch : ApplyRecord(p)
           \/ TickChanges
    PROVE  TypedInv'
<1>0. DOMAIN worker = WorkerFields
  BY DEF OutboxInv, Shapes
<1>1. UNCHANGED <<publishing, wake, progress, delivery, disk>>
  BY DEF VisitFile, PartitionChanged, AllVisited, BeginRebuild, ApplyRecord, TickChanges
<1>2. worker.queue = {} /\ worker.sending = {}
  BY DEF VisitFile, PartitionChanged, AllVisited, BeginRebuild, ApplyRecord, TickChanges,
         Visiting, OutboxInv, QueueOpen
<1>3. CASE BeginRebuild
  <2>1. /\ worker'.now = worker.now /\ worker'.pc = "apply" /\ worker'.previous # {}
        /\ worker'.queue = worker.queue /\ worker'.sending = worker.sending
        /\ worker'.changed = worker.changed /\ worker.changed # NoFile
    BY <1>0, <1>3 DEF BeginRebuild, WorkerFields
  <2>. QED
    BY <1>1, <1>2, <2>1 DEF TypedInv, Steps
<1>4. CASE ~BeginRebuild
  <2>1. jobs' = jobs
    BY <1>4 DEF VisitFile, PartitionChanged, AllVisited, ApplyRecord, TickChanges, BeginTick,
                ObserveIgnored, ObserveSelection, BeginObserve, vars
  <2>2. /\ worker'.now = worker.now /\ worker'.pc \in Steps \ {"mark"}
        /\ worker'.previous = worker.previous
        /\ worker.previous # {} => worker'.pc = "apply" /\ worker'.changed = worker.changed
        /\ worker'.queue = worker.queue /\ worker'.sending = worker.sending
    <3>1. ASSUME NEW f \in Files, VisitFile(f) \/ PartitionChanged(f)
          PROVE  /\ worker'.now = worker.now /\ worker'.pc = "visit" /\ worker.pc = "visit"
                 /\ worker'.previous = worker.previous
                 /\ worker'.queue = worker.queue /\ worker'.sending = worker.sending
      BY <1>0, <3>1 DEF VisitFile, PartitionChanged, Visiting, WorkerFields
    <3>2. CASE AllVisited
      BY <1>0, <3>2 DEF AllVisited, WorkerFields, TypedInv, Steps
    <3>3. CASE \E p \in worker.batch : ApplyRecord(p)
      BY <1>0, <3>3 DEF ApplyRecord, WorkerFields, Steps
    <3>4. CASE TickChanges
      BY <1>0, <3>4 DEF TickChanges, WorkerFields, TypedInv, Steps
    <3>. QED
      BY <1>4, <3>1, <3>2, <3>3, <3>4 DEF TypedInv, Steps
  <2>. QED
    BY <1>1, <1>2, <2>1, <2>2 DEF TypedInv
<1>. QED
  BY <1>3, <1>4

(* Checkpoints, and the end of a rebuild.                                  *)
LEMMA TypedCheckpoint ==
    ASSUME TypedInv, OutboxInv, CursorsInv, Checkpoint \/ Rebuild
    PROVE  TypedInv'
<1>0. DOMAIN worker = WorkerFields /\ worker.queue = {} /\ worker.sending = {}
  BY DEF Checkpoint, Rebuild, Applied, OutboxInv, Shapes, QueueOpen
<1>1. UNCHANGED <<publishing, wake>> /\ progress' = Progress(worker.next)
  BY DEF Checkpoint, Rebuild
<1>2. progress' \in ProgressType
  <2>1. worker.next \in [Files -> Seq(MsgIDs)] /\ worker.now \in Nat
    BY DEF CursorsInv, Reads, TypedInv
  <2>. QED
    BY <1>1, <2>1 DEF Progress, ProgressType, OptTime
<1>3. /\ worker'.now \in Nat /\ worker'.pc \in Steps \ {"mark"} /\ worker'.previous = {}
      /\ worker'.queue = {} /\ worker'.sending = {}
  <2>1. \/ worker' = Resting("idle")
        \/ worker' = [worker EXCEPT !.pc = "tick"] /\ worker.changed = NoFile
        \/ worker' = [worker EXCEPT !.pc = "tick", !.changed = NoFile, !.previous = {}]
    BY DEF Checkpoint, Rebuild
  <2>2. CASE worker' = Resting("idle")
    BY <2>2, RestingTyped DEF Steps
  <2>3. CASE worker' = [worker EXCEPT !.pc = "tick"] /\ worker.changed = NoFile
    BY <1>0, <2>3 DEF WorkerFields, TypedInv, Steps
  <2>4. CASE worker' = [worker EXCEPT !.pc = "tick", !.changed = NoFile, !.previous = {}]
    BY <1>0, <2>4 DEF WorkerFields, TypedInv, Steps
  <2>. QED
    BY <2>1, <2>2, <2>3, <2>4
<1>4. /\ DOMAIN delivery' \subseteq DOMAIN jobs'
      /\ disk' = disk \/ (disk'.progress = progress' /\ disk'.delivery = delivery'
                          /\ disk'.jobs = jobs')
  <2>1. CASE Checkpoint
    <3>1. UNCHANGED <<delivery, jobs>> /\ worker.previous = {}
      BY <2>1 DEF Checkpoint, vars, TypedInv
    <3>2. disk' = disk \/ disk' = Snapshot(progress', delivery)
      BY <1>1, <2>1 DEF Checkpoint, SaveFails
    <3>. QED
      BY <3>1, <3>2, SavedJobs DEF TypedInv
  <2>2. CASE Rebuild
    <3>1. PICK old \in worker.previous :
             /\ \E first : jobs' = RebuiltJobs(old, RebuiltIncidents(old), first)
             /\ delivery' = RebuiltDelivery(old)
             /\ \/ disk' = [trackers |-> trackers', incidents |-> incidents', jobs |-> jobs',
                            progress |-> Progress(worker.next), delivery |-> delivery',
                            observed |-> observed]
                \/ disk' = disk
      BY <2>2 DEF Rebuild, SaveFails
    <3>2. DOMAIN delivery' \subseteq Carried(old)
      BY <3>1 DEF RebuiltDelivery
    <3>3. Carried(old) \subseteq DOMAIN jobs'
      BY <3>1 DEF RebuiltJobs
    <3>. QED
      BY <1>1, <3>1, <3>2, <3>3
  <2>. QED
    BY <2>1, <2>2
<1>. QED
  BY <1>1, <1>2, <1>3, <1>4 DEF TypedInv

(* Ticks, deliveries and their marks.                                      *)
LEMMA TypedDelivers ==
    ASSUME TypedInv, OutboxInv,
           \/ TickSaved \/ TickChangesNothing
           \/ \E j \in worker.queue : Sends(j) \/ GivesUp(j)
           \/ \E j \in worker.sending : MarkJob(j)
    PROVE  TypedInv'
<1>0. DOMAIN worker = WorkerFields
  BY DEF OutboxInv, Shapes
<1>1. UNCHANGED <<publishing, wake, progress, jobs>>
  BY DEF TickSaved, TickChangesNothing, Sends, GivesUp, MarkJob, vars
<1>2. worker.previous = {} /\ DOMAIN delivery \subseteq DOMAIN jobs
  BY DEF TickSaved, TickChangesNothing, Sends, GivesUp, MarkJob, TypedInv
<1>3. /\ DOMAIN delivery' \subseteq DOMAIN jobs
      /\ disk' = disk \/ (disk'.progress = progress /\ disk'.delivery = delivery'
                          /\ disk'.jobs = jobs)
  <2>1. CASE \E j \in worker.sending : MarkJob(j)
    <3>1. PICK j \in worker.sending : MarkJob(j)
      BY <2>1
    <3>2. j \in DOMAIN jobs
      BY DEF TypedInv
    <3>3. \/ delivery' = delivery /\ disk' = disk
          \/ \E d : delivery' = Deliver(j, d) /\ disk' = Snapshot(progress, delivery')
      BY <3>1 DEF MarkJob, SaveFails
    <3>4. \A d : DOMAIN Deliver(j, d) = DOMAIN delivery \cup {j}
      BY DEF Deliver
    <3>. QED
      BY <1>2, <3>2, <3>3, <3>4, SavedJobs
  <2>2. CASE ~\E j \in worker.sending : MarkJob(j)
    <3>1. UNCHANGED delivery /\ (disk' = disk \/ disk' = Snapshot(progress, delivery))
      BY <2>2 DEF TickSaved, TickChangesNothing, Sends, GivesUp, SaveFails
    <3>. QED
      BY <1>2, <3>1, SavedJobs
  <2>. QED
    BY <2>1, <2>2
<1>4. /\ worker'.now \in Nat /\ worker'.pc \in Steps /\ worker'.previous = {}
      /\ worker'.queue \cup worker'.sending \subseteq DOMAIN jobs
      /\ worker'.pc = "mark" <=> worker'.sending # {}
  <2>1. CASE worker' = Resting("idle")
    BY <2>1, RestingTyped DEF Steps
  <2>2. CASE (TickSaved \/ TickChangesNothing) /\ worker' = StartDispatch(DueJobs(worker.now))
    <3>1. DueJobs(worker.now) \subseteq DOMAIN jobs /\ worker.sending = {}
      BY <2>2 DEF DueJobs, TickSaved, TickChangesNothing, TypedInv
    <3>. QED
      BY <1>0, <1>2, <2>2, <3>1 DEF StartDispatch, WorkerFields, Steps, TypedInv
  <2>3. ASSUME NEW j \in worker.queue, Sends(j) \/ GivesUp(j)
        PROVE  /\ worker'.now \in Nat /\ worker'.pc \in Steps /\ worker'.previous = {}
               /\ worker'.queue \cup worker'.sending \subseteq DOMAIN jobs
               /\ worker'.pc = "mark" <=> worker'.sending # {}
    <3>1. PICK result : worker' = Sent(j, result)
      BY <2>3 DEF Sends, SendSucceeds, SendFails, GivesUp
    <3>2. /\ worker'.now = worker.now /\ worker'.pc = "mark"
          /\ worker'.previous = worker.previous
          /\ worker'.queue = worker.queue \ {j} /\ worker'.sending = {j}
      BY <1>0, <3>1 DEF Sent, WorkerFields
    <3>. QED
      BY <1>2, <3>2 DEF TypedInv, Steps
  <2>4. CASE worker' = [worker EXCEPT !.pc = "dispatch", !.sending = {}, !.result = "none"]
    BY <1>0, <1>2, <2>4 DEF WorkerFields, TypedInv, Steps
  <2>. QED
    BY <2>1, <2>2, <2>3, <2>4 DEF TickSaved, TickChangesNothing, MarkJob
<1>. QED
  BY <1>1, <1>2, <1>3, <1>4 DEF TypedInv

LEMMA TypedCrash ==
    ASSUME TypedInv, NEW c \in Configs, Crash(c)
    PROVE  TypedInv'
<1>1. /\ publishing' = {} /\ wake' = FALSE /\ progress' = disk.progress /\ disk' = disk
      /\ delivery' = disk.delivery /\ jobs' = disk.jobs /\ worker' = Resting("start")
  BY DEF Crash
<1>2. /\ worker'.pc = "start" /\ worker'.now = 0 /\ worker'.previous = {}
      /\ worker'.queue = {} /\ worker'.sending = {}
  BY <1>1, RestingTyped
<1>3. publishing' \subseteq {"syslog", "import"} /\ wake' \in BOOLEAN
  BY <1>1
<1>4. /\ progress' = disk.progress /\ disk' = disk /\ delivery' = disk.delivery
      /\ jobs' = disk.jobs
  BY <1>1
<1>. QED
  BY <1>2, <1>3, <1>4 DEF TypedInv, Steps

(* Every step keeps the types.                                             *)
LEMMA TypedNext ==
    ASSUME TypedInv, OutboxInv, RecoveryInv, WorkerNext \/ UNCHANGED allVars
    PROVE  TypedInv'
<1>1. clock \in Nat /\ CursorsInv
  BY DEF RecoveryInv
<1>. QED
  BY <1>1, TypedOutside, TypedRun, TypedReconcile, TypedCheckpoint, TypedDelivers, TypedCrash
     DEF WorkerNext, WorkerStep, Rests

(* What holds in every instance.                                           *)
SteadyInv == RecoveryInv /\ OutboxInv /\ TypedInv

LEMMA SteadyAlways == WorkerSpec => []SteadyInv
<1>1. WorkerInit => SteadyInv
  BY RecoveryInit, OutboxInit, TypedInit DEF SteadyInv
<1>2. SteadyInv /\ [WorkerNext]_allVars => SteadyInv'
  BY RecoveryNext, OutboxNext, TypedNext DEF SteadyInv
<1>. QED
  BY <1>1, <1>2, PTL DEF WorkerSpec

(* The worker's state has its type: among it that the delivery fields, the *)
(* queue of dispatch and the batch refer to jobs and records that exist.   *)
THEOREM WorkerTypeCorrect == WorkerSpec => []WorkerTypeOK
<1>1. SteadyInv => WorkerTypeOK
  <2>. SUFFICES ASSUME SteadyInv PROVE WorkerTypeOK
    OBVIOUS
  <2>1. \A f \in Files : \A n \in 1 .. Len(archive[f]) : archive[f][n] \in Record
    <3>1. archive \in [Files -> Seq(Record)]
      BY DEF SteadyInv, RecoveryInv, Filed
    <3>. QED
      BY <3>1
  <2>2. {p.record : p \in worker.batch} \subseteq Log
    BY DEF SteadyInv, RecoveryInv, BatchInv
  <2>. QED
    BY <2>1, <2>2 DEF SteadyInv, RecoveryInv, TypedInv, WorkerTypeOK, ProgressType, Steps
<1>. QED
  BY <1>1, SteadyAlways, PTL

-----------------------------------------------------------------------------
(* Where saves work and no file is replaced, memory and disk hold the same *)
(* jobs except while the engine is at work, and nothing is sent then.      *)
DurableInv ==
    /\ faults.save = 0
    /\ worker.pc \notin {"apply", "ticking"} => disk.jobs = jobs
    /\ DOMAIN disk.jobs \subseteq DOMAIN jobs
    /\ DOMAIN accepted \subseteq DOMAIN disk.jobs

(* Each step of the worker, by what it does to the jobs.                   *)
LEMMA DurableNext ==
    ASSUME MaxSaveFailures = 0, MaxReplacements = 0, SteadyInv, Unreplaced, DurableInv,
           WorkerNext \/ UNCHANGED allVars
    PROVE  DurableInv'
<1>0. /\ DOMAIN worker = WorkerFields /\ DOMAIN faults = FaultKinds
      /\ worker.changed = NoFile /\ worker.previous = {}
  BY DEF SteadyInv, OutboxInv, Shapes, Unreplaced
<1>1. ~SaveFails
  BY DEF SaveFails, DurableInv
<1>2. CASE \/ \E m \in Inputs : Receives(m)
           \/ \E m \in ImportInputs, at \in 0 .. MaxTime : Imports(m, at)
           \/ \E writer \in {"syslog", "import"} : Publish(writer)
           \/ \E f \in Files : AppendCut(f)
           \/ TimePasses
           \/ UNCHANGED allVars
  <2>1. UNCHANGED <<worker, disk, jobs, accepted>>
    BY <1>2 DEF Receives, Imports, Store, Publish, AppendCut, TimePasses, allVars, workerVars,
       vars, deliveryVars
  <2>2. faults'.save = faults.save
    BY <1>0, <1>2 DEF Receives, Imports, Store, Publish, AppendCut, TimePasses, allVars,
       workerVars, FaultKinds
  <2>. QED
    BY <2>1, <2>2 DEF DurableInv
<1>3. ASSUME NEW f \in Files, Replaced(f) PROVE FALSE
  BY <1>3 DEF Replaced, SteadyInv, OutboxInv, Shapes, FaultKinds
<1>4. CASE EngineStep
  <2>1. UNCHANGED <<worker, disk, accepted, faults>> /\ worker.pc \in {"apply", "ticking"}
        /\ DOMAIN jobs \subseteq DOMAIN jobs'
    BY <1>4, LockedJobs DEF EngineStep, workerVars
  <2>. QED
    BY <2>1 DEF DurableInv
<1>5. CASE \/ StartUp \/ Woken \/ Periodic \/ EverySecond \/ Rests
           \/ \E f \in Files : VisitFile(f) \/ PartitionChanged(f)
           \/ AllVisited \/ TickChanges \/ TickChangesNothing
           \/ \E p \in worker.batch : ApplyRecord(p)
  <2>1. UNCHANGED <<disk, jobs, accepted>>
    BY <1>5 DEF StartUp, Woken, Periodic, EverySecond, Rests, DispatchDone, VisitFails, VisitFile,
       PartitionChanged, AllVisited, TickChanges, TickChangesNothing, ApplyRecord, BeginTick,
       ObserveIgnored, ObserveSelection, BeginObserve, vars, deliveryVars
  <2>3. faults'.save = faults.save
    BY <1>0, <1>5 DEF StartUp, Woken, Periodic, EverySecond, Rests, DispatchDone, VisitFails,
       VisitFile, PartitionChanged, AllVisited, TickChanges, TickChangesNothing, ApplyRecord,
       FaultKinds
  <2>2. worker.pc \notin {"apply", "ticking"} \/ worker'.pc = "apply"
    BY <1>0, <1>5 DEF StartUp, Woken, Periodic, EverySecond, Rests, DispatchDone, VisitFails,
       VisitFile,
       PartitionChanged, Visiting, AllVisited, TickChanges, TickChangesNothing, ApplyRecord,
       WorkerFields
  <2>. QED
    BY <2>1, <2>2, <2>3 DEF DurableInv
<1>6. BeginRebuild \/ Rebuild => FALSE
  BY <1>0 DEF BeginRebuild, Rebuild
<1>7. CASE Checkpoint \/ TickSaved \/ \E j \in worker.sending : MarkJob(j)
  <2>1. UNCHANGED <<jobs, accepted, faults>> /\ \E p, d : disk' = Snapshot(p, d)
    BY <1>1, <1>7 DEF Checkpoint, TickSaved, MarkJob, vars, deliveryVars
  <2>2. disk'.jobs = jobs
    BY <2>1, SavedJobs
  <2>. QED
    BY <2>1, <2>2 DEF DurableInv
<1>8. ASSUME NEW j \in worker.queue, Sends(j) \/ GivesUp(j)
      PROVE  DurableInv'
  <2>1. UNCHANGED <<disk, jobs>> /\ worker.pc = "dispatch" /\ j \in DOMAIN jobs
    BY <1>8 DEF Sends, GivesUp, vars, SteadyInv, TypedInv
  <2>2. DOMAIN accepted' \subseteq DOMAIN accepted \cup {j}
    BY <1>8, CountedDomain DEF Sends, SendSucceeds, SendFails, GivesUp
  <2>3. faults'.save = faults.save
    BY <1>0, <1>8 DEF Sends, SendSucceeds, SendFails, GivesUp, FaultKinds
  <2>. QED
    BY <2>1, <2>2, <2>3 DEF DurableInv
<1>9. ASSUME NEW c \in Configs, Crash(c)
      PROVE  DurableInv'
  <2>1. UNCHANGED <<disk, accepted>> /\ jobs' = disk.jobs /\ faults'.save = faults.save
    BY <1>0, <1>9 DEF Crash, deliveryVars, FaultKinds
  <2>. QED
    BY <2>1 DEF DurableInv
<1>. QED
  BY <1>2, <1>3, <1>4, <1>5, <1>6, <1>7, <1>8, <1>9 DEF WorkerNext, WorkerStep, Rests

(* As long as saves work and no file is replaced, whatever the service     *)
(* accepted is on disk: dispatch never sends a job that a restart would    *)
(* not know of, although the engine raises jobs in memory first.           *)
THEOREM SentDurably ==
    ASSUME MaxSaveFailures = 0, MaxReplacements = 0
    PROVE  WorkerSpec => []SentIsDurable
<1>. DEFINE Inv == SteadyInv /\ Unreplaced /\ DurableInv
<1>1. WorkerInit => Inv
  <2>. SUFFICES ASSUME WorkerInit PROVE Inv
    OBVIOUS
  <2>1. disk.jobs = jobs /\ DOMAIN accepted = {} /\ faults.save = 0
    BY SavedJobs DEF WorkerInit, Empty
  <2>2. DurableInv
    BY <2>1 DEF DurableInv
  <2>. QED
    BY <2>2, RecoveryInit, OutboxInit, TypedInit, UnreplacedInit DEF SteadyInv
<1>2. Inv /\ [WorkerNext]_allVars => Inv'
  <2>. SUFFICES ASSUME Inv, WorkerNext \/ UNCHANGED allVars PROVE Inv'
    OBVIOUS
  <2>1. KeptInv
    BY DEF KeptInv, SteadyInv
  <2>. QED
    BY <2>1, RecoveryNext, OutboxNext, TypedNext, UnreplacedNext, DurableNext DEF SteadyInv
<1>3. Inv => SentIsDurable
  BY DEF DurableInv, SentIsDurable
<1>. QED
  BY <1>1, <1>2, <1>3, PTL DEF WorkerSpec

-----------------------------------------------------------------------------
(* The third part, the engine inside the worker: what IncidentEngineProofs *)
(* proves of the engine alone also holds where its state is saved, lost    *)
(* with the process, loaded again and rebuilt.                             *)

(* The invariants of the engine, of trackers t, incidents x, jobs q and    *)
(* observed messages o that may be in memory or in a snapshot.             *)

Follows(t, x, k) ==
    IF t[k].phase \in OpenPhases
    THEN /\ t[k].incident \in DOMAIN x
         /\ t[k].incident.host = k[1] /\ t[k].incident.iface = k[2]
         /\ x[t[k].incident].state = t[k].phase
         /\ x[t[k].incident].startedAt = t[k].pendingSince
         /\ x[t[k].incident].recoveryFirstAt = t[k].recoverySince
         /\ x[t[k].incident].notify = t[k].notify
    ELSE Clean(t[k])

Timely(i, x) ==
    /\ x.startedAt = i.at
    /\ x.activatedAt = IF x.state = "pending_failure" THEN NoTime ELSE x.startedAt + x.downAfter
    /\ (x.recoveryFirstAt # NoTime) <=> x.state \in {"pending_recovery", "resolved"}
    /\ x.resolvedAt = IF x.state = "resolved" THEN x.recoveryFirstAt + x.recoveredAfter ELSE NoTime

TypedJobs(q) == DOMAIN q \subseteq JobIDs /\ \A j \in DOMAIN q : q[j] \in Nat

Sound(t, x, q, o) ==
    /\ t \in [Keys -> Tracker]
    /\ DOMAIN x \subseteq IncidentIDs
    /\ \A i \in DOMAIN x : x[i] \in Incident
    /\ TypedJobs(q)
    /\ o \subseteq Nat
    /\ \A k \in Keys : Follows(t, x, k)
    /\ \A i \in DOMAIN x :
          /\ x[i].state # "resolved" => t[<<i.host, i.iface>>].incident = i
          /\ Timely(i, x[i])
          /\ i.msg \in o

Firm(x, q) ==
    \A i \in DOMAIN x : x[i].notify =>
        /\ x[i].activatedAt # NoTime =>
              IF i.iface = Primary THEN Job(i, "opened") \in DOMAIN q
              ELSE \/ Job(i, "fallback_opened") \in DOMAIN q
                   \/ \E p \in DOMAIN x :
                         x[p].activatedAt # NoTime /\ Escalation(i, p) \in DOMAIN q
        /\ x[i].state = "resolved" => Job(i, ResolvedKind(i.iface)) \in DOMAIN q

JustifiedBy(x, j) ==
    LET i == j.incident
    IN  /\ i \in DOMAIN x
        /\ x[i].notify
        /\ x[i].activatedAt # NoTime
        /\ j.kind \in {"opened", "resolved"} <=> i.iface = Primary
        /\ j.kind \in {"resolved", "fallback_resolved"} => x[i].state = "resolved"
        /\ j.kind = "fallback_escalated" <=> j.primary # NoIncident
        /\ j.primary # NoIncident =>
              /\ j.primary \in DOMAIN x
              /\ j.primary.host = i.host /\ j.primary.iface = Primary
              /\ x[j.primary].activatedAt # NoTime

(* In memory they are those of the engine ...                              *)
LEMMA MemorySound ==
    /\ StateInv => Sound(trackers, incidents, jobs, observed)
    /\ FirmAlerts => Firm(incidents, jobs)
    /\ JobsJustified => \A j \in DOMAIN jobs : JustifiedBy(incidents, j)
<1>1. ASSUME StateInv PROVE Sound(trackers, incidents, jobs, observed)
  <2>1. \A k \in Keys : Follows(trackers, incidents, k)
    BY <1>1 DEF StateInv, TrackersAgree, TrackerAgrees, Follows
  <2>2. \A i \in DOMAIN incidents : Timely(i, incidents[i])
    BY <1>1 DEF StateInv, TimelineWellFormed, Timely
  <2>3. \A i \in DOMAIN incidents : i.msg \in observed
    BY <1>1 DEF StateInv, EvidenceFresh
  <2>4. \A i \in DOMAIN incidents :
           incidents[i].state # "resolved" => trackers[<<i.host, i.iface>>].incident = i
    BY <1>1 DEF StateInv, TrackersAgree
  <2>. QED
    BY <1>1, <2>1, <2>2, <2>3, <2>4 DEF StateInv, TypeOK, Sound, TypedJobs
<1>2. FirmAlerts => Firm(incidents, jobs)
  BY DEF FirmAlerts, AnnouncedFirmly, Firm
<1>3. JobsJustified => \A j \in DOMAIN jobs : JustifiedBy(incidents, j)
  BY DEF JobsJustified, Justified, JustifiedBy
<1>. QED
  BY <1>1, <1>2, <1>3

(* ... and with them a state that was loaded is one of the engine's.       *)
LEMMA LoadedSound ==
    ASSUME Sound(trackers', incidents', jobs', observed'), cs' = Idle, cfg' \in Configs,
           frontier' \in Nat
    PROVE  StateInv'
<1>1. TypeOK'
  BY DEF Sound, TypedJobs, TypeOK, Idle
<1>2. TrackersAgree'
  <2>1. \A k \in Keys : TrackerAgrees(k)'
    BY DEF Sound, Follows, TrackerAgrees
  <2>. QED
    BY <2>1 DEF Sound, TrackersAgree
<1>3. TimelineWellFormed'
  BY DEF Sound, Timely, TimelineWellFormed
<1>4. EvidenceFresh'
  BY DEF Sound, EvidenceFresh, Idle
<1>. QED
  BY <1>1, <1>2, <1>3, <1>4 DEF StateInv

LEMMA LoadedAlerts ==
    /\ Firm(incidents', jobs') => FirmAlerts'
    /\ (\A j \in DOMAIN jobs' : JustifiedBy(incidents', j)) => JobsJustified'
<1>1. Firm(incidents', jobs') => FirmAlerts'
  BY DEF FirmAlerts, AnnouncedFirmly, Firm
<1>2. (\A j \in DOMAIN jobs' : JustifiedBy(incidents', j)) => JobsJustified'
  BY DEF JobsJustified, Justified, JustifiedBy
<1>. QED
  BY <1>1, <1>2

-----------------------------------------------------------------------------
(* The engine is at work only while a batch is applied or time passes; its *)
(* state is sound in memory, on disk and, as far as a rebuild takes it     *)
(* over, in the old snapshot.                                              *)
EngineInv ==
    /\ worker.pc \notin {"apply", "ticking"} => cs = Idle
    /\ StateInv /\ FirmAlerts
    /\ Sound(disk.trackers, disk.incidents, disk.jobs, disk.observed)
    /\ Firm(disk.incidents, disk.jobs)
    /\ \A old \in worker.previous : TypedJobs(old.jobs)

(* Every job, in memory and on disk, is justified.                         *)
CleanOutbox == JobsJustified /\ \A j \in DOMAIN disk.jobs : JustifiedBy(disk.incidents, j)

(* What a snapshot of the memory holds.                                    *)
LEMMA SavedEngine ==
    ASSUME EngineInv, NEW p, NEW d, disk' = Snapshot(p, d)
    PROVE  /\ Sound(disk'.trackers, disk'.incidents, disk'.jobs, disk'.observed)
           /\ Firm(disk'.incidents, disk'.jobs)
           /\ JobsJustified => \A j \in DOMAIN disk'.jobs : JustifiedBy(disk'.incidents, j)
<1>1. /\ disk'.trackers = trackers /\ disk'.incidents = incidents /\ disk'.jobs = jobs
      /\ disk'.observed = observed
  BY DEF Snapshot
<1>. QED
  BY <1>1, MemorySound DEF EngineInv

(* A step that leaves the engine alone, and saves it or not.               *)
LEMMA EngineFrame ==
    ASSUME EngineInv, UNCHANGED vars,
           disk' = disk \/ \E p, d : disk' = Snapshot(p, d),
           worker'.pc \notin {"apply", "ticking"} => cs = Idle,
           worker'.previous \subseteq worker.previous
    PROVE  EngineInv' /\ (CleanOutbox => CleanOutbox')
<1>1. StateInv'
  BY StutterState DEF EngineInv
<1>2. AlertsKept
  BY QuietAlerts DEF EngineInv, AlertInv, vars
<1>3. cs' = cs
  BY DEF vars
<1>4. CASE disk' = disk
  BY <1>1, <1>2, <1>3, <1>4, JobsKept DEF EngineInv, CleanOutbox, AlertsKept
<1>5. ASSUME NEW p, NEW d, disk' = Snapshot(p, d)
      PROVE  EngineInv' /\ (CleanOutbox => CleanOutbox')
  BY <1>1, <1>2, <1>3, <1>5, SavedEngine, JobsKept DEF EngineInv, CleanOutbox, AlertsKept
<1>. QED
  BY <1>4, <1>5

(* Steps around the worker.                                                *)
LEMMA EngineOutside ==
    ASSUME EngineInv,
           \/ \E m \in Inputs : Receives(m)
           \/ \E m \in ImportInputs, at \in 0 .. MaxTime : Imports(m, at)
           \/ \E writer \in {"syslog", "import"} : Publish(writer)
           \/ \E f \in Files : AppendCut(f) \/ Replaced(f)
           \/ TimePasses
           \/ UNCHANGED allVars
    PROVE  EngineInv' /\ (CleanOutbox => CleanOutbox')
<1>1. UNCHANGED vars /\ UNCHANGED <<worker, disk>>
  BY DEF Receives, Imports, Store, Publish, AppendCut, Replaced, TimePasses, allVars, workerVars
<1>2. worker'.pc \notin {"apply", "ticking"} => cs = Idle
  BY <1>1 DEF EngineInv
<1>. QED
  BY <1>1, <1>2, EngineFrame

(* Steps of the worker that read files or deliver jobs.                    *)
LEMMA AsideShape ==
    ASSUME EngineInv, SteadyInv,
           \/ StartUp \/ Woken \/ Periodic \/ EverySecond \/ Rests
           \/ \E f \in Files : VisitFile(f) \/ PartitionChanged(f)
           \/ AllVisited
           \/ Checkpoint \/ TickSaved \/ TickChangesNothing
           \/ \E j \in worker.queue : Sends(j) \/ GivesUp(j)
           \/ \E j \in worker.sending : MarkJob(j)
    PROVE  /\ UNCHANGED vars /\ cs = Idle
           /\ disk' = disk \/ \E p, d : disk' = Snapshot(p, d)
           /\ worker'.previous \subseteq worker.previous
<1>0. DOMAIN worker = WorkerFields
  BY DEF SteadyInv, OutboxInv, Shapes
<1>1. UNCHANGED vars
  BY DEF StartUp, Woken, Periodic, EverySecond, Rests, DispatchDone, VisitFails, VisitFile,
     PartitionChanged,
     AllVisited, Checkpoint, TickSaved, TickChangesNothing, Sends, GivesUp, MarkJob
<1>2. disk' = disk \/ \E p, d : disk' = Snapshot(p, d)
  BY DEF StartUp, Woken, Periodic, EverySecond, Rests, DispatchDone, VisitFails, VisitFile,
     PartitionChanged,
     AllVisited, Checkpoint, TickSaved, TickChangesNothing, Sends, GivesUp, MarkJob, SaveFails
<1>3. cs = Idle
  BY DEF StartUp, Woken, Periodic, EverySecond, Rests, DispatchDone, VisitFails, VisitFile,
     PartitionChanged,
     Visiting, AllVisited, Checkpoint, Applied, TickSaved, TickChangesNothing, Sends, GivesUp,
     MarkJob, EngineInv
<1>4. worker'.previous \subseteq worker.previous
  <2>1. CASE StartReconcile \/ EverySecond
    BY <2>1 DEF StartReconcile, EverySecond, Resting
  <2>2. CASE \E pc : worker' = Resting(pc)
    BY <2>2, RestingTyped
  <2>3. ASSUME NEW f \in Files, VisitFile(f) \/ PartitionChanged(f)
        PROVE  worker'.previous = worker.previous
    BY <1>0, <2>3 DEF VisitFile, PartitionChanged, WorkerFields
  <2>4. CASE AllVisited \/ worker' = [worker EXCEPT !.pc = "tick"]
    BY <1>0, <2>4 DEF AllVisited, WorkerFields
  <2>5. CASE worker' = StartDispatch(DueJobs(worker.now))
    BY <1>0, <2>5 DEF StartDispatch, WorkerFields
  <2>6. ASSUME NEW j, NEW result, worker' = Sent(j, result)
        PROVE  worker'.previous = worker.previous
    BY <1>0, <2>6 DEF Sent, WorkerFields
  <2>7. CASE worker' = [worker EXCEPT !.pc = "dispatch", !.sending = {}, !.result = "none"]
    BY <1>0, <2>7 DEF WorkerFields
  <2>8. ASSUME NEW j \in worker.queue, Sends(j) \/ GivesUp(j)
        PROVE  \E result : worker' = Sent(j, result)
    BY <2>8 DEF Sends, SendSucceeds, SendFails, GivesUp
  <2>9. CASE \E j \in worker.queue : Sends(j) \/ GivesUp(j)
    BY <2>6, <2>8, <2>9
  <2>. QED
    BY <2>1, <2>2, <2>3, <2>4, <2>5, <2>7, <2>9 DEF StartUp, Woken, Periodic, Rests, DispatchDone,
       VisitFails,
       Checkpoint, TickSaved, TickChangesNothing, MarkJob
<1>. QED
  BY <1>1, <1>2, <1>3, <1>4

LEMMA EngineAside ==
    ASSUME EngineInv, SteadyInv,
           \/ StartUp \/ Woken \/ Periodic \/ EverySecond \/ Rests
           \/ \E f \in Files : VisitFile(f) \/ PartitionChanged(f)
           \/ AllVisited
           \/ Checkpoint \/ TickSaved \/ TickChangesNothing
           \/ \E j \in worker.queue : Sends(j) \/ GivesUp(j)
           \/ \E j \in worker.sending : MarkJob(j)
    PROVE  EngineInv' /\ (CleanOutbox => CleanOutbox')
  BY AsideShape, EngineFrame

(* A record that is applied, and a tick that begins.                       *)
LEMMA EngineBegins ==
    ASSUME EngineInv, SteadyInv, TickChanges \/ \E p \in worker.batch : ApplyRecord(p)
    PROVE  EngineInv' /\ (CleanOutbox => CleanOutbox')
<1>0. DOMAIN worker = WorkerFields
  BY DEF SteadyInv, OutboxInv, Shapes
<1>1. UNCHANGED <<incidents, jobs, disk>>
  BY DEF TickChanges, BeginTick, ApplyRecord, ObserveIgnored, ObserveSelection, BeginObserve
<1>2. /\ worker'.pc \in {"apply", "ticking"} /\ worker'.previous = worker.previous
  <2>1. CASE TickChanges
    BY <1>0, <2>1 DEF TickChanges, WorkerFields
  <2>2. CASE \E p \in worker.batch : ApplyRecord(p)
    BY <1>0, <2>2 DEF ApplyRecord, WorkerFields
  <2>. QED
    BY <2>1, <2>2
<1>3. StateInv'
  <2>1. CASE TickChanges
    BY <2>1, BeginTickState DEF TickChanges, SteadyInv, TypedInv, EngineInv
  <2>2. ASSUME NEW p \in worker.batch, ApplyRecord(p) PROVE StateInv'
    <3>. DEFINE r == p.record
    <3>1. r \in Record
      BY StoredRecord DEF SteadyInv, RecoveryInv, BatchInv
    <3>2. r.at \in Nat /\ r.id \in Nat /\ r.input.host \in Hosts
      BY <3>1, InputsAssumption, ImportsAssumption DEF Record, MsgIDs
    <3>3. Eligible(p) \in BOOLEAN
      BY DEF Eligible
    <3>. HIDE DEF r
    <3>4. \/ ObserveIgnored(r.input, r.at, r.id)
          \/ ObserveSelection(r.input, r.at, r.id)
          \/ BeginObserve(r.input, r.at, r.id, Eligible(p))
      BY <2>2 DEF ApplyRecord, r
    <3>. QED
      BY <3>2, <3>3, <3>4, ObserveIgnoredState, ObserveSelectionState, BeginObserveState
         DEF EngineInv
  <2>. QED
    BY <2>1, <2>2
<1>4. AlertsKept
  BY <1>1, QuietAlerts DEF EngineInv, AlertInv
<1>. QED
  BY <1>1, <1>2, <1>3, <1>4, JobsKept DEF EngineInv, CleanOutbox, AlertsKept

(* A turn of the engine.                                                   *)
LEMMA EngineTurns ==
    ASSUME EngineInv, EngineStep
    PROVE  EngineInv' /\ (CleanOutbox => CleanOutbox')
<1>1. Locked /\ worker.pc \in {"apply", "ticking"} /\ UNCHANGED <<worker, disk>>
  BY DEF EngineStep, workerVars
<1>2. StateInv' /\ AlertsKept
  BY <1>1, LockedState, LockedAlerts DEF EngineInv, AlertInv
<1>. QED
  BY <1>1, <1>2, JobsKept DEF EngineInv, CleanOutbox, AlertsKept

(* A new process has what was saved.                                       *)
LEMMA EngineCrash ==
    ASSUME EngineInv, NEW c \in Configs, Crash(c)
    PROVE  EngineInv' /\ (CleanOutbox => CleanOutbox')
<1>1. /\ disk' = disk /\ cs' = Idle /\ cfg' \in Configs /\ frontier' \in Nat
      /\ trackers' = disk.trackers /\ incidents' = disk.incidents /\ jobs' = disk.jobs
      /\ observed' = disk.observed /\ worker' = Resting("start")
  BY DEF Crash, EngineInv, StateInv, TypeOK
<1>2. StateInv'
  BY <1>1, LoadedSound DEF EngineInv
<1>3. FirmAlerts' /\ (CleanOutbox => JobsJustified')
  BY <1>1, LoadedAlerts DEF EngineInv, CleanOutbox
<1>4. worker'.previous = {}
  BY <1>1, RestingTyped
<1>. QED
  BY <1>1, <1>2, <1>3, <1>4 DEF EngineInv, CleanOutbox

(* A rebuild starts from nothing.                                          *)
LEMMA EngineEmptied ==
    ASSUME EngineInv, SteadyInv, BeginRebuild
    PROVE  EngineInv'
<1>0. DOMAIN worker = WorkerFields
  BY DEF SteadyInv, OutboxInv, Shapes
<1>1. /\ UNCHANGED <<cfg, cs, frontier, disk>> /\ cs = Idle /\ cfg \in Configs
      /\ frontier \in Nat
      /\ trackers' = [k \in Keys |-> FreshTracker("", NoTime)]
      /\ DOMAIN incidents' = {} /\ DOMAIN jobs' = {} /\ observed' = {}
  BY DEF BeginRebuild, Empty, EngineInv, StateInv, TypeOK
<1>2. StateInv'
  <2>1. FreshTracker("", NoTime) \in Tracker
    BY DEF FreshTracker, Tracker, Phases, OptTime, NoTime
  <2>2. trackers' \in [Keys -> Tracker]
    BY <1>1, <2>1
  <2>3. \A k \in Keys : Follows(trackers', incidents', k)
    BY <1>1 DEF Follows, FreshTracker, Clean, OpenPhases
  <2>4. Sound(trackers', incidents', jobs', observed')
    BY <1>1, <2>2, <2>3 DEF Sound, TypedJobs
  <2>. QED
    BY <1>1, <2>4, LoadedSound
<1>3. FirmAlerts'
  BY <1>1 DEF FirmAlerts
<1>4. \A old \in worker'.previous : TypedJobs(old.jobs)
  <2>1. worker'.previous = {Snapshot(progress, delivery)}
    BY <1>0 DEF BeginRebuild, WorkerFields
  <2>2. TypedJobs(jobs)
    BY DEF EngineInv, StateInv, TypeOK, TypedJobs
  <2>. QED
    BY <2>1, <2>2, SavedJobs
<1>. QED
  BY <1>1, <1>2, <1>3, <1>4 DEF EngineInv

-----------------------------------------------------------------------------
(* The end of a rebuild.                                                   *)

(* Only the alerting of an incident changes.                               *)
LEMMA RebuiltIncident ==
    ASSUME EngineInv, NEW old, NEW i \in DOMAIN incidents
    PROVE  LET x == RebuiltIncidents(old)[i] IN
           /\ x \in Incident
           /\ x.state = incidents[i].state /\ x.startedAt = incidents[i].startedAt
           /\ x.activatedAt = incidents[i].activatedAt
           /\ x.recoveryFirstAt = incidents[i].recoveryFirstAt
           /\ x.resolvedAt = incidents[i].resolvedAt
           /\ x.downAfter = incidents[i].downAfter
           /\ x.recoveredAfter = incidents[i].recoveredAfter
<1>. DEFINE b == incidents[i].notify \/ (i \in DOMAIN old.incidents /\ old.incidents[i].notify)
<1>1. incidents[i] \in Incident
  BY DEF EngineInv, StateInv, TypeOK
<1>2. b \in BOOLEAN
  OBVIOUS
<1>3. RebuiltIncidents(old)[i] = Alerting(incidents[i], b)
  BY DEF RebuiltIncidents
<1>. HIDE DEF b
<1>. QED
  BY <1>1, <1>2, <1>3, AlertingIncident

(* A tracker takes over the alerting of its incident.                      *)
LEMMA RebuiltTracker ==
    ASSUME EngineInv, NEW new, DOMAIN new = DOMAIN incidents,
           \A i \in DOMAIN new : new[i] \in Incident, NEW k \in Keys
    PROVE  LET t == RebuiltTrackers(new)[k] IN
           /\ t \in Tracker
           /\ t.phase = trackers[k].phase /\ t.pendingSince = trackers[k].pendingSince
           /\ t.recoverySince = trackers[k].recoverySince
           /\ t.lastEvidenceAt = trackers[k].lastEvidenceAt
           /\ t.incident = trackers[k].incident
           /\ t.reachabilityDown = trackers[k].reachabilityDown
           /\ t.notify = IF trackers[k].incident \in DOMAIN new
                         THEN new[trackers[k].incident].notify ELSE trackers[k].notify
<1>1. trackers[k] \in Tracker
  BY DEF EngineInv, StateInv, TypeOK
<1>2. CASE trackers[k].incident \in DOMAIN new
  <2>1. new[trackers[k].incident].notify \in BOOLEAN
    BY <1>2 DEF Incident
  <2>2. RebuiltTrackers(new)[k] = Alerting(trackers[k], new[trackers[k].incident].notify)
    BY <1>2 DEF RebuiltTrackers
  <2>. QED
    BY <1>1, <1>2, <2>1, <2>2, AlertingTracker
<1>3. CASE trackers[k].incident \notin DOMAIN new
  <2>1. RebuiltTrackers(new)[k] = trackers[k]
    BY <1>3 DEF RebuiltTrackers
  <2>. QED
    BY <1>1, <1>3, <2>1
<1>. QED
  BY <1>2, <1>3

(* The jobs that are called for have their types, among them the opening   *)
(* and the closing of every incident that alerts.                          *)
LEMMA CalledTyped ==
    ASSUME EngineInv, NEW old, NEW new, new = RebuiltIncidents(old),
           NEW first \in Openings(new), NEW c \in CalledFor(new, first)
    PROVE  c[1] \in JobIDs /\ c[2] \in Nat
<1>1. PICK i \in Raised(new) :
         c \in {<<first[i], new[i].activatedAt>>} \cup Closing(i, new[i])
                  \cup LaterEscalations(i, new[i])
  BY DEF CalledFor
<1>2. i \in DOMAIN incidents /\ i \in IncidentIDs /\ new[i].activatedAt # NoTime
  BY DEF Raised, RebuiltIncidents, EngineInv, StateInv, TypeOK
<1>3. new[i] \in Incident /\ new[i].activatedAt \in Nat
  BY <1>2, RebuiltIncident DEF Incident, OptTime
<1>4. CASE c = <<first[i], new[i].activatedAt>>
  <2>1. first[i] \in Opening(i, new[i])
    BY DEF Openings
  <2>2. first[i] \in JobIDs
    <3>1. CASE first[i] \in {Job(i, "opened"), Job(i, "fallback_opened")}
      BY <1>2, <3>1 DEF Job, JobIDs, Kinds
    <3>2. ASSUME NEW p \in PrimariesDownAt(i.host, new[i].activatedAt),
                 first[i] = Escalation(i, p)
          PROVE  first[i] \in JobIDs
      <4>1. p \in IncidentIDs
        BY DEF PrimariesDownAt, EngineInv, StateInv, TypeOK
      <4>. QED
        BY <1>2, <3>2, <4>1 DEF Escalation, JobIDs, Kinds
    <3>. QED
      BY <2>1, <3>1, <3>2 DEF Opening, FallbackOpening
  <2>. QED
    BY <1>3, <1>4, <2>2
<1>5. CASE c \in Closing(i, new[i])
  <2>1. /\ new[i].state = "resolved" /\ c[1] = Job(i, ResolvedKind(i.iface))
        /\ c[2] = new[i].resolvedAt
    BY <1>5 DEF Closing
  <2>2. c[1] \in JobIDs
    BY <1>2, <2>1 DEF Job, JobIDs, Kinds, ResolvedKind
  <2>3. /\ incidents[i] \in Incident /\ incidents[i].state = "resolved"
        /\ new[i].resolvedAt = incidents[i].resolvedAt
    BY <1>2, <2>1, RebuiltIncident DEF EngineInv, StateInv, TypeOK
  <2>4. /\ incidents[i].resolvedAt = incidents[i].recoveryFirstAt + incidents[i].recoveredAfter
        /\ incidents[i].recoveryFirstAt # NoTime
    BY <1>2, <2>3 DEF EngineInv, StateInv, TimelineWellFormed
  <2>5. incidents[i].recoveryFirstAt \in Nat /\ incidents[i].recoveredAfter \in Nat
    BY <2>3, <2>4 DEF Incident, OptTime
  <2>. QED
    BY <2>1, <2>2, <2>3, <2>4, <2>5
<1>6. CASE c \in LaterEscalations(i, new[i])
  <2>1. PICK p \in DOMAIN incidents :
           /\ c = <<Escalation(i, p), incidents[p].activatedAt>>
           /\ incidents[p].activatedAt > new[i].activatedAt
    BY <1>6 DEF LaterEscalations
  <2>2. p \in IncidentIDs /\ incidents[p].activatedAt \in OptTime
    BY DEF EngineInv, StateInv, TypeOK, Incident
  <2>3. incidents[p].activatedAt \in Nat
    BY <1>3, <2>1, <2>2 DEF OptTime, NoTime
  <2>4. Escalation(i, p) \in JobIDs
    BY <1>2, <2>2 DEF Escalation, JobIDs, Kinds
  <2>. QED
    BY <2>1, <2>3, <2>4
<1>. QED
  BY <1>1, <1>4, <1>5, <1>6

LEMMA RebuiltTyped ==
    ASSUME EngineInv, NEW old \in worker.previous, NEW new, new = RebuiltIncidents(old),
           NEW first \in Openings(new)
    PROVE  /\ TypedJobs(RebuiltJobs(old, new, first))
           /\ {c[1] : c \in CalledFor(new, first)} \subseteq DOMAIN RebuiltJobs(old, new, first)
<1>. DEFINE q == RebuiltJobs(old, new, first)
            called == CalledFor(new, first)
<1>1. \A c \in called : c[1] \in JobIDs /\ c[2] \in Nat
  BY CalledTyped
<1>2. /\ DOMAIN q = Carried(old) \cup DOMAIN jobs \cup {c[1] : c \in called}
      /\ \A j \in DOMAIN q :
            q[j] = IF j \in Carried(old) THEN old.jobs[j]
                   ELSE IF j \in DOMAIN jobs THEN jobs[j]
                   ELSE (CHOOSE c \in called : c[1] = j)[2]
  BY DEF RebuiltJobs
<1>3. TypedJobs(jobs) /\ TypedJobs(old.jobs)
  BY DEF EngineInv, StateInv, TypeOK, TypedJobs
<1>. HIDE DEF q, called
<1>4. DOMAIN q \subseteq JobIDs
  BY <1>1, <1>2, <1>3 DEF TypedJobs, Carried
<1>5. ASSUME NEW j \in DOMAIN q PROVE q[j] \in Nat
  <2>1. CASE j \in Carried(old) \cup DOMAIN jobs
    BY <1>2, <1>3, <2>1 DEF TypedJobs, Carried
  <2>2. CASE j \notin Carried(old) \cup DOMAIN jobs
    <3>1. q[j] = (CHOOSE c \in called : c[1] = j)[2] /\ \E c \in called : c[1] = j
      BY <1>2, <2>2
    <3>2. (CHOOSE c \in called : c[1] = j) \in called
      BY <3>1
    <3>. QED
      BY <1>1, <3>1, <3>2
  <2>. QED
    BY <2>1, <2>2
<1>. QED
  BY <1>2, <1>4, <1>5 DEF TypedJobs, q, called

(* After a rebuild, every incident that alerts has the jobs it calls for.  *)
LEMMA RebuiltFirm ==
    ASSUME EngineInv, NEW old \in worker.previous, NEW new, new = RebuiltIncidents(old),
           NEW first \in Openings(new)
    PROVE  Firm(new, RebuiltJobs(old, new, first))
<1>. DEFINE q == RebuiltJobs(old, new, first)
<1>1. \A c \in CalledFor(new, first) : c[1] \in DOMAIN q
  BY RebuiltTyped
<1>. HIDE DEF q
<1>. SUFFICES ASSUME NEW i \in DOMAIN new, new[i].notify
              PROVE  /\ new[i].activatedAt # NoTime =>
                           IF i.iface = Primary THEN Job(i, "opened") \in DOMAIN q
                           ELSE \/ Job(i, "fallback_opened") \in DOMAIN q
                                \/ \E p \in DOMAIN new : /\ new[p].activatedAt # NoTime
                                                         /\ Escalation(i, p) \in DOMAIN q
                     /\ new[i].state = "resolved" => Job(i, ResolvedKind(i.iface)) \in DOMAIN q
  BY DEF Firm, q
<1>2. DOMAIN new = DOMAIN incidents
  BY DEF RebuiltIncidents
<1>3. ASSUME new[i].activatedAt # NoTime
      PROVE  IF i.iface = Primary THEN Job(i, "opened") \in DOMAIN q
             ELSE \/ Job(i, "fallback_opened") \in DOMAIN q
                  \/ \E p \in DOMAIN new : /\ new[p].activatedAt # NoTime
                                           /\ Escalation(i, p) \in DOMAIN q
  <2>1. i \in Raised(new)
    BY <1>3 DEF Raised
  <2>2. first[i] \in Opening(i, new[i])
    BY <2>1 DEF Openings
  <2>3. <<first[i], new[i].activatedAt>> \in CalledFor(new, first)
    BY <2>1 DEF CalledFor
  <2>4. first[i] \in DOMAIN q
    BY <1>1, <2>3
  <2>5. ASSUME NEW p \in PrimariesDownAt(i.host, new[i].activatedAt)
        PROVE  p \in DOMAIN new /\ new[p].activatedAt # NoTime
    BY <1>2, RebuiltIncident DEF PrimariesDownAt
  <2>. QED
    BY <2>2, <2>4, <2>5 DEF Opening, FallbackOpening
<1>4. ASSUME new[i].state = "resolved"
      PROVE  Job(i, ResolvedKind(i.iface)) \in DOMAIN q
  <2>1. /\ incidents[i] \in Incident /\ incidents[i].state = "resolved"
        /\ new[i].activatedAt = incidents[i].activatedAt
    BY <1>2, <1>4, RebuiltIncident DEF EngineInv, StateInv, TypeOK
  <2>2. incidents[i].activatedAt = incidents[i].startedAt + incidents[i].downAfter
    BY <1>2, <2>1 DEF EngineInv, StateInv, TimelineWellFormed
  <2>3. incidents[i].startedAt \in Nat /\ incidents[i].downAfter \in Nat
    BY <2>1 DEF Incident
  <2>4. i \in Raised(new)
    BY <2>1, <2>2, <2>3 DEF Raised, NoTime
  <2>5. <<Job(i, ResolvedKind(i.iface)), new[i].resolvedAt>> \in Closing(i, new[i])
    BY <1>4 DEF Closing
  <2>6. <<Job(i, ResolvedKind(i.iface)), new[i].resolvedAt>> \in CalledFor(new, first)
    BY <2>4, <2>5 DEF CalledFor
  <2>. QED
    BY <1>1, <2>6
<1>. QED
  BY <1>3, <1>4

(* What a rebuild derived is sound with the alerting it takes over.        *)
LEMMA RebuiltSound ==
    ASSUME EngineInv, NEW old \in worker.previous, NEW new, new = RebuiltIncidents(old),
           NEW first \in Openings(new)
    PROVE  Sound(RebuiltTrackers(new), new, RebuiltJobs(old, new, first), observed)
<1>. DEFINE t == RebuiltTrackers(new)
<1>1. DOMAIN new = DOMAIN incidents /\ DOMAIN t = Keys
  BY DEF RebuiltIncidents, RebuiltTrackers
<1>2. \A i \in DOMAIN new :
         /\ new[i] \in Incident
         /\ new[i].state = incidents[i].state /\ new[i].startedAt = incidents[i].startedAt
         /\ new[i].activatedAt = incidents[i].activatedAt
         /\ new[i].recoveryFirstAt = incidents[i].recoveryFirstAt
         /\ new[i].resolvedAt = incidents[i].resolvedAt
         /\ new[i].downAfter = incidents[i].downAfter
         /\ new[i].recoveredAfter = incidents[i].recoveredAfter
  BY <1>1, RebuiltIncident
<1>3. \A k \in Keys :
         /\ t[k] \in Tracker
         /\ t[k].phase = trackers[k].phase /\ t[k].pendingSince = trackers[k].pendingSince
         /\ t[k].recoverySince = trackers[k].recoverySince
         /\ t[k].incident = trackers[k].incident
         /\ t[k].reachabilityDown = trackers[k].reachabilityDown
         /\ t[k].notify = IF trackers[k].incident \in DOMAIN new
                          THEN new[trackers[k].incident].notify ELSE trackers[k].notify
  BY <1>1, <1>2, RebuiltTracker
<1>4. t = [k \in Keys |-> t[k]]
  BY DEF RebuiltTrackers
<1>. HIDE DEF t
<1>5. t \in [Keys -> Tracker]
  BY <1>3, <1>4
<1>6. Sound(trackers, incidents, jobs, observed)
  BY MemorySound DEF EngineInv
<1>7. ASSUME NEW k \in Keys PROVE Follows(t, new, k)
  <2>1. Follows(trackers, incidents, k)
    BY <1>6 DEF Sound
  <2>2. CASE trackers[k].phase \in OpenPhases
    <3>1. trackers[k].incident \in DOMAIN new
      BY <1>1, <2>1, <2>2 DEF Follows
    <3>. QED
      BY <1>2, <1>3, <2>1, <2>2, <3>1 DEF Follows
  <2>3. CASE trackers[k].phase \notin OpenPhases
    <3>1. Clean(trackers[k])
      BY <2>1, <2>3 DEF Follows
    <3>2. trackers[k].incident \notin DOMAIN new
      BY <1>1, <1>6, <3>1, NoIncidentIsNone DEF Clean, Sound
    <3>3. Clean(t[k])
      BY <1>3, <3>1, <3>2 DEF Clean
    <3>. QED
      BY <1>3, <2>3, <3>3 DEF Follows
  <2>. QED
    BY <2>2, <2>3
<1>8. ASSUME NEW i \in DOMAIN new
      PROVE  /\ new[i].state # "resolved" => t[<<i.host, i.iface>>].incident = i
             /\ Timely(i, new[i])
             /\ i.msg \in observed
  <2>1. <<i.host, i.iface>> \in Keys
    BY <1>1, <1>6, IncidentKey DEF Sound
  <2>2. new[i].state # "resolved" => t[<<i.host, i.iface>>].incident = i
    BY <1>1, <1>2, <1>3, <1>6, <2>1 DEF Sound
  <2>3. Timely(i, new[i])
    <3>1. Timely(i, incidents[i])
      BY <1>1, <1>6 DEF Sound
    <3>. QED
      BY <1>2, <3>1 DEF Timely
  <2>. QED
    BY <1>1, <1>6, <2>2, <2>3 DEF Sound
<1>9. DOMAIN new \subseteq IncidentIDs /\ observed \subseteq Nat
  BY <1>1, <1>6 DEF Sound
<1>10. TypedJobs(RebuiltJobs(old, new, first))
  BY RebuiltTyped
<1>11. Sound(t, new, RebuiltJobs(old, new, first), observed)
  BY <1>2, <1>5, <1>7, <1>8, <1>9, <1>10 DEF Sound
<1>. QED
  BY <1>11 DEF t

LEMMA EngineRebuilt ==
    ASSUME EngineInv, SteadyInv, Rebuild
    PROVE  EngineInv'
<1>0. DOMAIN worker = WorkerFields
  BY DEF SteadyInv, OutboxInv, Shapes
<1>1. PICK old \in worker.previous :
         /\ incidents' = RebuiltIncidents(old)
         /\ trackers' = RebuiltTrackers(RebuiltIncidents(old))
         /\ \E first \in Openings(RebuiltIncidents(old)) :
               jobs' = RebuiltJobs(old, RebuiltIncidents(old), first)
         /\ \/ disk' = [trackers |-> trackers', incidents |-> incidents', jobs |-> jobs',
                        progress |-> Progress(worker.next), delivery |-> delivery',
                        observed |-> observed]
            \/ disk' = disk
  BY DEF Rebuild, SaveFails
<1>2. UNCHANGED <<cfg, cs, observed, frontier>> /\ cs = Idle
  BY DEF Rebuild, Applied
<1>3. Sound(trackers', incidents', jobs', observed') /\ Firm(incidents', jobs')
  BY <1>1, <1>2, RebuiltSound, RebuiltFirm
<1>4. StateInv' /\ FirmAlerts'
  <2>1. cs' = Idle /\ cfg' \in Configs /\ frontier' \in Nat
    BY <1>2 DEF EngineInv, StateInv, TypeOK
  <2>. QED
    BY <1>3, <2>1, LoadedSound, LoadedAlerts
<1>5. /\ Sound(disk'.trackers, disk'.incidents, disk'.jobs, disk'.observed)
      /\ Firm(disk'.incidents, disk'.jobs)
  <2>1. CASE disk' = disk
    BY <2>1 DEF EngineInv
  <2>2. CASE disk' = [trackers |-> trackers', incidents |-> incidents', jobs |-> jobs',
                      progress |-> Progress(worker.next), delivery |-> delivery',
                      observed |-> observed]
    <3>1. /\ disk'.trackers = trackers' /\ disk'.incidents = incidents' /\ disk'.jobs = jobs'
          /\ disk'.observed = observed'
      BY <1>2, <2>2
    <3>. QED
      BY <1>3, <3>1
  <2>. QED
    BY <1>1, <2>1, <2>2
<1>6. worker'.previous = {}
  <2>1. CASE worker' = Resting("idle")
    BY <2>1, RestingTyped
  <2>2. CASE worker' = [worker EXCEPT !.pc = "tick", !.changed = NoFile, !.previous = {}]
    BY <1>0, <2>2 DEF WorkerFields
  <2>. QED
    BY <2>1, <2>2 DEF Rebuild
<1>. QED
  BY <1>2, <1>4, <1>5, <1>6 DEF EngineInv

-----------------------------------------------------------------------------
(* No file was replaced so far.                                            *)
Untouched == faults.truncate + faults.restore = 0

LEMMA TouchedForGood ==
    ASSUME OutboxInv, WorkerNext \/ UNCHANGED allVars, Untouched'
    PROVE  Untouched /\ \A f \in Files : ~Replaced(f)
<1>1. /\ faults.truncate \in Nat /\ faults.restore \in Nat
      /\ DOMAIN faults = FaultKinds
  BY DEF OutboxInv, Shapes, FaultKinds
<1>2. ASSUME NEW f \in Files, Replaced(f) PROVE FALSE
  <2>1. \/ faults' = [faults EXCEPT !.truncate = @ + 1]
        \/ faults' = [faults EXCEPT !.restore = @ + 1]
    BY <1>2 DEF Replaced
  <2>. QED
    BY <1>1, <2>1 DEF Untouched, FaultKinds
<1>3. \/ faults' = faults
      \/ \E kind \in FaultKinds : faults' = [faults EXCEPT ![kind] = @ + 1]
  BY DEF WorkerNext, WorkerStep, Receives, Imports, Store, Publish, AppendCut, Replaced,
     TimePasses, Woken,
         Periodic, EverySecond, StartUp, VisitFile, PartitionChanged, AllVisited, BeginRebuild,
         ApplyRecord, EngineStep, Checkpoint, Rebuild, TickChanges, TickSaved,
         TickChangesNothing, Sends, SendSucceeds, SendFails, GivesUp, MarkJob, Rests,
         DispatchDone, VisitFails,
         Crash, SaveFails, allVars, workerVars, FaultKinds
<1>4. Untouched
  BY <1>1, <1>3 DEF Untouched, FaultKinds
<1>. QED
  BY <1>2, <1>4

(* The engine inside the worker, and what holds before a rebuild.          *)
ComposedInv == SteadyInv /\ EngineInv /\ (Untouched => Unreplaced /\ CleanOutbox)

LEMMA ComposedInit == WorkerInit => ComposedInv
<1>. SUFFICES ASSUME WorkerInit PROVE ComposedInv
  OBVIOUS
<1>1. SteadyInv /\ Unreplaced
  BY RecoveryInit, OutboxInit, TypedInit, UnreplacedInit DEF SteadyInv
<1>2. AlertInv /\ JobsJustified /\ cs = Idle
  BY InitAlerts DEF WorkerInit, Init
<1>3. /\ disk.trackers = trackers /\ disk.incidents = incidents /\ disk.jobs = jobs
      /\ disk.observed = observed /\ worker = Resting("start")
  BY DEF WorkerInit, Snapshot
<1>4. EngineInv
  BY <1>2, <1>3, MemorySound, RestingTyped DEF EngineInv, AlertInv
<1>5. CleanOutbox
  BY <1>2, <1>3, MemorySound DEF CleanOutbox
<1>. QED
  BY <1>1, <1>4, <1>5 DEF ComposedInv

LEMMA ComposedNext ==
    ASSUME ComposedInv, WorkerNext \/ UNCHANGED allVars
    PROVE  ComposedInv'
<1>1. SteadyInv /\ EngineInv /\ OutboxInv
  BY DEF ComposedInv, SteadyInv
<1>2. SteadyInv'
  BY <1>1, RecoveryNext, OutboxNext, TypedNext DEF SteadyInv
<1>3. \/ EngineInv' /\ (CleanOutbox => CleanOutbox')
      \/ BeginRebuild \/ Rebuild
  BY <1>1, EngineOutside, EngineAside, EngineBegins, EngineTurns, EngineCrash
     DEF WorkerNext, WorkerStep, Rests
<1>4. EngineInv'
  BY <1>1, <1>3, EngineEmptied, EngineRebuilt
<1>5. ASSUME Untouched' PROVE Unreplaced' /\ CleanOutbox'
  <2>1. Untouched /\ \A f \in Files : ~Replaced(f)
    BY <1>1, <1>5, TouchedForGood
  <2>2. KeptInv /\ CleanOutbox
    BY <1>1, <2>1 DEF ComposedInv, KeptInv
  <2>3. Unreplaced' /\ ~Rebuild
    BY <2>1, <2>2, UnreplacedStep
  <2>4. ~BeginRebuild
    BY <2>2 DEF BeginRebuild, KeptInv, Unreplaced
  <2>. QED
    BY <1>3, <2>2, <2>3, <2>4
<1>. QED
  BY <1>2, <1>4, <1>5 DEF ComposedInv

LEMMA ComposedAlways == WorkerSpec => []ComposedInv
<1>1. ComposedInv /\ [WorkerNext]_allVars => ComposedInv'
  BY ComposedNext
<1>. QED
  BY <1>1, ComposedInit, PTL DEF WorkerSpec

(* A rebuild leaves trackers, incidents and jobs that hang together: every *)
(* incident that alerts has its jobs, however many files were lost and put *)
(* back and whichever saves and processes failed; and every job is         *)
(* justified until a file is replaced.                                     *)
THEOREM RebuildCoheres == WorkerSpec => []RebuiltCoherent
<1>1. ComposedInv => RebuiltCoherent
  <2>. SUFFICES ASSUME ComposedInv PROVE RebuiltCoherent
    OBVIOUS
  <2>1. TrackersAgree /\ FirmAlerts
    BY DEF ComposedInv, EngineInv, StateInv
  <2>2. Untouched => JobsJustified
    BY DEF ComposedInv, CleanOutbox
  <2>. QED
    BY <2>1, <2>2, FirmIsAnnounced DEF RebuiltCoherent, JobsJustified, Untouched
<1>. QED
  BY <1>1, ComposedAlways, PTL

-----------------------------------------------------------------------------
(* Where alerts come from, as long as no backup puts records back.         *)

(* A record that was in the archive before the first start.                *)
Old(r) == ~r.import /\ r.at < FirstStart

HasOld == archive[0] # <<>> /\ Old(archive[0][1])

Covered(c) == HasOld => Len(c[0]) >= 1

(* An old record is the first of the first file.  Once the service is      *)
(* bootstrapped its cursors have passed that record, so that it is read    *)
(* again only where a file was found changed, and then known to be old.    *)
OldRead(p) ==
    /\ p.file = 0 /\ p.offset = 1
    /\ progress.bootstrapped => worker.changed # NoFile /\ Len(progress.cursors[0]) >= 1

ReadInv ==
    /\ clock >= FirstStart /\ startedAt \in Nat /\ startedAt >= FirstStart
    /\ \A f \in Files : \A n \in 1 .. Len(archive[f]) : Old(archive[f][n]) => f = 0 /\ n = 1
    /\ progress.bootstrapped => Covered(progress.cursors)
    /\ disk.progress.bootstrapped => Covered(disk.progress.cursors)
    /\ worker.pc = "visit" => 0 \in worker.files \/ Covered(worker.next)
    /\ worker.pc = "apply" => Covered(worker.next)
    /\ (worker.pc = "visit" /\ worker.changed = NoFile) =>
          \A f \in worker.files : worker.next[f] = progress.cursors[f]
    /\ \A p \in worker.batch : Old(p.record) => OldRead(p)

(* LiveFailure, with the records it looks among.                           *)
LiveIn(log, i, at) ==
    \E r \in log :
        LET e == Classify(r.input, r.at, r.id, FALSE)
        IN  /\ ~r.import /\ r.at >= FirstStart
            /\ ~e.online /\ ~e.observeOnly
            /\ e.host = i.host /\ e.iface = i.iface
            /\ i.at <= r.at /\ r.at < at

(* Evidence that may alert is that of a live record.                       *)
LiveEvidence(log, ev) ==
    ev.notify =>
        \E r \in log : /\ ~r.import /\ r.at >= FirstStart
                       /\ ev = Classify(r.input, r.at, r.id, TRUE) /\ ~ev.observeOnly

Lively(log, x, q) ==
    /\ \A i \in DOMAIN x : x[i].notify => LiveIn(log, i, MaxTime + 1)
    /\ \A j \in DOMAIN q : LiveIn(log, j.incident, MaxTime + 1)

Prompt(log, x) == \A i \in DOMAIN x : x[i].notify => LiveIn(log, i, i.at + x[i].downAfter)

(* The last report about an outage is not before its start.                *)
InSequence(t) ==
    \A k \in Keys : t[k].phase \in OpenPhases => t[k].pendingSince <= t[k].lastEvidenceAt

SourceInv ==
    /\ cs.op = "observe" =>
          trackers[EvKey].lastEvidenceAt <= cs.ev.at /\ LiveEvidence(Log, cs.ev)
    /\ InSequence(trackers) /\ InSequence(disk.trackers)
    /\ Lively(Log, incidents, jobs) /\ Lively(Log, disk.incidents, disk.jobs)
    /\ \A old \in worker.previous : Lively(Log, old.incidents, old.jobs)
    /\ faults.truncate = 0 => Prompt(Log, incidents) /\ Prompt(Log, disk.incidents)

LiveInv == faults.restore = 0 => ReadInv /\ SourceInv

-----------------------------------------------------------------------------
(* More records: what was live is live.                                    *)
LEMMA LiveGrows ==
    ASSUME NEW log, NEW more, log \subseteq more
    PROVE  /\ \A i, at : LiveIn(log, i, at) => LiveIn(more, i, at)
           /\ \A x, q : Lively(log, x, q) => Lively(more, x, q)
           /\ \A x : Prompt(log, x) => Prompt(more, x)
           /\ \A ev : LiveEvidence(log, ev) => LiveEvidence(more, ev)
<1>1. \A i, at : LiveIn(log, i, at) => LiveIn(more, i, at)
  BY DEF LiveIn
<1>2. \A ev : LiveEvidence(log, ev) => LiveEvidence(more, ev)
  BY DEF LiveEvidence
<1>. QED
  BY <1>1, <1>2 DEF Lively, Prompt

(* Where an incident that alerts has its alerting from: it had it before,  *)
(* or the report being observed is one about its outage, from before its   *)
(* activation.                                                             *)
Reported(i, x) ==
    /\ cs.op = "observe" /\ cs.ev.notify /\ ~cs.ev.online
    /\ cs.ev.host = i.host /\ cs.ev.iface = i.iface
    /\ i.at <= cs.ev.at /\ cs.ev.at < i.at + x.downAfter

AlertingFrom(i) ==
    incidents'[i].notify =>
        \/ /\ i \in DOMAIN incidents /\ incidents[i].notify
           /\ incidents'[i].downAfter = incidents[i].downAfter
        \/ Reported(i, incidents'[i])

(* An incident is changed in place and keeps its alerting.                 *)
LEMMA AlertingInPlace ==
    ASSUME StateInv, NEW i \in DOMAIN incidents, NEW x \in Incident,
           incidents' = [incidents EXCEPT ![i] = x],
           x.notify = incidents[i].notify, x.downAfter = incidents[i].downAfter
    PROVE  \A w \in DOMAIN incidents' : AlertingFrom(w)
<1>1. /\ DOMAIN incidents' = DOMAIN incidents /\ incidents'[i] = x
      /\ \A w \in DOMAIN incidents : w # i => incidents'[w] = incidents[w]
  BY IncidentUpdate
<1>. QED
  BY <1>1 DEF AlertingFrom

LEMMA AlertingActivated ==
    ASSUME StateInv, NEW k \in Keys, ActivatePrimary(k) \/ ActivateFallback(k)
    PROVE  \A w \in DOMAIN incidents' : AlertingFrom(w)
<1>. DEFINE i == trackers[k].incident
            x == Activated(incidents[i], DueAt(k), trackers[k].notify)
<1>1. Pending(k) /\ trackers[k].phase = "pending_failure"
  BY DEF ActivatePrimary, ActivateFallback, NextDue, Due
<1>2. /\ i \in DOMAIN incidents /\ incidents[i] \in Incident /\ DueAt(k) \in Nat
      /\ trackers[k].notify \in BOOLEAN
  BY <1>1, PendingIsDue DEF Tracker
<1>3. incidents[i].notify = trackers[k].notify
  BY <1>1, OpenFacts DEF OpenPhases
<1>4. x \in Incident /\ x.notify = trackers[k].notify /\ x.downAfter = incidents[i].downAfter
  BY <1>2, ActivatedRecord
<1>5. incidents' = [incidents EXCEPT ![i] = x]
  BY DEF ActivatePrimary, ActivateFallback
<1>. QED
  BY <1>2, <1>3, <1>4, <1>5, AlertingInPlace

LEMMA AlertingResolved ==
    ASSUME StateInv, NEW k \in Keys, Resolve(k)
    PROVE  \A w \in DOMAIN incidents' : AlertingFrom(w)
<1>. DEFINE i == trackers[k].incident
            x == Resolved(incidents[i], DueAt(k))
<1>1. Pending(k)
  BY DEF Resolve, NextDue, Due
<1>2. i \in DOMAIN incidents /\ incidents[i] \in Incident /\ DueAt(k) \in Nat
  BY <1>1, PendingIsDue
<1>3. x \in Incident /\ x.notify = incidents[i].notify /\ x.downAfter = incidents[i].downAfter
  BY <1>2, ResolvedRecord
<1>4. incidents' = [incidents EXCEPT ![i] = x]
  BY DEF Resolve
<1>. QED
  BY <1>2, <1>3, <1>4, AlertingInPlace

LEMMA AlertingRecovered ==
    ASSUME StateInv, RecoveryInterrupted \/ RecoveryBegins
    PROVE  \A w \in DOMAIN incidents' : AlertingFrom(w)
<1>. DEFINE i == trackers[EvKey].incident
<1>1. /\ EvKey \in Keys /\ cs.ev.at \in Nat
      /\ trackers[EvKey].phase \in {"active", "pending_recovery"}
  BY EvidenceFacts DEF RecoveryInterrupted, RecoveryBegins, Finish
<1>2. i \in DOMAIN incidents /\ incidents[i] \in Incident
  BY <1>1, OpenFacts DEF OpenPhases
<1>3. PICK s \in States, since \in OptTime :
         incidents' = [incidents EXCEPT ![i] = Recovery(incidents[i], s, since)]
  BY <1>1 DEF RecoveryInterrupted, RecoveryBegins, States, OptTime
<1>4. LET x == Recovery(incidents[i], s, since)
      IN  x \in Incident /\ x.notify = incidents[i].notify /\ x.downAfter = incidents[i].downAfter
  BY <1>2, RecoveryRecord
<1>. QED
  BY <1>2, <1>3, <1>4, AlertingInPlace

LEMMA AlertingStarted ==
    ASSUME StateInv, StartIncident
    PROVE  \A w \in DOMAIN incidents' : AlertingFrom(w)
<1>. DEFINE e == cs.ev
            id == [host |-> e.host, iface |-> e.iface, at |-> e.at, msg |-> e.msg]
<1>1. cs.op = "observe" /\ ~e.online /\ e.at \in Nat
  BY EvidenceFacts DEF StartIncident, Finish
<1>2. cfg.down \in Nat \ {0}
  BY ConfigsAssumption DEF StateInv, TypeOK
<1>3. /\ DOMAIN incidents' = DOMAIN incidents \cup {id}
      /\ \A w \in DOMAIN incidents : w # id => incidents'[w] = incidents[w]
      /\ incidents'[id].notify = e.notify /\ incidents'[id].downAfter = cfg.down
  BY DEF StartIncident
<1>4. AlertingFrom(id)
  <2>1. e.at < id.at + incidents'[id].downAfter
    BY <1>1, <1>2, <1>3
  <2>. QED
    BY <1>1, <1>3, <2>1 DEF AlertingFrom, Reported
<1>. QED
  BY <1>3, <1>4 DEF AlertingFrom

LEMMA AlertingConfirmed ==
    ASSUME StateInv, FailureConfirmed, InSequence(trackers),
           trackers[EvKey].lastEvidenceAt <= cs.ev.at
    PROVE  \A w \in DOMAIN incidents' : AlertingFrom(w)
<1>. DEFINE i == trackers[EvKey].incident
            b == trackers[EvKey].notify \/ cs.ev.notify
            x == Alerting(incidents[i], b)
<1>1. /\ cs.op = "observe" /\ ~cs.ev.online /\ NothingDue(cs.now)
      /\ trackers[EvKey].phase = "pending_failure"
      /\ incidents' = [incidents EXCEPT ![i] = x]
  BY DEF FailureConfirmed, Finish
<1>2. /\ EvKey \in Keys /\ cs.ev.at \in Nat /\ trackers[EvKey] \in Tracker
      /\ cs.now = cs.ev.at /\ Pending(EvKey)
  BY <1>1, EvidenceFacts DEF Pending, StateInv, TypeOK
<1>3. /\ i \in DOMAIN incidents /\ incidents[i] \in Incident
      /\ incidents[i].startedAt = trackers[EvKey].pendingSince
      /\ incidents[i].notify = trackers[EvKey].notify
      /\ DueAt(EvKey) = incidents[i].startedAt + incidents[i].downAfter
  BY <1>1, <1>2, OpenFacts, PendingIsDue DEF OpenPhases
<1>4. i.host = cs.ev.host /\ i.iface = cs.ev.iface /\ incidents[i].startedAt = i.at
  <2>1. TrackerAgrees(EvKey)
    BY <1>1, EvidenceFacts
  <2>2. i.host = EvKey[1] /\ i.iface = EvKey[2]
    BY <1>1, <2>1 DEF TrackerAgrees, OpenPhases
  <2>. QED
    BY <1>3, <2>2 DEF EvKey, StateInv, TimelineWellFormed
<1>5. i.at <= cs.ev.at
  <2>1. trackers[EvKey].pendingSince <= trackers[EvKey].lastEvidenceAt
    BY <1>1, <1>2 DEF InSequence, OpenPhases
  <2>2. trackers[EvKey].pendingSince \in Int /\ trackers[EvKey].lastEvidenceAt \in Int
    BY <1>2 DEF Tracker, OptTime, NoTime
  <2>. QED
    BY <1>2, <1>3, <1>4, <2>1, <2>2
<1>6. cs.ev.at < i.at + incidents[i].downAfter
  <2>1. ~(DueAt(EvKey) <= cs.ev.at)
    BY <1>1, <1>2 DEF NothingDue, Due
  <2>2. incidents[i].startedAt \in Nat /\ incidents[i].downAfter \in Nat
    BY <1>3 DEF Incident
  <2>. QED
    BY <1>2, <1>3, <1>4, <2>1, <2>2
<1>7. x \in Incident /\ x.notify = b /\ x.downAfter = incidents[i].downAfter
  <2>1. b \in BOOLEAN
    OBVIOUS
  <2>. HIDE DEF b
  <2>. QED
    BY <1>3, <2>1, AlertingIncident
<1>8. /\ DOMAIN incidents' = DOMAIN incidents /\ incidents'[i] = x
      /\ \A w \in DOMAIN incidents : w # i => incidents'[w] = incidents[w]
  BY <1>1, <1>3, <1>7, IncidentUpdate
<1>9. AlertingFrom(i)
  BY <1>1, <1>3, <1>4, <1>5, <1>6, <1>7, <1>8 DEF AlertingFrom, Reported
<1>. QED
  BY <1>8, <1>9 DEF AlertingFrom

LEMMA LockedAlerting ==
    ASSUME StateInv, Locked, InSequence(trackers),
           cs.op = "observe" => trackers[EvKey].lastEvidenceAt <= cs.ev.at
    PROVE  \A w \in DOMAIN incidents' : AlertingFrom(w)
<1>1. CASE FinishTick \/ UpOverruled \/ PhaseConfirmed \/ FirstOnline
  BY <1>1 DEF FinishTick, UpOverruled, PhaseConfirmed, FirstOnline, AlertingFrom
<1>2. CASE FailureCancelled
  BY <1>2 DEF FailureCancelled, AlertingFrom
<1>3. CASE FailureConfirmed
  <2>1. cs.op = "observe"
    BY <1>3 DEF FailureConfirmed, Finish
  <2>. QED
    BY <1>3, <2>1, AlertingConfirmed
<1>. QED
  BY <1>1, <1>2, <1>3, AlertingActivated, AlertingResolved, AlertingRecovered, AlertingStarted
     DEF Locked

(* Each step of the engine keeps reports in sequence.                      *)
LEMMA SequenceUpdate ==
    ASSUME StateInv, InSequence(trackers), NEW k \in Keys, NEW t \in Tracker,
           trackers' = [trackers EXCEPT ![k] = t],
           t.phase \in OpenPhases => t.pendingSince <= t.lastEvidenceAt
    PROVE  InSequence(trackers')
<1>1. /\ trackers'[k] = t
      /\ \A o \in Keys : o # k => trackers'[o] = trackers[o]
  BY DEF StateInv, TypeOK
<1>. QED
  BY <1>1 DEF InSequence

LEMMA LockedSequence ==
    ASSUME StateInv, Locked, InSequence(trackers),
           cs.op = "observe" => trackers[EvKey].lastEvidenceAt <= cs.ev.at
    PROVE  /\ InSequence(trackers')
           /\ cs'.op = "observe" =>
                 cs' = cs /\ trackers'[EvKey].lastEvidenceAt <= cs.ev.at
<1>1. ASSUME NEW k \in Keys, NEW t \in Tracker, trackers' = [trackers EXCEPT ![k] = t],
             t.lastEvidenceAt = trackers[k].lastEvidenceAt,
             t.phase \in OpenPhases => /\ trackers[k].phase \in OpenPhases
                                       /\ t.pendingSince = trackers[k].pendingSince,
             cs' = cs
      PROVE  /\ InSequence(trackers')
             /\ cs'.op = "observe" =>
                   cs' = cs /\ trackers'[EvKey].lastEvidenceAt <= cs.ev.at
  <2>1. InSequence(trackers')
    BY <1>1, SequenceUpdate DEF InSequence
  <2>2. \A o \in Keys : trackers'[o].lastEvidenceAt = trackers[o].lastEvidenceAt
    BY <1>1 DEF StateInv, TypeOK
  <2>3. cs.op = "observe" => EvKey \in Keys
    BY EvidenceFacts
  <2>. QED
    BY <1>1, <2>1, <2>2, <2>3
<1>2. ASSUME NEW k \in Keys, ActivatePrimary(k) \/ ActivateFallback(k)
      PROVE  /\ InSequence(trackers')
             /\ cs'.op = "observe" =>
                   cs' = cs /\ trackers'[EvKey].lastEvidenceAt <= cs.ev.at
  <2>. DEFINE t == Moved(trackers[k], "active", trackers[k].recoverySince)
  <2>1. trackers[k] \in Tracker /\ trackers[k].recoverySince \in OptTime
    BY DEF StateInv, TypeOK, Tracker
  <2>2. /\ t \in Tracker /\ t.lastEvidenceAt = trackers[k].lastEvidenceAt
        /\ t.pendingSince = trackers[k].pendingSince
    <3>1. "active" \in Phases
      BY DEF Phases
    <3>. QED
      BY <2>1, <3>1, MovedRecord
  <2>3. trackers[k].phase \in OpenPhases
    BY <1>2 DEF ActivatePrimary, ActivateFallback, OpenPhases
  <2>4. trackers' = [trackers EXCEPT ![k] = t] /\ cs' = cs
    BY <1>2 DEF ActivatePrimary, ActivateFallback
  <2>. QED
    BY <1>1, <2>2, <2>3, <2>4
<1>3. ASSUME NEW k \in Keys, Resolve(k)
      PROVE  /\ InSequence(trackers')
             /\ cs'.op = "observe" =>
                   cs' = cs /\ trackers'[EvKey].lastEvidenceAt <= cs.ev.at
  <2>. DEFINE t == FreshTracker("healthy", trackers[k].lastEvidenceAt)
  <2>1. trackers[k].lastEvidenceAt \in OptTime
    BY DEF StateInv, TypeOK, Tracker
  <2>2. /\ t \in Tracker /\ t.lastEvidenceAt = trackers[k].lastEvidenceAt
        /\ t.phase \notin OpenPhases
    BY <2>1 DEF FreshTracker, Tracker, Phases, OpenPhases, OptTime
  <2>3. trackers' = [trackers EXCEPT ![k] = t] /\ cs' = cs
    BY <1>3 DEF Resolve
  <2>. QED
    BY <1>1, <2>2, <2>3
<1>4. ASSUME cs' = Idle PROVE cs'.op # "observe"
  BY <1>4 DEF Idle
<1>5. CASE FinishTick \/ UpOverruled
  BY <1>4, <1>5 DEF FinishTick, UpOverruled
<1>6. ASSUME cs.op = "observe", NEW t \in Tracker, trackers' = [trackers EXCEPT ![EvKey] = t],
             t.lastEvidenceAt = cs.ev.at,
             t.phase \in OpenPhases =>
                 \/ t.pendingSince = cs.ev.at
                 \/ /\ trackers[EvKey].phase \in OpenPhases
                    /\ t.pendingSince = trackers[EvKey].pendingSince
      PROVE  InSequence(trackers')
  <2>1. EvKey \in Keys /\ trackers[EvKey] \in Tracker /\ cs.ev.at \in Nat
    BY <1>6, EvidenceFacts
  <2>2. trackers[EvKey].lastEvidenceAt \in Int /\ trackers[EvKey].pendingSince \in Int
    BY <2>1 DEF Tracker, OptTime, NoTime
  <2>3. t.phase \in OpenPhases => t.pendingSince <= t.lastEvidenceAt
    BY <1>6, <2>1, <2>2 DEF InSequence
  <2>. QED
    BY <1>6, <2>1, <2>3, SequenceUpdate
<1>7. ASSUME \/ StartIncident \/ FailureConfirmed \/ RecoveryInterrupted \/ PhaseConfirmed
             \/ FirstOnline \/ FailureCancelled \/ RecoveryBegins
      PROVE  InSequence(trackers') /\ cs' = Idle
  <2>1. cs.op = "observe" /\ cs' = Idle
    BY <1>7 DEF StartIncident, FailureConfirmed, RecoveryInterrupted, PhaseConfirmed,
       FirstOnline, FailureCancelled, RecoveryBegins, Finish
  <2>2. /\ cs.ev \in Evidence /\ cs.ev.at \in Nat /\ cs.ev.at \in OptTime /\ EvKey \in Keys
        /\ trackers[EvKey] \in Tracker
    BY <2>1, EvidenceFacts DEF OptTime
  <2>. DEFINE r == Recorded(trackers[EvKey], cs.ev)
  <2>3. /\ r \in Tracker /\ r.lastEvidenceAt = cs.ev.at /\ r.phase = trackers[EvKey].phase
        /\ r.pendingSince = trackers[EvKey].pendingSince
    BY <2>2, RecordedRecord
  <2>4. CASE StartIncident
    <3>. DEFINE e == cs.ev
                t == [phase |-> "pending_failure", pendingSince |-> e.at,
                      recoverySince |-> NoTime, lastEvidenceAt |-> e.at,
                      incident |-> [host |-> e.host, iface |-> e.iface, at |-> e.at,
                                    msg |-> e.msg],
                      notify |-> e.notify, reachabilityDown |-> e.reachability]
    <3>1. trackers' = [trackers EXCEPT ![EvKey] = t]
      BY <2>4 DEF StartIncident
    <3>2. t.pendingSince = cs.ev.at /\ t.lastEvidenceAt = cs.ev.at
      OBVIOUS
    <3>. HIDE DEF t
    <3>3. t \in Tracker
      BY <2>2, <3>1, LockedState DEF StateInv, TypeOK
    <3>. QED
      BY <1>6, <2>1, <3>1, <3>2, <3>3
  <2>5. CASE FailureConfirmed
    <3>. DEFINE b == trackers[EvKey].notify \/ cs.ev.notify
    <3>1. trackers' = [trackers EXCEPT ![EvKey] = Alerting(r, b)] /\ b \in BOOLEAN
      BY <2>5 DEF FailureConfirmed
    <3>. HIDE DEF b, r
    <3>2. LET t == Alerting(r, b) IN
          /\ t \in Tracker /\ t.lastEvidenceAt = cs.ev.at /\ t.phase = trackers[EvKey].phase
          /\ t.pendingSince = trackers[EvKey].pendingSince
      BY <2>3, <3>1, AlertingTracker
    <3>. QED
      BY <1>6, <2>1, <3>1, <3>2
  <2>6. CASE RecoveryInterrupted \/ RecoveryBegins
    <3>1. PICK p \in Phases, since \in OptTime :
             trackers' = [trackers EXCEPT ![EvKey] = Moved(r, p, since)]
      BY <2>2, <2>6 DEF RecoveryInterrupted, RecoveryBegins, Phases, OptTime
    <3>2. trackers[EvKey].phase \in OpenPhases
      BY <2>6 DEF RecoveryInterrupted, RecoveryBegins, Finish, OpenPhases
    <3>. HIDE DEF r
    <3>3. LET t == Moved(r, p, since) IN
          /\ t \in Tracker /\ t.lastEvidenceAt = cs.ev.at
          /\ t.pendingSince = trackers[EvKey].pendingSince
      BY <2>3, MovedRecord
    <3>. QED
      BY <1>6, <2>1, <3>1, <3>2, <3>3
  <2>7. CASE PhaseConfirmed
    <3>1. trackers' = [trackers EXCEPT ![EvKey] = r]
      BY <2>7 DEF PhaseConfirmed
    <3>. QED
      BY <1>6, <2>1, <2>3, <3>1
  <2>8. CASE FirstOnline \/ FailureCancelled
    <3>. DEFINE t == FreshTracker("healthy", cs.ev.at)
    <3>1. trackers' = [trackers EXCEPT ![EvKey] = t]
      BY <2>8 DEF FirstOnline, FailureCancelled
    <3>2. t \in Tracker /\ t.lastEvidenceAt = cs.ev.at /\ t.phase \notin OpenPhases
      BY <2>2 DEF FreshTracker, Tracker, Phases, OpenPhases, OptTime
    <3>. QED
      BY <1>6, <2>1, <3>1, <3>2
  <2>. QED
    BY <1>7, <2>1, <2>4, <2>5, <2>6, <2>7, <2>8
<1>. QED
  BY <1>2, <1>3, <1>4, <1>5, <1>7 DEF Locked

-----------------------------------------------------------------------------
(* Steps that leave the engine alone, and save it or not.                  *)
LEMMA SourceFrame ==
    ASSUME SourceInv, UNCHANGED vars, Log \subseteq Log',
           disk' = disk \/ \E p, d : disk' = Snapshot(p, d),
           worker'.previous \subseteq worker.previous,
           faults'.truncate = 0 => faults.truncate = 0
    PROVE  SourceInv'
<1>1. UNCHANGED <<cs, trackers, incidents, jobs>>
  BY DEF vars
<1>2. /\ \A x, q : Lively(Log, x, q) => Lively(Log', x, q)
      /\ \A x : Prompt(Log, x) => Prompt(Log', x)
      /\ \A ev : LiveEvidence(Log, ev) => LiveEvidence(Log', ev)
  BY LiveGrows
<1>3. \/ disk' = disk
      \/ /\ disk'.trackers = trackers /\ disk'.incidents = incidents /\ disk'.jobs = jobs
  BY DEF Snapshot
<1>4. cs'.op = "observe" => trackers'[EvKey'].lastEvidenceAt <= cs'.ev.at
                             /\ LiveEvidence(Log', cs'.ev)
  BY <1>1, <1>2 DEF SourceInv, EvKey
<1>5. InSequence(trackers') /\ InSequence(disk'.trackers)
  BY <1>1, <1>3 DEF SourceInv
<1>6. Lively(Log', incidents', jobs') /\ Lively(Log', disk'.incidents, disk'.jobs)
  BY <1>1, <1>2, <1>3 DEF SourceInv
<1>7. \A old \in worker'.previous : Lively(Log', old.incidents, old.jobs)
  BY <1>2 DEF SourceInv
<1>8. faults'.truncate = 0 => Prompt(Log', incidents') /\ Prompt(Log', disk'.incidents)
  BY <1>1, <1>2, <1>3 DEF SourceInv
<1>. QED
  BY <1>4, <1>5, <1>6, <1>7, <1>8 DEF SourceInv

(* The engine turns a report that may alert, and is live, into incidents   *)
(* and jobs about a live failure.                                          *)
LEMMA SourceTurns ==
    ASSUME EngineInv, SteadyInv, SourceInv, EngineStep
    PROVE  SourceInv'
<1>1. Locked /\ UNCHANGED <<archive, lost, worker, disk, faults>>
  BY DEF EngineStep, workerVars
<1>2. Log' = Log
  BY <1>1 DEF Log
<1>3. StateInv /\ StateInv' /\ AlertsKept
  BY <1>1, LockedState, LockedAlerts DEF EngineInv, AlertInv
<1>4. /\ InSequence(trackers')
      /\ cs'.op = "observe" => cs' = cs /\ trackers'[EvKey].lastEvidenceAt <= cs.ev.at
  BY <1>1, <1>3, LockedSequence DEF SourceInv
<1>5. \A w \in DOMAIN incidents' : AlertingFrom(w)
  BY <1>1, <1>3, LockedAlerting DEF SourceInv
<1>6. ASSUME NEW i \in DOMAIN incidents', Reported(i, incidents'[i])
      PROVE  LiveIn(Log, i, MaxTime + 1) /\ LiveIn(Log, i, i.at + incidents'[i].downAfter)
  <2>1. cs.op = "observe" /\ LiveEvidence(Log, cs.ev)
    BY <1>6 DEF Reported, SourceInv
  <2>2. PICK r \in Log : /\ ~r.import /\ r.at >= FirstStart /\ ~cs.ev.observeOnly
                         /\ cs.ev = Classify(r.input, r.at, r.id, TRUE)
    BY <1>6, <2>1 DEF LiveEvidence, Reported
  <2>3. r.at \in Nat /\ r.at < MaxTime + 1
    <3>1. r \in Record
      BY StoredRecord DEF SteadyInv, RecoveryInv
    <3>. QED
      BY <3>1, BoundsAssumption DEF Record
  <2>. DEFINE e == Classify(r.input, r.at, r.id, FALSE)
  <2>4. /\ e.online = cs.ev.online /\ e.observeOnly = cs.ev.observeOnly
        /\ e.host = cs.ev.host /\ e.iface = cs.ev.iface /\ cs.ev.at = r.at
    <3>. DEFINE c == Classify(r.input, r.at, r.id, TRUE)
    <3>1. /\ c.at = r.at /\ e.host = c.host /\ e.iface = c.iface
          /\ e.online = c.online /\ e.observeOnly = c.observeOnly
      <4>1. c.at = r.at /\ e.host = c.host /\ e.iface = c.iface
        BY DEF Classify
      <4>2. e.online = c.online
        BY Zenon DEF Classify
      <4>3. e.observeOnly = c.observeOnly
        BY Zenon DEF Classify
      <4>. QED
        BY <4>1, <4>2, <4>3
    <3>. HIDE DEF c, e
    <3>2. cs.ev = c
      BY <2>2 DEF c
    <3>. QED
      BY <3>1, <3>2
  <2>5. /\ ~e.online /\ ~e.observeOnly /\ e.host = i.host /\ e.iface = i.iface
        /\ i.at <= r.at /\ r.at < i.at + incidents'[i].downAfter
    BY <1>6, <2>2, <2>4 DEF Reported
  <2>. QED
    BY <2>2, <2>3, <2>5 DEF LiveIn
<1>7. \A i \in DOMAIN incidents' : incidents'[i].notify => LiveIn(Log, i, MaxTime + 1)
  BY <1>5, <1>6 DEF AlertingFrom, SourceInv, Lively
<1>8. \A j \in DOMAIN jobs' : LiveIn(Log, j.incident, MaxTime + 1)
  <2>1. ASSUME NEW j \in DOMAIN jobs', j \notin DOMAIN jobs
        PROVE  j.incident \in DOMAIN incidents' /\ incidents'[j.incident].notify
    BY <1>3, <2>1 DEF AlertsKept, AddedJustified, Justified
  <2>. QED
    BY <1>7, <2>1 DEF SourceInv, Lively
<1>9. faults.truncate = 0 => Prompt(Log, incidents')
  BY <1>5, <1>6 DEF AlertingFrom, SourceInv, Prompt
<1>10. cs'.op = "observe" => /\ trackers'[EvKey'].lastEvidenceAt <= cs'.ev.at
                             /\ LiveEvidence(Log, cs'.ev)
  BY <1>4 DEF SourceInv, EvKey
<1>11. Lively(Log, incidents', jobs')
  BY <1>7, <1>8 DEF Lively
<1>. QED
  BY <1>1, <1>2, <1>4, <1>9, <1>10, <1>11 DEF SourceInv

(* Old records do not alert: a record that may alert is live.              *)
LEMMA EligibleLive ==
    ASSUME ReadInv, SteadyInv, NEW p \in worker.batch, Eligible(p)
    PROVE  ~p.record.import /\ p.record.at >= FirstStart
<1>. DEFINE r == p.record
<1>1. r \in Record
  BY StoredRecord DEF SteadyInv, RecoveryInv, BatchInv
<1>2. r.at \in Nat
  BY <1>1 DEF Record
<1>. HIDE DEF r
<1>. SUFFICES ASSUME r.at < FirstStart PROVE FALSE
  BY <1>2 DEF Eligible, r, FirstStart
<1>3. OldRead(p) /\ r.at = 0
  BY <1>2 DEF ReadInv, Old, r, Eligible, FirstStart
<1>4. progress.bootstrapped
  BY <1>2 DEF Eligible, ReadInv, r, FirstStart
<1>5. worker.changed # NoFile /\ Len(progress.cursors[0]) >= 1 /\ p.file = 0 /\ p.offset = 1
  BY <1>3, <1>4 DEF OldRead
<1>6. progress.checkpointAt \in OptTime /\ progress.cursors \in [Files -> Seq(MsgIDs)]
  BY DEF SteadyInv, TypedInv, ProgressType
<1>7. 0 \in Files
  BY FirstFile
<1>8. Len(progress.cursors[0]) \in Nat
  BY <1>6, <1>7
<1>9. CASE p.file = worker.changed
  BY <1>3, <1>6, <1>9 DEF Eligible, New, OptTime, NoTime, r
<1>10. CASE p.file # worker.changed
  BY <1>5, <1>8, <1>10 DEF Eligible, New
<1>. QED
  BY <1>9, <1>10

(* A record that is applied, and a tick that begins.                       *)
LEMMA SourceBegins ==
    ASSUME EngineInv, SteadyInv, SourceInv, ReadInv,
           TickChanges \/ \E p \in worker.batch : ApplyRecord(p)
    PROVE  SourceInv'
<1>0. DOMAIN worker = WorkerFields
  BY DEF SteadyInv, OutboxInv, Shapes
<1>1. UNCHANGED <<incidents, jobs, disk, faults, archive, lost>>
  BY DEF TickChanges, BeginTick, ApplyRecord, ObserveIgnored, ObserveSelection, BeginObserve
<1>2. Log' = Log
  BY <1>1 DEF Log
<1>3. worker'.previous = worker.previous
  BY <1>0 DEF TickChanges, ApplyRecord, WorkerFields
<1>4. /\ InSequence(trackers')
      /\ cs'.op = "observe" => /\ trackers'[EvKey'].lastEvidenceAt <= cs'.ev.at
                               /\ LiveEvidence(Log, cs'.ev)
  <2>1. CASE TickChanges
    BY <2>1 DEF TickChanges, BeginTick, SourceInv
  <2>2. ASSUME NEW p \in worker.batch, ApplyRecord(p)
        PROVE  /\ InSequence(trackers')
               /\ cs'.op = "observe" => /\ trackers'[EvKey'].lastEvidenceAt <= cs'.ev.at
                                        /\ LiveEvidence(Log, cs'.ev)
    <3>. DEFINE r == p.record
    <3>1. r \in Log /\ r \in Record
      BY StoredRecord DEF SteadyInv, RecoveryInv, BatchInv
    <3>2. r.at \in Nat /\ r.id \in Nat /\ r.input.host \in Hosts
      BY <3>1, InputsAssumption, ImportsAssumption DEF Record, MsgIDs
    <3>3. Eligible(p) \in BOOLEAN
      BY DEF Eligible
    <3>4. Eligible(p) => ~r.import /\ r.at >= FirstStart
      BY EligibleLive
    <3>5. \/ ObserveIgnored(r.input, r.at, r.id)
          \/ ObserveSelection(r.input, r.at, r.id)
          \/ BeginObserve(r.input, r.at, r.id, Eligible(p))
      BY <2>2 DEF ApplyRecord
    <3>. HIDE DEF r
    <3>6. \A b \in BOOLEAN : Supported(r.input) =>
             LET e == Classify(r.input, r.at, r.id, b) IN
             /\ e \in Evidence /\ e.at = r.at /\ <<e.host, e.iface>> \in Keys
      <4>1. \A b \in BOOLEAN : Supported(r.input) =>
               LET e == Classify(r.input, r.at, r.id, b) IN e \in Evidence /\ e.at = r.at
        BY <3>2, ClassifyType
      <4>. QED
        BY <4>1 DEF Evidence, Keys
    <3>7. \A k \in Keys : trackers[k] \in Tracker
      BY DEF EngineInv, StateInv, TypeOK
    <3>8. \A k \in Keys : trackers[k].lastEvidenceAt \in Int /\ trackers[k].pendingSince \in Int
      BY <3>7 DEF Tracker, OptTime, NoTime
    <3>9. CASE ObserveIgnored(r.input, r.at, r.id)
      BY <3>9 DEF ObserveIgnored, Receive, Idle, SourceInv
    <3>10. CASE ObserveSelection(r.input, r.at, r.id)
      <4>. DEFINE e == Classify(r.input, r.at, r.id, FALSE)
                  k == <<e.host, e.iface>>
                  t == Selected(trackers[k], r.at)
      <4>1. /\ k \in Keys /\ e.at = r.at /\ ~Stale(e) /\ cs' = Idle
            /\ trackers' = [trackers EXCEPT ![k] = t]
        BY <3>6, <3>10 DEF ObserveSelection, Receive
      <4>. HIDE DEF e
      <4>2. trackers[k].lastEvidenceAt <= r.at
        BY <3>2, <3>8, <4>1 DEF Stale
      <4>3. /\ t \in Tracker /\ t.lastEvidenceAt = r.at
            /\ t.pendingSince = trackers[k].pendingSince
            /\ t.phase = IF trackers[k].phase = "" THEN "healthy" ELSE trackers[k].phase
        BY <3>2, <3>7, <4>1, SelectedRecord
      <4>. HIDE DEF t, k
      <4>4. t.phase \in OpenPhases => t.pendingSince <= t.lastEvidenceAt
        <5>1. t.phase \in OpenPhases => trackers[k].phase \in OpenPhases
          BY <4>3 DEF OpenPhases
        <5>2. trackers[k].phase \in OpenPhases =>
                 trackers[k].pendingSince <= trackers[k].lastEvidenceAt
          BY <4>1 DEF SourceInv, InSequence
        <5>3. trackers[k].lastEvidenceAt \in Int /\ trackers[k].pendingSince \in Int
          BY <3>8, <4>1
        <5>4. t.lastEvidenceAt = r.at /\ t.pendingSince = trackers[k].pendingSince /\ r.at \in Int
          <6>1. t.lastEvidenceAt = r.at
            BY <4>3
          <6>2. t.pendingSince = trackers[k].pendingSince
            BY <4>3
          <6>3. r.at \in Int
            BY <3>2
          <6>. QED
            BY <6>1, <6>2, <6>3
        <5>. QED
          BY <4>2, <5>1, <5>2, <5>3, <5>4
      <4>5. InSequence(trackers')
        BY <4>1, <4>3, <4>4, SequenceUpdate DEF EngineInv, SourceInv
      <4>. QED
        BY <4>1, <4>5 DEF Idle
    <3>11. CASE BeginObserve(r.input, r.at, r.id, Eligible(p))
      <4>. DEFINE e == Classify(r.input, r.at, r.id, Eligible(p))
                  k == <<e.host, e.iface>>
      <4>1. /\ k \in Keys /\ e.at = r.at /\ ~Stale(e) /\ ~e.observeOnly /\ cs'.ev = e
            /\ UNCHANGED trackers
        BY <3>3, <3>6, <3>11 DEF BeginObserve
      <4>2. trackers[k].lastEvidenceAt <= r.at
        BY <3>2, <3>8, <4>1 DEF Stale
      <4>3. EvKey' = k
        BY <4>1 DEF EvKey
      <4>4. e.notify => Eligible(p) = TRUE
        BY <3>3 DEF Classify
      <4>5. LiveEvidence(Log, e)
        BY <3>1, <3>4, <4>1, <4>4 DEF LiveEvidence
      <4>. QED
        BY <4>1, <4>2, <4>3, <4>5 DEF SourceInv
    <3>. QED
      BY <3>5, <3>9, <3>10, <3>11
  <2>. QED
    BY <2>1, <2>2
<1>. QED
  BY <1>1, <1>2, <1>3, <1>4 DEF SourceInv

-----------------------------------------------------------------------------
(* A file that is put back is counted for good, and so is one that lost    *)
(* records.                                                                *)
LEMMA NotRestored ==
    ASSUME OutboxInv, WorkerNext \/ UNCHANGED allVars, faults'.restore = 0
    PROVE  /\ faults.restore = 0
           /\ faults'.truncate = 0 => faults.truncate = 0
           /\ \A f \in Files : Replaced(f) =>
                 \E n \in 0 .. Len(archive[f]) - 1 :
                    archive' = [archive EXCEPT ![f] = SubSeq(@, 1, n)]
<1>1. /\ faults.truncate \in Nat /\ faults.restore \in Nat
      /\ DOMAIN faults = FaultKinds
  BY DEF OutboxInv, Shapes, FaultKinds
<1>2. \/ faults' = faults
      \/ \E kind \in FaultKinds : faults' = [faults EXCEPT ![kind] = @ + 1]
  BY DEF WorkerNext, WorkerStep, Receives, Imports, Store, Publish, AppendCut, Replaced,
     TimePasses, Woken,
         Periodic, EverySecond, StartUp, VisitFile, PartitionChanged, AllVisited, BeginRebuild,
         ApplyRecord, EngineStep, Checkpoint, Rebuild, TickChanges, TickSaved,
         TickChangesNothing, Sends, SendSucceeds, SendFails, GivesUp, MarkJob, Rests,
         DispatchDone, VisitFails,
         Crash, SaveFails, allVars, workerVars, FaultKinds
<1>3. faults.restore = 0 /\ (faults'.truncate = 0 => faults.truncate = 0)
  BY <1>1, <1>2 DEF FaultKinds
<1>4. faults' # [faults EXCEPT !.restore = @ + 1]
  BY <1>1, <1>3 DEF FaultKinds
<1>5. ASSUME NEW f \in Files, Replaced(f)
      PROVE  \E n \in 0 .. Len(archive[f]) - 1 :
                archive' = [archive EXCEPT ![f] = SubSeq(@, 1, n)]
  BY <1>4, <1>5 DEF Replaced
<1>. QED
  BY <1>3, <1>5

(* Nothing old is added to a file, nor moved in it.                        *)
LEMMA ReadOutside ==
    ASSUME ReadInv, SteadyInv, SteadyInv', WorkerNext \/ UNCHANGED allVars,
           faults'.restore = 0,
           \/ \E m \in Inputs : Receives(m)
           \/ \E m \in ImportInputs, at \in 0 .. MaxTime : Imports(m, at)
           \/ \E writer \in {"syslog", "import"} : Publish(writer)
           \/ \E f \in Files : AppendCut(f) \/ Replaced(f)
           \/ TimePasses
           \/ EngineStep
           \/ UNCHANGED allVars
    PROVE  ReadInv'
<1>0. archive \in [Files -> Seq(Record)] /\ archive' \in [Files -> Seq(Record)] /\ clock \in Nat
  BY DEF SteadyInv, RecoveryInv, Filed
<1>1. UNCHANGED <<worker, progress, disk, startedAt>>
  BY DEF Receives, Imports, Store, Publish, AppendCut, Replaced, TimePasses, EngineStep, allVars,
     workerVars
<1>2. clock' >= FirstStart
  <2>1. clock' = clock \/ clock' = clock + 1
    BY DEF Receives, Imports, Store, Publish, AppendCut, Replaced, TimePasses, EngineStep, allVars,
       workerVars
  <2>. QED
    BY <1>0, <2>1 DEF ReadInv, FirstStart
<1>3. ASSUME NEW f \in Files, NEW n \in 1 .. Len(archive'[f]), Old(archive'[f][n])
      PROVE  n \in 1 .. Len(archive[f]) /\ archive'[f][n] = archive[f][n]
  <2>1. ASSUME NEW writer, NEW r, Store(writer, r), ~Old(r)
        PROVE  n \in 1 .. Len(archive[f]) /\ archive'[f][n] = archive[f][n]
    <3>1. archive' = [archive EXCEPT ![FileOf(r)] = Append(@, r)]
      BY <2>1 DEF Store
    <3>2. CASE f # FileOf(r)
      BY <1>0, <3>1, <3>2
    <3>3. CASE f = FileOf(r)
      <4>1. archive[f] \in Seq(Record) /\ archive'[f] = Append(archive[f], r)
        BY <1>0, <3>1, <3>3
      <4>2. Len(archive'[f]) = Len(archive[f]) + 1 /\ Len(archive[f]) \in Nat
        BY <4>1
      <4>3. n = Len(archive[f]) + 1 => archive'[f][n] = r
        BY <4>1
      <4>4. n \in 1 .. Len(archive[f])
        BY <1>3, <2>1, <4>2, <4>3
      <4>. QED
        BY <4>1, <4>4
    <3>. QED
      BY <3>2, <3>3
  <2>2. CASE \E m \in Inputs : Receives(m)
    <3>1. PICK m, id, source, r :
             /\ m \in Inputs /\ id \in NextID /\ source \in 0 .. Sources - 1
             /\ r = [id |-> id, input |-> m, at |-> clock, source |-> source, import |-> FALSE,
                    whole |-> TRUE]
             /\ Store("syslog", Line(r))
      BY <2>2 DEF Receives
    <3>2. r \in Record /\ ~Old(r)
      BY <1>0, <3>1 DEF Old, ReadInv, FirstStart, Record, NextID, SteadyInv, RecoveryInv
    <3>3. ~Old(Line(r))
      BY <3>2, Lined DEF Old
    <3>. QED
      BY <2>1, <3>1, <3>3
  <2>3. CASE \E m \in ImportInputs, at \in 0 .. MaxTime : Imports(m, at)
    <3>1. PICK m, at, id, source, r :
             /\ m \in ImportInputs /\ at \in 0 .. MaxTime /\ id \in NextID
             /\ source \in 0 .. Sources - 1
             /\ r = [id |-> id, input |-> m, at |-> at, source |-> source, import |-> TRUE,
                    whole |-> TRUE]
             /\ Store("import", Line(r))
      BY <2>3 DEF Imports
    <3>2. r \in Record /\ ~Old(r)
      BY <3>1 DEF Old, Record, NextID
    <3>3. ~Old(Line(r))
      BY <3>2, Lined DEF Old
    <3>. QED
      BY <2>1, <3>1, <3>3
  <2>4. ASSUME NEW g \in Files, Replaced(g)
        PROVE  n \in 1 .. Len(archive[f]) /\ archive'[f][n] = archive[f][n]
    <3>1. PICK c \in 0 .. Len(archive[g]) - 1 :
             archive' = [archive EXCEPT ![g] = SubSeq(@, 1, c)]
      BY <2>4, NotRestored DEF SteadyInv
    <3>2. CASE f # g
      BY <1>0, <3>1, <3>2
    <3>3. CASE f = g
      <4>1. archive[f] \in Seq(Record) /\ archive'[f] = SubSeq(archive[f], 1, c)
        BY <1>0, <3>1, <3>3
      <4>2. Len(archive[f]) \in Nat /\ c \in Nat /\ c <= Len(archive[f])
        BY <3>3, <4>1
      <4>3. Len(archive'[f]) = c
        BY <4>1, <4>2
      <4>. QED
        BY <4>1, <4>2, <4>3
    <3>. QED
      BY <3>2, <3>3
  <2>5. CASE archive' = archive
    BY <2>5
  <2>. QED
    BY <2>2, <2>3, <2>4, <2>5 DEF Publish, AppendCut, TimePasses, EngineStep, allVars, workerVars
<1>4. \A f \in Files : \A n \in 1 .. Len(archive'[f]) : Old(archive'[f][n]) => f = 0 /\ n = 1
  BY <1>3 DEF ReadInv
<1>5. HasOld' => HasOld
  <2>1. 0 \in Files
    BY FirstFile
  <2>2. archive'[0] \in Seq(Record) /\ archive[0] \in Seq(Record)
    BY <1>0, <2>1
  <2>3. archive'[0] # <<>> => 1 \in 1 .. Len(archive'[0])
    BY <2>2
  <2>4. 1 \in 1 .. Len(archive[0]) => archive[0] # <<>>
    BY <2>2
  <2>. QED
    BY <1>3, <2>1, <2>3, <2>4 DEF HasOld, Old
<1>6. \A c : Covered(c) => (HasOld' => Len(c[0]) >= 1)
  BY <1>5 DEF Covered
<1>7. /\ progress'.bootstrapped => Covered(progress.cursors)'
      /\ disk'.progress.bootstrapped => Covered(disk.progress.cursors)'
      /\ worker'.pc = "visit" => 0 \in worker'.files \/ Covered(worker.next)'
      /\ worker'.pc = "apply" => Covered(worker.next)'
  BY <1>1, <1>6 DEF ReadInv, Covered
<1>8. \A p \in worker'.batch : Old(p.record) => OldRead(p)'
  BY <1>1 DEF ReadInv, OldRead
<1>9. (worker'.pc = "visit" /\ worker'.changed = NoFile) =>
          \A f \in worker'.files : worker'.next[f] = progress'.cursors[f]
  BY <1>1 DEF ReadInv
<1>10. startedAt' \in Nat /\ startedAt' >= FirstStart
  BY <1>1 DEF ReadInv
<1>. QED
  BY <1>2, <1>4, <1>7, <1>8, <1>9, <1>10 DEF ReadInv, Old

(* Steps of the worker: the files stay as they are.                        *)
LEMMA ReadInside ==
    ASSUME ReadInv, UNCHANGED <<archive, clock>>, startedAt' \in {startedAt, clock}, clock \in Nat,
           progress'.bootstrapped => Covered(progress'.cursors),
           disk'.progress \in {disk.progress, progress'},
           worker'.pc = "visit" => 0 \in worker'.files \/ Covered(worker'.next),
           worker'.pc = "apply" => Covered(worker'.next),
           (worker'.pc = "visit" /\ worker'.changed = NoFile) =>
              \A f \in worker'.files : worker'.next[f] = progress'.cursors[f],
           \A p \in worker'.batch : Old(p.record) => OldRead(p)'
    PROVE  ReadInv'
<1>1. HasOld' = HasOld
  BY DEF HasOld, Old
<1>2. /\ progress'.bootstrapped => Covered(progress.cursors)'
      /\ worker'.pc = "visit" => 0 \in worker'.files \/ Covered(worker.next)'
      /\ worker'.pc = "apply" => Covered(worker.next)'
  BY <1>1 DEF Covered
<1>3. disk'.progress.bootstrapped => Covered(disk.progress.cursors)'
  BY <1>1 DEF Covered, ReadInv
<1>4. startedAt' \in Nat /\ startedAt' >= FirstStart /\ clock' >= FirstStart
  BY DEF ReadInv
<1>5. \A f \in Files : \A n \in 1 .. Len(archive'[f]) : Old(archive'[f][n]) => f = 0 /\ n = 1
  BY DEF ReadInv
<1>. QED
  BY <1>2, <1>3, <1>4, <1>5 DEF ReadInv, Old

(* The old record is read with the first file.                             *)
LEMMA ReadVisits ==
    ASSUME ReadInv, SteadyInv, NEW f \in Files, VisitFile(f)
    PROVE  ReadInv'
<1>0. DOMAIN worker = WorkerFields
  BY DEF SteadyInv, OutboxInv, Shapes
<1>1. /\ UNCHANGED <<archive, clock, startedAt, progress, disk>> /\ clock \in Nat
      /\ worker.pc = "visit" /\ worker'.pc = "visit" /\ worker'.changed = worker.changed
      /\ f \in worker.files /\ worker'.files = worker.files \ {f}
      /\ worker'.batch = worker.batch \cup Unread(f)
      /\ worker'.next = [worker.next EXCEPT ![f] = IDs(f)]
  BY <1>0 DEF VisitFile, Visiting, WorkerFields, SteadyInv, RecoveryInv
<1>2. /\ archive \in [Files -> Seq(Record)] /\ worker.next \in [Files -> Seq(MsgIDs)]
      /\ progress.cursors \in [Files -> Seq(MsgIDs)]
  BY DEF SteadyInv, RecoveryInv, Filed, CursorsInv, Reads
<1>3. 0 \in Files
  BY FirstFile
<1>4. archive[f] \in Seq(Record) /\ Len(archive[f]) \in Nat
  BY <1>2
<1>5. Len(IDs(f)) = Len(archive[f])
  BY <1>4 DEF IDs
<1>6. 0 \in worker'.files \/ Covered(worker'.next)
  <2>1. CASE f = 0
    <3>1. worker'.next[0] = IDs(f)
      BY <1>1, <1>2, <1>3, <2>1
    <3>2. HasOld => Len(archive[f]) >= 1
      BY <1>4, <2>1 DEF HasOld
    <3>. QED
      BY <1>5, <3>1, <3>2 DEF Covered
  <2>2. CASE f # 0
    <3>1. worker'.next[0] = worker.next[0]
      BY <1>1, <1>2, <1>3, <2>2
    <3>. QED
      BY <1>1, <2>2, <3>1 DEF ReadInv, Covered
  <2>. QED
    BY <2>1, <2>2
<1>7. ASSUME worker'.changed = NoFile, NEW g \in worker'.files
      PROVE  worker'.next[g] = progress'.cursors[g]
  <2>1. worker'.next[g] = worker.next[g]
    BY <1>1, <1>2, <1>7
  <2>. QED
    BY <1>1, <1>7, <2>1 DEF ReadInv
<1>8. ASSUME NEW p \in worker'.batch, Old(p.record) PROVE OldRead(p)'
  <2>1. CASE p \in worker.batch
    BY <1>1, <1>8, <2>1 DEF ReadInv, OldRead
  <2>2. CASE p \in Unread(f)
    <3>1. PICK n \in Len(worker.next[f]) + 1 .. Len(archive[f]) :
             p = [file |-> f, offset |-> n, record |-> archive[f][n]]
      BY <2>2 DEF Unread
    <3>2. Len(worker.next[f]) \in Nat
      BY <1>2
    <3>3. n \in 1 .. Len(archive[f])
      BY <1>4, <3>1, <3>2
    <3>4. p.file = 0 /\ p.offset = 1 /\ f = 0 /\ n = 1 /\ Old(archive[0][1])
      BY <1>8, <3>1, <3>3 DEF ReadInv
    <3>5. HasOld
      <4>1. archive[0] # <<>>
        BY <1>4, <3>3, <3>4
      <4>. QED
        BY <3>4, <4>1 DEF HasOld
    <3>6. progress.bootstrapped => Len(progress.cursors[0]) >= 1
      BY <3>5 DEF ReadInv, Covered
    <3>7. Len(worker.next[0]) = 0
      BY <3>1, <3>2, <3>4
    <3>8. worker.changed = NoFile => worker.next[0] = progress.cursors[0]
      BY <1>1, <3>4 DEF ReadInv
    <3>9. progress.bootstrapped => worker.changed # NoFile
      BY <3>6, <3>7, <3>8
    <3>. QED
      BY <1>1, <3>4, <3>6, <3>9 DEF OldRead
  <2>. QED
    BY <1>1, <2>1, <2>2
<1>. QED
  BY <1>1, <1>6, <1>7, <1>8, ReadInside DEF ReadInv

LEMMA ReadReconcile ==
    ASSUME ReadInv, SteadyInv,
           \/ StartUp \/ Woken \/ Periodic
           \/ \E f \in Files : PartitionChanged(f)
           \/ AllVisited
           \/ BeginRebuild
           \/ \E p \in worker.batch : ApplyRecord(p)
    PROVE  ReadInv'
<1>0. DOMAIN worker = WorkerFields
  BY DEF SteadyInv, OutboxInv, Shapes
<1>1. UNCHANGED <<archive, clock, startedAt, progress, disk>> /\ clock \in Nat
  <2>1. UNCHANGED <<archive, clock, startedAt, progress, disk>>
    BY DEF StartUp, Woken, Periodic, PartitionChanged, AllVisited, BeginRebuild, ApplyRecord
  <2>. QED
    BY <2>1 DEF SteadyInv, RecoveryInv
<1>2. HasOld => 0 \in Listing
  BY FirstFile DEF HasOld, Listing
<1>3. progress'.bootstrapped => Covered(progress'.cursors)
  BY <1>1 DEF ReadInv
<1>4. CASE StartUp \/ Woken \/ Periodic
  <2>1. StartReconcile
    BY <1>4 DEF StartUp, Woken, Periodic
  <2>2. /\ worker'.pc = "visit" /\ worker'.files = Listing /\ worker'.next = progress.cursors
        /\ worker'.batch = {}
    BY <2>1 DEF StartReconcile, Resting
  <2>3. 0 \in worker'.files \/ Covered(worker'.next)
    BY <1>2, <2>2 DEF Covered
  <2>. QED
    BY <1>1, <1>3, <2>2, <2>3, ReadInside
<1>5. ASSUME NEW f \in Files, PartitionChanged(f) PROVE ReadInv'
  <2>1. /\ worker'.pc = "visit" /\ worker'.files = Listing /\ worker'.changed = f
        /\ worker'.batch = {}
    BY <1>0, <1>5 DEF PartitionChanged, Visiting, WorkerFields
  <2>2. f # NoFile
    BY DEF Files, NoFile
  <2>3. 0 \in worker'.files \/ Covered(worker'.next)
    BY <1>2, <2>1 DEF Covered
  <2>. QED
    BY <1>1, <1>3, <2>1, <2>2, <2>3, ReadInside
<1>6. CASE AllVisited \/ BeginRebuild
  <2>1. /\ worker.pc = "visit" /\ worker.files = {} /\ worker'.pc = "apply"
        /\ worker'.next = worker.next /\ worker'.changed = worker.changed
        /\ worker'.batch = worker.batch
    BY <1>0, <1>6 DEF AllVisited, BeginRebuild, WorkerFields
  <2>2. Covered(worker'.next)
    BY <2>1 DEF ReadInv
  <2>3. \A p \in worker'.batch : Old(p.record) => OldRead(p)'
    BY <1>1, <2>1 DEF ReadInv, OldRead
  <2>. QED
    BY <1>1, <1>3, <2>1, <2>2, <2>3, ReadInside
<1>7. ASSUME NEW p \in worker.batch, ApplyRecord(p) PROVE ReadInv'
  <2>1. /\ worker.pc = "apply" /\ worker'.pc = "apply"
        /\ worker'.next = worker.next /\ worker'.changed = worker.changed
        /\ worker'.batch \subseteq worker.batch
    BY <1>0, <1>7 DEF ApplyRecord, WorkerFields
  <2>2. Covered(worker'.next)
    BY <2>1 DEF ReadInv
  <2>3. \A q \in worker'.batch : Old(q.record) => OldRead(q)'
    BY <1>1, <2>1 DEF ReadInv, OldRead
  <2>. QED
    BY <1>1, <1>3, <2>1, <2>2, <2>3, ReadInside
<1>. QED
  BY <1>4, <1>5, <1>6, <1>7

(* Outside of a reading there is only what was saved and is in memory.     *)
LEMMA ReadResting ==
    ASSUME ReadInv, SteadyInv,
           \/ EverySecond \/ Rests \/ TickChanges \/ TickSaved \/ TickChangesNothing
           \/ \E j \in worker.queue : Sends(j) \/ GivesUp(j)
           \/ \E j \in worker.sending : MarkJob(j)
           \/ Checkpoint \/ Rebuild
           \/ \E c \in Configs : Crash(c)
    PROVE  ReadInv'
<1>1. clock \in Nat
  BY DEF SteadyInv, RecoveryInv
<1>2. CASE \/ EverySecond \/ Rests \/ TickChanges \/ TickSaved \/ TickChangesNothing
           \/ \E j \in worker.queue : Sends(j) \/ GivesUp(j)
           \/ \E j \in worker.sending : MarkJob(j)
  <2>1. /\ UNCHANGED <<archive, clock, startedAt, progress>>
        /\ worker'.pc \notin {"visit", "apply"} /\ worker'.batch = {}
        /\ disk'.progress \in {disk.progress, progress'}
    BY <1>2, DeliversShape DEF SteadyInv
  <2>. QED
    BY <1>1, <2>1, ReadInside DEF ReadInv
<1>3. CASE Checkpoint \/ Rebuild
  <2>1. /\ UNCHANGED <<archive, clock, startedAt>> /\ worker.pc = "apply"
        /\ progress'.cursors = worker.next
        /\ worker'.pc \notin {"visit", "apply"} /\ worker'.batch = {}
        /\ disk'.progress \in {disk.progress, progress'}
    BY <1>3, CheckpointShape DEF SteadyInv, Applied
  <2>. QED
    BY <1>1, <2>1, ReadInside DEF ReadInv
<1>4. ASSUME NEW c \in Configs, Crash(c) PROVE ReadInv'
  <2>1. /\ UNCHANGED <<archive, clock, disk>> /\ startedAt' = clock
        /\ progress' = disk.progress /\ worker' = Resting("start")
    BY <1>4 DEF Crash
  <2>2. worker'.pc = "start" /\ worker'.batch = {}
    BY <2>1 DEF Resting
  <2>. QED
    BY <1>1, <2>1, <2>2, ReadInside DEF ReadInv
<1>. QED
  BY <1>2, <1>3, <1>4

LEMMA ReadNext ==
    ASSUME ReadInv, SteadyInv, SteadyInv', WorkerNext \/ UNCHANGED allVars, faults'.restore = 0
    PROVE  ReadInv'
BY ReadOutside, ReadVisits, ReadReconcile, ReadResting DEF WorkerNext, WorkerStep, Rests

LEMMA ReadInit == WorkerInit => ReadInv
<1>. SUFFICES ASSUME WorkerInit PROVE ReadInv
  OBVIOUS
<1>1. /\ clock = FirstStart /\ startedAt = FirstStart /\ progress.bootstrapped = FALSE
      /\ disk.progress = progress /\ worker = Resting("start")
  BY DEF WorkerInit, Snapshot
<1>2. worker.pc = "start" /\ worker.batch = {}
  BY <1>1 DEF Resting
<1>3. \A f \in Files : f # 0 => archive[f] = <<>>
  BY DEF WorkerInit
<1>4. 0 \in Files
  BY FirstFile
<1>5. \/ archive[0] = <<>>
      \/ \E r : archive[0] = <<r>>
  BY <1>4 DEF WorkerInit
<1>6. ASSUME NEW f \in Files, NEW n \in 1 .. Len(archive[f]) PROVE f = 0 /\ n = 1
  <2>1. archive[f] # <<>>
    BY <1>6
  <2>2. f = 0
    BY <1>3, <2>1
  <2>3. PICK r : archive[f] = <<r>>
    BY <1>5, <2>1, <2>2
  <2>4. Len(archive[f]) = 1
    BY <2>3
  <2>. QED
    BY <1>6, <2>2, <2>4
<1>. QED
  BY <1>1, <1>2, <1>6 DEF ReadInv, FirstStart

-----------------------------------------------------------------------------
(* A rebuild starts from nothing and keeps the old snapshot.               *)
LEMMA SourceEmptied ==
    ASSUME EngineInv, SteadyInv, SourceInv, BeginRebuild
    PROVE  SourceInv'
<1>0. DOMAIN worker = WorkerFields
  BY DEF SteadyInv, OutboxInv, Shapes
<1>1. /\ UNCHANGED <<disk, faults, archive, lost>> /\ cs' = Idle
      /\ trackers' = [k \in Keys |-> FreshTracker("", NoTime)]
      /\ DOMAIN incidents' = {} /\ DOMAIN jobs' = {}
  BY DEF BeginRebuild, Empty, EngineInv
<1>2. Log' = Log
  BY <1>1 DEF Log
<1>3. InSequence(trackers')
  BY <1>1 DEF InSequence, FreshTracker, OpenPhases
<1>4. Lively(Log, incidents', jobs') /\ Prompt(Log, incidents')
  BY <1>1 DEF Lively, Prompt
<1>5. \A old \in worker'.previous : Lively(Log, old.incidents, old.jobs)
  <2>1. worker'.previous = {Snapshot(progress, delivery)}
    BY <1>0 DEF BeginRebuild, WorkerFields
  <2>2. /\ Snapshot(progress, delivery).incidents = incidents
        /\ Snapshot(progress, delivery).jobs = jobs
    BY DEF Snapshot
  <2>. QED
    BY <2>1, <2>2 DEF SourceInv
<1>. QED
  BY <1>1, <1>2, <1>3, <1>4, <1>5 DEF SourceInv, Idle

(* A new process has what was saved.                                       *)
LEMMA SourceCrash ==
    ASSUME OutboxInv, SourceInv, NEW c \in Configs, Crash(c)
    PROVE  SourceInv'
<1>1. /\ UNCHANGED <<disk, archive, lost>> /\ cs' = Idle
      /\ trackers' = disk.trackers /\ incidents' = disk.incidents /\ jobs' = disk.jobs
      /\ worker' = Resting("start") /\ faults' = [faults EXCEPT !.crash = @ + 1]
  BY DEF Crash
<1>2. Log' = Log
  BY <1>1 DEF Log
<1>3. worker'.previous = {}
  BY <1>1, RestingTyped
<1>4. faults'.truncate = faults.truncate
  BY <1>1 DEF OutboxInv, Shapes, FaultKinds
<1>. QED
  BY <1>1, <1>2, <1>3, <1>4 DEF SourceInv, Idle

(* The jobs that a rebuild calls for are about the incident that does.     *)
LEMMA CalledAbout ==
    ASSUME NEW new, NEW first \in Openings(new), NEW c \in CalledFor(new, first)
    PROVE  c[1].incident \in Raised(new)
<1>1. PICK i \in Raised(new) :
         c \in {<<first[i], new[i].activatedAt>>} \cup Closing(i, new[i])
                  \cup LaterEscalations(i, new[i])
  BY DEF CalledFor
<1>2. /\ \A kind : Job(i, kind).incident = i
      /\ \A p : Escalation(i, p).incident = i
  BY DEF Job, Escalation
<1>3. first[i].incident = i
  <2>1. first[i] \in Opening(i, new[i])
    BY DEF Openings
  <2>. QED
    BY <1>2, <2>1 DEF Opening, FallbackOpening
<1>4. ASSUME c \in Closing(i, new[i]) PROVE c[1].incident = i
  BY <1>2, <1>4 DEF Closing
<1>5. ASSUME c \in LaterEscalations(i, new[i]) PROVE c[1].incident = i
  BY <1>2, <1>5 DEF LaterEscalations
<1>. QED
  BY <1>1, <1>3, <1>4, <1>5

(* What a rebuild takes over was live before.                              *)
LEMMA SourceRebuilt ==
    ASSUME EngineInv, SteadyInv, SourceInv, Rebuild, faults'.truncate # 0
    PROVE  SourceInv'
<1>0. DOMAIN worker = WorkerFields
  BY DEF SteadyInv, OutboxInv, Shapes
<1>1. PICK old \in worker.previous :
         /\ incidents' = RebuiltIncidents(old)
         /\ trackers' = RebuiltTrackers(RebuiltIncidents(old))
         /\ \E first \in Openings(RebuiltIncidents(old)) :
               jobs' = RebuiltJobs(old, RebuiltIncidents(old), first)
         /\ \/ disk' = [trackers |-> trackers', incidents |-> incidents', jobs |-> jobs',
                        progress |-> Progress(worker.next), delivery |-> delivery',
                        observed |-> observed]
            \/ disk' = disk
  BY DEF Rebuild, SaveFails
<1>2. cs' = Idle /\ UNCHANGED <<archive, lost>>
  BY DEF Rebuild, Applied
<1>3. Log' = Log
  BY <1>2 DEF Log
<1>4. /\ Lively(Log, incidents, jobs) /\ Lively(Log, old.incidents, old.jobs)
      /\ InSequence(trackers)
  BY DEF SourceInv
<1>. DEFINE new == RebuiltIncidents(old)
<1>5. PICK first \in Openings(new) : jobs' = RebuiltJobs(old, new, first)
  BY <1>1
<1>6. DOMAIN new = DOMAIN incidents /\ \A i \in DOMAIN new : new[i] \in Incident
  BY RebuiltIncident DEF RebuiltIncidents
<1>7. ASSUME NEW i \in DOMAIN new, new[i].notify PROVE LiveIn(Log, i, MaxTime + 1)
  <2>. DEFINE b == incidents[i].notify \/ (i \in DOMAIN old.incidents /\ old.incidents[i].notify)
  <2>1. new[i] = Alerting(incidents[i], b) /\ b \in BOOLEAN /\ incidents[i] \in Incident
    BY <1>6 DEF RebuiltIncidents, EngineInv, StateInv, TypeOK
  <2>2. b
    <3>. HIDE DEF b, new
    <3>1. Alerting(incidents[i], b).notify = b
      BY <2>1, AlertingIncident
    <3>. QED
      BY <1>7, <2>1, <3>1
  <2>. QED
    BY <1>4, <1>6, <2>2 DEF Lively
<1>8. InSequence(trackers')
  <2>1. \A k \in Keys : /\ trackers'[k].phase = trackers[k].phase
                        /\ trackers'[k].pendingSince = trackers[k].pendingSince
                        /\ trackers'[k].lastEvidenceAt = trackers[k].lastEvidenceAt
    <3>. HIDE DEF new
    <3>1. trackers' = RebuiltTrackers(new)
      BY <1>1 DEF new
    <3>. QED
      BY <1>6, <3>1, RebuiltTracker
  <2>. QED
    BY <1>4, <2>1 DEF InSequence
<1>9. ASSUME NEW j \in DOMAIN jobs' PROVE LiveIn(Log, j.incident, MaxTime + 1)
  <2>1. \/ j \in DOMAIN old.jobs \/ j \in DOMAIN jobs
        \/ \E c \in CalledFor(new, first) : j = c[1]
    BY <1>9, <1>5 DEF RebuiltJobs, Carried
  <2>2. ASSUME NEW c \in CalledFor(new, first), j = c[1]
        PROVE  LiveIn(Log, j.incident, MaxTime + 1)
    <3>1. j.incident \in Raised(new)
      BY <2>2, CalledAbout
    <3>. QED
      BY <1>7, <3>1 DEF Raised
  <2>. QED
    BY <1>4, <2>1, <2>2 DEF Lively
<1>10. Lively(Log, incidents', jobs')
  BY <1>1, <1>7, <1>9 DEF Lively
<1>11. /\ InSequence(disk'.trackers)
       /\ Lively(Log, disk'.incidents, disk'.jobs)
  BY <1>1, <1>8, <1>10 DEF SourceInv
<1>12. worker'.previous = {}
  <2>1. CASE worker' = Resting("idle")
    BY <2>1, RestingTyped
  <2>2. CASE worker' = [worker EXCEPT !.pc = "tick", !.changed = NoFile, !.previous = {}]
    BY <1>0, <2>2 DEF WorkerFields
  <2>. QED
    BY <2>1, <2>2 DEF Rebuild
<1>. QED
  BY <1>2, <1>3, <1>8, <1>10, <1>11, <1>12 DEF SourceInv, Idle

LEMMA SourceInit == WorkerInit => SourceInv
<1>. SUFFICES ASSUME WorkerInit PROVE SourceInv
  OBVIOUS
<1>1. /\ disk.trackers = trackers /\ disk.incidents = incidents /\ disk.jobs = jobs
      /\ worker = Resting("start")
  BY DEF WorkerInit, Snapshot
<1>2. /\ cs = Idle /\ trackers = [k \in Keys |-> FreshTracker("", NoTime)]
      /\ DOMAIN incidents = {} /\ DOMAIN jobs = {}
  BY DEF WorkerInit, Init
<1>3. worker.previous = {}
  BY <1>1, RestingTyped
<1>4. InSequence(trackers)
  BY <1>2 DEF InSequence, FreshTracker, OpenPhases
<1>5. Lively(Log, incidents, jobs) /\ Prompt(Log, incidents)
  BY <1>2 DEF Lively, Prompt
<1>. QED
  BY <1>1, <1>2, <1>3, <1>4, <1>5 DEF SourceInv, Idle

LEMMA SourceNext ==
    ASSUME ComposedInv, ReadInv, SourceInv, WorkerNext \/ UNCHANGED allVars,
           faults'.restore = 0
    PROVE  SourceInv'
<1>1. SteadyInv /\ EngineInv /\ OutboxInv /\ RecoveryInv
  BY DEF ComposedInv, SteadyInv
<1>2. faults.restore = 0 /\ (faults'.truncate = 0 => faults.truncate = 0)
  BY <1>1, NotRestored
<1>3. Log \subseteq Log'
  BY <1>1, LogGrows
<1>4. CASE \/ \E m \in Inputs : Receives(m)
           \/ \E m \in ImportInputs, at \in 0 .. MaxTime : Imports(m, at)
           \/ \E writer \in {"syslog", "import"} : Publish(writer)
           \/ \E f \in Files : AppendCut(f) \/ Replaced(f)
           \/ TimePasses
           \/ UNCHANGED allVars
  <2>1. UNCHANGED vars /\ UNCHANGED <<worker, disk>>
    BY <1>4 DEF Receives, Imports, Store, Publish, AppendCut, Replaced, TimePasses, allVars,
       workerVars
  <2>. QED
    BY <1>2, <1>3, <2>1, SourceFrame
<1>5. CASE \/ StartUp \/ Woken \/ Periodic \/ EverySecond \/ Rests
           \/ \E f \in Files : VisitFile(f) \/ PartitionChanged(f)
           \/ AllVisited
           \/ Checkpoint \/ TickSaved \/ TickChangesNothing
           \/ \E j \in worker.queue : Sends(j) \/ GivesUp(j)
           \/ \E j \in worker.sending : MarkJob(j)
  <2>1. /\ UNCHANGED vars
        /\ disk' = disk \/ \E p, d : disk' = Snapshot(p, d)
        /\ worker'.previous \subseteq worker.previous
    BY <1>1, <1>5, AsideShape
  <2>. QED
    BY <1>2, <1>3, <2>1, SourceFrame
<1>6. CASE Rebuild
  <2>1. ASSUME faults'.truncate = 0 PROVE FALSE
    <3>1. Untouched
      BY <1>2, <2>1 DEF Untouched
    <3>. QED
      BY <1>6, <3>1 DEF ComposedInv, Unreplaced, Rebuild
  <2>. QED
    BY <1>1, <1>6, <2>1, SourceRebuilt
<1>. QED
  BY <1>1, <1>4, <1>5, <1>6, SourceBegins, SourceTurns, SourceEmptied, SourceCrash
     DEF WorkerNext, WorkerStep, Rests

(* Nobody is alerted about the past, for every archive that is not         *)
(* restored from a backup: however imports, old messages, crashes, failed  *)
(* saves, rebuilds and late reports mix, a job is about an outage that was *)
(* reported live after the first start.                                    *)
THEOREM AlertsStayLive == WorkerSpec => []AlertsAreLive
<1>1. WorkerInit => ComposedInv /\ LiveInv
  BY ComposedInit, ReadInit, SourceInit DEF LiveInv
<1>2. ComposedInv /\ LiveInv /\ [WorkerNext]_allVars => (ComposedInv /\ LiveInv)'
  <2>. SUFFICES ASSUME ComposedInv, LiveInv, WorkerNext \/ UNCHANGED allVars
                PROVE  ComposedInv' /\ LiveInv'
    OBVIOUS
  <2>1. ComposedInv'
    BY ComposedNext
  <2>2. SteadyInv /\ SteadyInv' /\ OutboxInv
    BY <2>1 DEF ComposedInv, SteadyInv
  <2>3. ASSUME faults'.restore = 0 PROVE ReadInv' /\ SourceInv'
    <3>1. ReadInv /\ SourceInv
      BY <2>2, <2>3, NotRestored DEF LiveInv
    <3>. QED
      BY <2>2, <2>3, <3>1, ReadNext, SourceNext
  <2>. QED
    BY <2>1, <2>3 DEF LiveInv
<1>3. ComposedInv /\ LiveInv => AlertsAreLive
  <2>. SUFFICES ASSUME ComposedInv, LiveInv, faults.restore = 0, NEW j \in DOMAIN jobs
                PROVE  LiveFailure(j.incident,
                                   IF faults.truncate > 0 THEN MaxTime + 1
                                   ELSE j.incident.at + incidents[j.incident].downAfter)
    BY DEF AlertsAreLive
  <2>1. SourceInv /\ faults.truncate \in Nat
    BY DEF LiveInv, ComposedInv, SteadyInv, OutboxInv, Shapes, FaultKinds
  <2>2. \A i, at : LiveIn(Log, i, at) => LiveFailure(i, at)
    BY DEF LiveIn, LiveFailure
  <2>3. CASE faults.truncate > 0
    BY <2>1, <2>2, <2>3 DEF SourceInv, Lively
  <2>4. CASE faults.truncate = 0
    <3>1. Untouched
      BY <2>4 DEF Untouched
    <3>2. j.incident \in DOMAIN incidents /\ incidents[j.incident].notify
      BY <3>1 DEF ComposedInv, CleanOutbox, JobsJustified, Justified
    <3>3. LiveIn(Log, j.incident, j.incident.at + incidents[j.incident].downAfter)
      BY <2>1, <2>4, <3>2 DEF SourceInv, Prompt
    <3>. QED
      BY <2>2, <2>4, <3>3
  <2>. QED
    BY <2>1, <2>3, <2>4
<1>. QED
  BY <1>1, <1>2, <1>3, PTL DEF WorkerSpec
=============================================================================
