--------------------------- MODULE IncidentWorker ---------------------------
(***************************************************************************)
(* The incident worker of internal/incidents/worker.go around the engine:  *)
(* messages are appended to the day files of the archive, the worker is    *)
(* woken, reads what lies after its cursors, applies it to the engine,     *)
(* saves the snapshot, lets time pass in the engine, and delivers the      *)
(* notification jobs that are due.  The process may crash between any two  *)
(* steps and starts again from the snapshot on disk.                       *)
(*                                                                         *)
(* Abstracted: a file is the sequence of its complete lines, and a cursor, *)
(* that is an offset and a fingerprint of what lies before it, is the      *)
(* sequence of the records read; a file that was deleted counts as         *)
(* truncated to nothing.  An append that is cut off leaves an incomplete   *)
(* line, which the next append completes to one that does not decode.      *)
(* Imports that run together are one writer, since the worker does not     *)
(* tell them apart.  Retry delays are any positive delay; saving           *)
(* replaces the snapshot in one step or fails (FilePersistence looks       *)
(* inside it); tickers send the time at which they are served; of the      *)
(* delivery fields of a job those are kept that decide whether and when it *)
(* is sent.  Every kind a job can have is known, so the branch of dispatch *)
(* for an unknown kind is left out.                                        *)
(* An orderly shutdown cancels the context, after which nothing is sent or *)
(* saved: the same as a crash.                                             *)
(***************************************************************************)
EXTENDS IncidentEngine, Sequences, SequencesExt

CONSTANTS
    DayLength,        \* units of time per day
    Sources,          \* senders of messages, each with a file per day
    ImportInputs,     \* message shapes that imports may bring
    MaxCrashes,       \* bound: crashes of the process
    MaxReplacements,  \* bound: files truncated or restored from a backup
    MaxCuts,          \* bound: appends cut off in the middle of a line
    MaxReadFailures,  \* bound: failures to list, open or read a file
    MaxSaveFailures,  \* bound: failures to save the snapshot
    MaxSendFailures,  \* bound: failures to deliver a notification
    MaxFaults         \* bound: crashes, cuts and failures together

ASSUME ImportsAssumption == \A i \in ImportInputs : i.host \in Hosts

ASSUME DayAssumption == DayLength \in Nat \ {0} /\ Sources \in Nat \ {0}

ASSUME ReplacementsAssumption == MaxReplacements \in Nat

ASSUME BoundsAssumption == MaxTime \in Nat \ {0} /\ MaxMessages \in Nat \ {0}

VARIABLES
    clock,      \* wall clock
    archive,    \* day file -> its complete lines
    lost,       \* day file -> the lines it lost, which a backup has
    torn,       \* day files that end in an incomplete line
    publishing, \* writers between their append and their Publish
    wake,       \* the wake channel, of capacity one, holds a token
    progress,   \* snapshot: cursors, bootstrapped, LastCheckpointAt
    delivery,   \* snapshot: delivery fields of the jobs tried so far
    disk,       \* the saved snapshot
    worker,     \* the goroutine that runs the worker
    startedAt,  \* start of this process
    accepted,   \* history: job -> how often the service accepted it
    refused,    \* history: jobs given up, by the service or for want of an incident
    faults      \* history: faults so far, per kind

deliveryVars == <<accepted, refused>>

workerVars == <<clock, archive, lost, torn, publishing, wake, progress, delivery, disk,
                worker, startedAt, accepted, refused, faults>>

allVars == <<vars, workerVars>>

-----------------------------------------------------------------------------
(* pathFor: a file holds the messages of one day and one source.           *)
FileOf(r) == Sources * (r.at \div DayLength) + r.source

Files == 0 .. Sources * (MaxTime \div DayLength) + Sources - 1

(* The process of the model starts for the first time at FirstStart; an    *)
(* older message may be in the archive already.                            *)
FirstStart == 1

(* A line of a file; it is whole if it decodes.                            *)
Record == [id : MsgIDs, input : Inputs \cup ImportInputs, at : 0 .. MaxTime,
           source : 0 .. Sources - 1, import : BOOLEAN, whole : BOOLEAN]

IDs(f) == [n \in 1 .. Len(archive[f]) |-> archive[f][n].id]

(* History: every record that was stored, in the archive or not.           *)
Log == UNION {ToSet(archive[f]) \cup ToSet(lost[f]) : f \in Files}

LoggedIDs == {r.id : r \in Log}

(* One more fault may happen.                                              *)
MayFail ==
    faults.crash + faults.save + faults.send + faults.cut + faults.read < MaxFaults

StoredIDs == UNION {ToSet(IDs(f)) : f \in Files}

(* Mutant: the fingerprint is not compared.                                *)
IntactSize(cursor, f) == Len(cursor) <= Len(archive[f])

(* The file still begins with what a cursor has read: its size is not less *)
(* than the offset, and the fingerprint is the same.                       *)
Intact(cursor, f) ==
    /\ Len(cursor) <= Len(archive[f])
    /\ \A n \in 1 .. Len(cursor) : IDs(f)[n] = cursor[n]

(* enqueueLocked: a job is due when it was created, and was not sent.      *)
Delivery(j) ==
    IF j \in DOMAIN delivery THEN delivery[j]
    ELSE [nextAt |-> jobs[j], sent |-> FALSE, permanent |-> FALSE]

Deliver(j, d) == [x \in DOMAIN delivery \cup {j} |-> IF x = j THEN d ELSE delivery[x]]

(* Mutant: jobs that were sent are due again.                              *)
DueJobsSentToo(now) ==
    {j \in DOMAIN jobs : ~Delivery(j).permanent /\ Delivery(j).nextAt <= now}

(* DueNotifications.                                                       *)
DueJobs(now) ==
    {j \in DOMAIN jobs :
        ~Delivery(j).sent /\ ~Delivery(j).permanent /\ Delivery(j).nextAt <= now}

(* What saveLocked writes.  The set of observed messages is history.       *)
Snapshot(p, d) ==
    [trackers |-> trackers, incidents |-> incidents, jobs |-> jobs,
     progress |-> p, delivery |-> d, observed |-> observed]

NotStarted == [f \in Files |-> <<>>]

NoFile == -1

Resting(pc) == [pc |-> pc, now |-> 0, files |-> {}, next |-> NotStarted,
                changed |-> NoFile, previous |-> {},
                batch |-> {}, queue |-> {}, sending |-> {}, result |-> "none"]

Empty == [x \in {} |-> 0]

-----------------------------------------------------------------------------
(* A first start: no snapshot, and an archive that may hold one message.   *)
WorkerInit ==
    /\ Init
    /\ clock = FirstStart
    /\ \/ archive = [f \in Files |-> <<>>]
       \/ \E m \in Inputs :
             archive = [f \in Files |->
                IF f = 0 THEN <<[id |-> 1, input |-> m, at |-> 0, source |-> 0,
                                 import |-> FALSE, whole |-> TRUE]>> ELSE <<>>]
    /\ lost = [f \in Files |-> <<>>]
    /\ torn = {}
    /\ publishing = {}
    /\ wake = FALSE
    /\ progress = [cursors |-> NotStarted, bootstrapped |-> FALSE, checkpointAt |-> NoTime]
    /\ delivery = Empty
    /\ disk = Snapshot(progress, delivery)
    /\ worker = Resting("start")
    /\ startedAt = FirstStart
    /\ accepted = Empty
    /\ refused = {}
    /\ faults = [crash |-> 0, save |-> 0, send |-> 0, cut |-> 0, read |-> 0,
                 truncate |-> 0, restore |-> 0]

-----------------------------------------------------------------------------
(* Writers: the syslog consumer and the import handler.                    *)

NextID == {id \in MsgIDs : id \notin LoggedIDs /\ \A o \in MsgIDs \ LoggedIDs : id <= o}

(* Behind an incomplete line a message ends up in a line that does not     *)
(* decode.                                                                 *)
Line(r) == [r EXCEPT !.whole = FileOf(r) \notin torn]

(* Append: one write at the end of the file.                               *)
Store(writer, r) ==
    /\ writer \notin publishing
    /\ archive' = [archive EXCEPT ![FileOf(r)] = Append(@, r)]
    /\ torn' = torn \ {FileOf(r)}
    /\ publishing' = publishing \cup {writer}
    /\ UNCHANGED <<vars, clock, lost, wake, progress, delivery, disk, worker, startedAt,
                   deliveryVars, faults>>

(* The one syslog consumer stamps a message and appends it.                *)
Receives(m) ==
    \E id \in NextID, source \in 0 .. Sources - 1 :
        Store("syslog", Line([id |-> id, input |-> m, at |-> clock, source |-> source,
                              import |-> FALSE, whole |-> TRUE]))

(* An imported message carries its own time, past or future, and source.   *)
Imports(m, at) ==
    \E id \in NextID, source \in 0 .. Sources - 1 :
        Store("import", Line([id |-> id, input |-> m, at |-> at, source |-> source,
                              import |-> TRUE, whole |-> TRUE]))

(* An append is cut off: the write comes to an error, after which nothing  *)
(* is published, or is one of a process that dies then.                    *)
AppendCut(f) ==
    /\ faults.cut < MaxCuts /\ MayFail
    /\ \/ /\ "syslog" \notin publishing
          /\ \E source \in 0 .. Sources - 1 : f = FileOf([at |-> clock, source |-> source])
       \/ "import" \notin publishing /\ ImportInputs # {}
    /\ torn' = torn \cup {f}
    /\ faults' = [faults EXCEPT !.cut = @ + 1]
    /\ UNCHANGED <<vars, clock, archive, lost, publishing, wake, progress, delivery, disk,
                   worker, startedAt, deliveryVars>>

(* Mutant: no token is left for a worker that is busy.                     *)
PublishToIdle(writer) ==
    /\ writer \in publishing
    /\ publishing' = publishing \ {writer}
    /\ wake' = (wake \/ worker.pc = "idle")
    /\ UNCHANGED <<vars, clock, archive, lost, torn, progress, delivery, disk, worker, startedAt,
                   deliveryVars, faults>>

(* Publish calls Wake, which drops the token if the channel is full.       *)
Publish(writer) ==
    /\ writer \in publishing
    /\ publishing' = publishing \ {writer}
    /\ wake' = TRUE
    /\ UNCHANGED <<vars, clock, archive, lost, torn, progress, delivery, disk, worker, startedAt,
                   deliveryVars, faults>>

(* Somebody truncates a file at the end of a line, or puts back from a     *)
(* backup what it lost, in front of what has come since.                   *)
Replaced(f) ==
    /\ faults.truncate + faults.restore < MaxReplacements
    /\ \/ \E n \in 0 .. Len(archive[f]) - 1 :
             /\ archive' = [archive EXCEPT ![f] = SubSeq(@, 1, n)]
             /\ lost' = [lost EXCEPT ![f] = @ \o SubSeq(archive[f], n + 1, Len(archive[f]))]
             /\ torn' = torn \ {f}
             /\ faults' = [faults EXCEPT !.truncate = @ + 1]
       \/ /\ lost[f] # <<>>
          /\ archive' = [archive EXCEPT ![f] = lost[f] \o @]
          /\ lost' = [lost EXCEPT ![f] = <<>>]
          /\ UNCHANGED torn
          /\ faults' = [faults EXCEPT !.restore = @ + 1]
    /\ UNCHANGED <<vars, clock, publishing, wake, progress, delivery, disk, worker,
                   startedAt, deliveryVars>>

TimePasses ==
    /\ clock < MaxTime
    /\ clock' = clock + 1
    /\ UNCHANGED <<vars, archive, lost, torn, publishing, wake, progress, delivery, disk,
                   worker, startedAt, deliveryVars, faults>>

-----------------------------------------------------------------------------
(* Run: the branches of its select, and the start of reconcile.            *)

(* VisitAfter lists the files once, before it reads the first.             *)
Listing == {f \in Files : archive[f] # <<>> \/ lost[f] # <<>> \/ f \in torn}

StartReconcile ==
    worker' = [Resting("visit") EXCEPT
                  !.now = clock, !.files = Listing, !.next = progress.cursors]

StartUp ==
    /\ worker.pc = "start"
    /\ StartReconcile
    /\ UNCHANGED <<vars, clock, archive, lost, torn, publishing, wake, progress, delivery, disk,
                   startedAt, deliveryVars, faults>>

Woken ==
    /\ worker.pc = "idle"
    /\ wake
    /\ wake' = FALSE
    /\ StartReconcile
    /\ UNCHANGED <<vars, clock, archive, lost, torn, publishing, progress, delivery, disk,
                   startedAt, deliveryVars, faults>>

Periodic ==
    /\ worker.pc = "idle"
    /\ StartReconcile
    /\ UNCHANGED <<vars, clock, archive, lost, torn, publishing, wake, progress, delivery, disk,
                   startedAt, deliveryVars, faults>>

EverySecond ==
    /\ worker.pc = "idle"
    /\ worker' = [Resting("tick") EXCEPT !.now = clock]
    /\ UNCHANGED <<vars, clock, archive, lost, torn, publishing, wake, progress, delivery, disk,
                   startedAt, deliveryVars, faults>>

-----------------------------------------------------------------------------
(* reconcile: read the files in order, then apply the batch.               *)

(* The supported records of file f past its cursor.                        *)
Unread(f) ==
    {[file |-> f, offset |-> n, record |-> archive[f][n]] :
        n \in {n \in Len(worker.next[f]) + 1 .. Len(archive[f]) : Supported(archive[f][n].input)}}

Visiting(f) ==
    /\ worker.pc = "visit"
    /\ f \in worker.files
    /\ \A other \in worker.files : f <= other

(* Every line past the cursor decodes; an incomplete one is left alone.    *)
Decodes(f) == \A n \in Len(worker.next[f]) + 1 .. Len(archive[f]) : archive[f][n].whole

VisitFile(f) ==
    /\ Visiting(f)
    /\ Intact(worker.next[f], f)
    /\ Decodes(f)
    /\ worker' = [worker EXCEPT !.files = @ \ {f},
                                !.batch = @ \cup Unread(f),
                                !.next[f] = IDs(f)]
    /\ UNCHANGED <<vars, clock, archive, lost, torn, publishing, wake, progress, delivery, disk,
                   startedAt, deliveryVars, faults>>

(* PartitionChangedError: everything is read again, without cursors.       *)
PartitionChanged(f) ==
    /\ Visiting(f)
    /\ ~Intact(worker.next[f], f)
    /\ worker' = [worker EXCEPT !.files = Listing, !.batch = {}, !.next = NotStarted, !.changed = f]
    /\ UNCHANGED <<vars, clock, archive, lost, torn, publishing, wake, progress, delivery, disk,
                   startedAt, deliveryVars, faults>>

(* A line does not decode, or a file cannot be read: reconcile returns the *)
(* error, with nothing applied and without a tick.                         *)
VisitFails(f) ==
    /\ Visiting(f)
    /\ \/ Intact(worker.next[f], f) /\ ~Decodes(f) /\ UNCHANGED faults
       \/ /\ faults.read < MaxReadFailures /\ MayFail
          /\ faults' = [faults EXCEPT !.read = @ + 1]
    /\ worker' = Resting("idle")
    /\ UNCHANGED <<vars, clock, archive, lost, torn, publishing, wake, progress, delivery,
                   disk, startedAt, deliveryVars>>

AllVisited ==
    /\ worker.pc = "visit"
    /\ worker.files = {}
    /\ worker.changed = NoFile
    /\ worker' = [worker EXCEPT !.pc = "apply"]
    /\ UNCHANGED <<vars, clock, archive, lost, torn, publishing, wake, progress, delivery, disk,
                   startedAt, deliveryVars, faults>>

(* Rebuild begins: it keeps the old snapshot and derives a new one.  The   *)
(* delivery fields, which no observation reads, are taken over at the end. *)
BeginRebuild ==
    /\ worker.pc = "visit"
    /\ worker.files = {}
    /\ worker.changed # NoFile
    /\ worker' = [worker EXCEPT !.pc = "apply", !.previous = {Snapshot(progress, delivery)}]
    /\ trackers' = [k \in Keys |-> FreshTracker("", NoTime)]
    /\ incidents' = Empty
    /\ jobs' = Empty
    /\ observed' = {}
    /\ UNCHANGED <<cfg, cs, frontier, clock, archive, lost, torn, publishing, wake, progress,
                   delivery, disk, startedAt, deliveryVars, faults>>

(* The order records are applied in: time, file, offset.                   *)
Before(p, q) ==
    \/ p.record.at < q.record.at
    \/ p.record.at = q.record.at /\ p.file < q.file
    \/ p.record.at = q.record.at /\ p.file = q.file /\ p.offset <= q.offset

(* A rebuild sees old records again: in the file that was replaced those   *)
(* up to the last checkpoint, in the others those before the cursor.       *)
New(p) ==
    IF p.file = worker.changed
    THEN progress.checkpointAt # NoTime /\ p.record.at > progress.checkpointAt
    ELSE worker.changed # NoFile => p.offset > Len(progress.cursors[p.file])

(* Mutant: imports alert once the service is bootstrapped.                 *)
EligibleImport(p) ==
    New(p) /\ (progress.bootstrapped \/ (~p.record.import /\ p.record.at > startedAt))

(* Mutant: a rebuild takes every live record for new.                      *)
EligibleOld(p) == ~p.record.import /\ (progress.bootstrapped \/ p.record.at > startedAt)

(* Imports never alert, and neither does what a first start finds.         *)
Eligible(p) ==
    /\ ~p.record.import
    /\ progress.bootstrapped \/ p.record.at > startedAt
    /\ New(p)

ApplyRecord(p) ==
    LET r == p.record
    IN  /\ worker.pc = "apply"
        /\ p \in worker.batch
        /\ \A other \in worker.batch : Before(p, other)
        /\ \/ ObserveIgnored(r.input, r.at, r.id)
           \/ ObserveSelection(r.input, r.at, r.id)
           \/ BeginObserve(r.input, r.at, r.id, Eligible(p))
        /\ worker' = [worker EXCEPT !.batch = @ \ {p}]
        /\ UNCHANGED <<clock, archive, lost, torn, publishing, wake, progress, delivery, disk,
                       startedAt, deliveryVars, faults>>

(* The engine at work on a record or on a tick.                            *)
EngineStep ==
    /\ worker.pc \in {"apply", "ticking"}
    /\ Locked
    /\ UNCHANGED workerVars

SaveFails ==
    /\ faults.save < MaxSaveFailures /\ MayFail
    /\ faults' = [faults EXCEPT !.save = @ + 1]
    /\ UNCHANGED disk

(* When the snapshot was last saved; recorded where files are replaced,    *)
(* since only a rebuild reads it.                                          *)
Progress(cursors) ==
    [cursors |-> cursors, bootstrapped |-> TRUE,
     checkpointAt |-> IF MaxReplacements = 0 THEN NoTime ELSE worker.now]

Applied == worker.pc = "apply" /\ worker.batch = {} /\ cs = Idle

(* Mutant: the cursors are taken when the batch has been applied.          *)
CheckpointLatest ==
    LET p == Progress([f \in Files |-> IDs(f)])
    IN  /\ Applied
        /\ worker.changed = NoFile
        /\ progress' = p
        /\ disk' = Snapshot(p, delivery)
        /\ worker' = [worker EXCEPT !.pc = "tick"]
        /\ UNCHANGED <<vars, clock, archive, lost, torn, publishing, wake, delivery, startedAt,
                       deliveryVars, faults>>

(* Apply ends: the cursors move in memory whether or not the save works.   *)
(* When it fails reconcile returns its error, without a tick.              *)
Checkpoint ==
    LET p == Progress(worker.next)
    IN  /\ Applied
        /\ worker.changed = NoFile
        /\ progress' = p
        /\ \/ /\ disk' = Snapshot(p, delivery)
              /\ worker' = [worker EXCEPT !.pc = "tick"]
              /\ UNCHANGED faults
           \/ /\ SaveFails
              /\ worker' = Resting("idle")
        /\ UNCHANGED <<vars, clock, archive, lost, torn, publishing, wake, delivery, startedAt,
                       deliveryVars>>

-----------------------------------------------------------------------------
(* Rebuild after its observations: what it takes over from the old         *)
(* snapshot.                                                               *)

(* Incidents that alerted go on to.                                        *)
RebuiltIncidents(old) ==
    [i \in DOMAIN incidents |->
        Alerting(incidents[i],
                 incidents[i].notify \/ (i \in DOMAIN old.incidents /\ old.incidents[i].notify))]

RebuiltTrackers(new) ==
    [k \in Keys |->
        IF trackers[k].incident \in DOMAIN new
        THEN Alerting(trackers[k], new[trackers[k].incident].notify) ELSE trackers[k]]

(* The jobs of incidents that were derived again.                          *)
Carried(old) == {j \in DOMAIN old.jobs : j.incident \in DOMAIN incidents}

(* The jobs an incident x of ID i calls for, and their times; if several   *)
(* primary outages cover the start of a fallback's, it opens with any.     *)
Opening(i, x) == IF i.iface = Primary THEN {Job(i, "opened")}
                 ELSE FallbackOpening(i, x.activatedAt)

Closing(i, x) == IF x.state = "resolved" THEN {<<Job(i, ResolvedKind(i.iface)), x.resolvedAt>>} ELSE {}

LaterEscalations(i, x) ==
    {<<Escalation(i, p), incidents[p].activatedAt>> :
        p \in {q \in DOMAIN incidents :
                 /\ i.iface # Primary
                 /\ q.host = i.host /\ q.iface = Primary
                 /\ incidents[q].activatedAt > x.activatedAt
                 /\ x.resolvedAt = NoTime \/ incidents[q].activatedAt < x.resolvedAt}}

Raised(new) == {i \in DOMAIN new : new[i].notify /\ new[i].activatedAt # NoTime}

Openings(new) ==
    {first \in [Raised(new) -> UNION {Opening(i, new[i]) : i \in Raised(new)}] :
        \A i \in Raised(new) : first[i] \in Opening(i, new[i])}

CalledFor(new, first) ==
    UNION {{<<first[i], new[i].activatedAt>>} \cup Closing(i, new[i])
               \cup LaterEscalations(i, new[i]) : i \in Raised(new)}

(* Mutant: only the jobs of the old snapshot and those of new records.     *)
RebuiltJobsCarried(old, new, first) ==
    [j \in Carried(old) \cup DOMAIN jobs |-> IF j \in Carried(old) THEN old.jobs[j] ELSE jobs[j]]

RebuiltJobs(old, new, first) ==
    LET called == CalledFor(new, first)
    IN  [j \in Carried(old) \cup DOMAIN jobs \cup {c[1] : c \in called} |->
            IF j \in Carried(old) THEN old.jobs[j]
            ELSE IF j \in DOMAIN jobs THEN jobs[j]
            ELSE (CHOOSE c \in called : c[1] = j)[2]]

RebuiltDelivery(old) == [j \in Carried(old) \cap DOMAIN delivery |-> delivery[j]]

Rebuild ==
    \E old \in worker.previous :
        LET p == Progress(worker.next)
            new == RebuiltIncidents(old)
        IN  /\ Applied
            /\ progress' = p
            /\ incidents' = new
            /\ trackers' = RebuiltTrackers(new)
            /\ \E first \in Openings(new) : jobs' = RebuiltJobs(old, new, first)
            /\ delivery' = RebuiltDelivery(old)
            /\ \/ /\ disk' = [trackers |-> trackers', incidents |-> incidents', jobs |-> jobs',
                               progress |-> p, delivery |-> delivery', observed |-> observed]
                  /\ worker' = [worker EXCEPT !.pc = "tick", !.changed = NoFile, !.previous = {}]
                  /\ UNCHANGED faults
               \/ /\ SaveFails
                  /\ worker' = Resting("idle")
            /\ UNCHANGED <<cfg, cs, observed, frontier, clock, archive, lost, torn, publishing, wake,
                           startedAt, deliveryVars>>

-----------------------------------------------------------------------------
(* Tick, which saves only what it changed.                                 *)

StartDispatch(queue) == [worker EXCEPT !.pc = "dispatch", !.queue = queue]

TickChanges ==
    /\ worker.pc = "tick"
    /\ BeginTick(worker.now)
    /\ worker' = [worker EXCEPT !.pc = "ticking"]
    /\ UNCHANGED <<clock, archive, lost, torn, publishing, wake, progress, delivery, disk,
                   startedAt, deliveryVars, faults>>

(* Mutant: dispatch runs before the snapshot is saved.                     *)
TickUnsaved ==
    /\ worker.pc = "ticking" /\ cs = Idle
    /\ worker' = StartDispatch(DueJobs(worker.now))
    /\ UNCHANGED <<vars, clock, archive, lost, torn, publishing, wake, progress, delivery, disk,
                   startedAt, deliveryVars, faults>>

TickSaved ==
    /\ worker.pc = "ticking" /\ cs = Idle
    /\ \/ /\ disk' = Snapshot(progress, delivery)
          /\ worker' = StartDispatch(DueJobs(worker.now))
          /\ UNCHANGED faults
       \/ /\ SaveFails
          /\ worker' = Resting("idle")
    /\ UNCHANGED <<vars, clock, archive, lost, torn, publishing, wake, progress, delivery,
                   startedAt, deliveryVars>>

TickChangesNothing ==
    /\ worker.pc = "tick"
    /\ NothingDue(worker.now)
    /\ worker' = StartDispatch(DueJobs(worker.now))
    /\ UNCHANGED <<vars, clock, archive, lost, torn, publishing, wake, progress, delivery, disk,
                   startedAt, deliveryVars, faults>>

-----------------------------------------------------------------------------
(* dispatch: the jobs due at its start, oldest first.                      *)

Oldest(j) == j \in worker.queue /\ \A other \in worker.queue : jobs[j] <= jobs[other]

Counted(j) ==
    [x \in DOMAIN accepted \cup {j} |->
        (IF x \in DOMAIN accepted THEN accepted[x] ELSE 0) + (IF x = j THEN 1 ELSE 0)]

Sent(j, result) ==
    [worker EXCEPT !.pc = "mark", !.queue = @ \ {j}, !.sending = {j}, !.result = result]

(* Send: the service accepts the job and says so; accepts it and the       *)
(* answer is lost; is not reached or asks for a retry; refuses it.         *)
SendSucceeds(j) ==
    /\ accepted' = Counted(j)
    /\ worker' = Sent(j, "sent")
    /\ UNCHANGED <<refused, faults>>

SendFails(j) ==
    /\ faults.send < MaxSendFailures /\ MayFail
    /\ faults' = [faults EXCEPT !.send = @ + 1]
    /\ \/ /\ accepted' \in {accepted, Counted(j)}
          /\ worker' = Sent(j, "retry")
          /\ UNCHANGED refused
       \/ /\ refused' = refused \cup {j}
          /\ worker' = Sent(j, "permanent")
          /\ UNCHANGED accepted

Sends(j) ==
    /\ worker.pc = "dispatch"
    /\ Oldest(j)
    /\ j.incident \in DOMAIN incidents
    /\ SendSucceeds(j) \/ SendFails(j)
    /\ UNCHANGED <<vars, clock, archive, lost, torn, publishing, wake, progress, delivery, disk,
                   startedAt>>

(* "incident not found": a rebuild kept the job although its incident is   *)
(* pending again, and the incident was then cancelled.                     *)
GivesUp(j) ==
    /\ worker.pc = "dispatch"
    /\ Oldest(j)
    /\ j.incident \notin DOMAIN incidents
    /\ refused' = refused \cup {j}
    /\ worker' = Sent(j, "permanent")
    /\ UNCHANGED <<vars, clock, archive, lost, torn, publishing, wake, progress, delivery, disk,
                   startedAt, accepted, faults>>

(* Retries are due after some delay; none reaches past the last time.      *)
RetryTimes(now) == IF now < MaxTime THEN now + 1 .. MaxTime ELSE {MaxTime}

(* Mutant: a refused job is marked as sent.                                *)
MarksRefusedSent(j) ==
    {d \in [nextAt : 0 .. MaxTime, sent : BOOLEAN, permanent : BOOLEAN] :
        /\ d.sent = (worker.result # "retry")
        /\ d.permanent = FALSE
        /\ IF worker.result = "sent" THEN d.nextAt = Delivery(j).nextAt
           ELSE d.nextAt \in RetryTimes(worker.now)}

(* Mutant: every failure is permanent.                                     *)
MarksNoRetry(j) ==
    {d \in [nextAt : 0 .. MaxTime, sent : BOOLEAN, permanent : BOOLEAN] :
        /\ d.sent = (worker.result = "sent")
        /\ d.permanent = ~d.sent
        /\ d.nextAt = Delivery(j).nextAt}

(* MarkNotificationSent and MarkNotificationFailed.                        *)
Marks(j) ==
    {d \in [nextAt : 0 .. MaxTime, sent : BOOLEAN, permanent : BOOLEAN] :
        /\ d.sent = (worker.result = "sent")
        /\ d.permanent = (worker.result = "permanent")
        /\ IF worker.result = "sent" THEN d.nextAt = Delivery(j).nextAt
           ELSE d.nextAt \in RetryTimes(worker.now)}

(* Mutant: dispatch goes on with the job it has just marked.               *)
MarkJobKept(j) ==
    /\ worker.pc = "mark"
    /\ j \in worker.sending
    /\ \E d \in Marks(j) :
          /\ delivery' = Deliver(j, d)
          /\ disk' = Snapshot(progress, delivery')
    /\ worker' = [worker EXCEPT !.pc = "dispatch", !.result = "none"]
    /\ UNCHANGED <<vars, clock, archive, lost, torn, publishing, wake, progress, startedAt,
                   deliveryVars, faults>>

(* A mark that cannot be saved is rolled back, and dispatch gives up.      *)
MarkJob(j) ==
    /\ worker.pc = "mark"
    /\ j \in worker.sending
    /\ \/ \E d \in Marks(j) :
             /\ delivery' = Deliver(j, d)
             /\ disk' = Snapshot(progress, delivery')
             /\ worker' = [worker EXCEPT !.pc = "dispatch", !.sending = {}, !.result = "none"]
             /\ UNCHANGED faults
       \/ /\ SaveFails
          /\ worker' = Resting("idle")
          /\ UNCHANGED delivery
    /\ UNCHANGED <<vars, clock, archive, lost, torn, publishing, wake, progress, startedAt,
                   deliveryVars>>

DispatchDone ==
    /\ worker.pc = "dispatch"
    /\ worker.queue = {}
    /\ worker' = Resting("idle")
    /\ UNCHANGED <<vars, clock, archive, lost, torn, publishing, wake, progress, delivery, disk,
                   startedAt, deliveryVars, faults>>

-----------------------------------------------------------------------------
(* The process dies with everything it holds in memory and starts again    *)
(* from the saved snapshot, perhaps under other thresholds.                *)
Crash(c) ==
    /\ faults.crash < MaxCrashes /\ MayFail
    /\ faults' = [faults EXCEPT !.crash = @ + 1]
    /\ cfg' = c
    /\ trackers' = disk.trackers
    /\ incidents' = disk.incidents
    /\ jobs' = disk.jobs
    /\ observed' = disk.observed
    /\ progress' = disk.progress
    /\ delivery' = disk.delivery
    /\ cs' = Idle
    /\ publishing' = {}
    /\ wake' = FALSE
    /\ worker' = Resting("start")
    /\ startedAt' = clock
    /\ UNCHANGED <<frontier, clock, archive, lost, torn, disk, deliveryVars>>

-----------------------------------------------------------------------------
WorkerStep ==
    \/ StartUp
    \/ \E f \in Files : VisitFile(f) \/ PartitionChanged(f) \/ VisitFails(f)
    \/ AllVisited
    \/ BeginRebuild
    \/ \E p \in worker.batch : ApplyRecord(p)
    \/ EngineStep
    \/ Checkpoint
    \/ Rebuild
    \/ TickChanges
    \/ TickSaved
    \/ TickChangesNothing
    \/ \E j \in worker.queue : Sends(j) \/ GivesUp(j)
    \/ \E j \in worker.sending : MarkJob(j)
    \/ DispatchDone

WorkerNext ==
    \/ \E m \in Inputs : Receives(m)
    \/ \E m \in ImportInputs, at \in 0 .. MaxTime : Imports(m, at)
    \/ \E writer \in {"syslog", "import"} : Publish(writer)
    \/ \E f \in Files : AppendCut(f) \/ Replaced(f)
    \/ TimePasses
    \/ Woken
    \/ Periodic
    \/ EverySecond
    \/ WorkerStep
    \/ \E c \in Configs : Crash(c)

WorkerSpec == WorkerInit /\ [][WorkerNext]_allVars

(* The goroutines and the clock go on; a select with several ready         *)
(* branches picks one at random, so a branch that is ready again and again *)
(* is taken.  Nothing is assumed of the periodic reconcile.                *)
WakeSpec ==
    /\ WorkerSpec
    /\ WF_allVars(TimePasses)
    /\ WF_allVars(WorkerStep)
    /\ \A writer \in {"syslog", "import"} : WF_allVars(Publish(writer))
    /\ SF_allVars(Woken)
    /\ SF_allVars(EverySecond)

-----------------------------------------------------------------------------
(* The type of the worker's state.                                         *)
WorkerTypeOK ==
    /\ clock \in 0 .. MaxTime
    /\ \A f \in Files : \A n \in 1 .. Len(archive[f]) : archive[f][n] \in Record
    /\ publishing \subseteq {"syslog", "import"}
    /\ wake \in BOOLEAN
    /\ progress \in [cursors : [Files -> Seq(MsgIDs)], bootstrapped : BOOLEAN,
                     checkpointAt : OptTime]
    /\ worker.previous = {} => DOMAIN delivery \subseteq DOMAIN jobs
    /\ worker.pc \in {"start", "idle", "visit", "apply", "tick", "ticking", "dispatch", "mark"}
    /\ {p.record : p \in worker.batch} \subseteq Log
    /\ worker.queue \cup worker.sending \subseteq DOMAIN jobs
    /\ worker.pc = "mark" <=> worker.sending # {}

(* The supported records a set of cursors claims to have been read.        *)
Claimed(cursors) ==
    {r.id : r \in {x \in Log : Supported(x.input) /\ \E f \in Files : x.id \in ToSet(cursors[f])}}

(* The comment on Apply says that a checkpoint should never claim source   *)
(* progress that its derived state does not contain.  It claims exactly    *)
(* the records its state was derived from, whatever was appended or        *)
(* replaced while the files were read and whichever saves and processes    *)
(* failed: no record is skipped and none is observed twice.                *)
CheckpointExact ==
    /\ disk.observed = Claimed(disk.progress.cursors)
    /\ worker.pc = "apply" => {p.record.id : p \in worker.batch} \cap observed = {}

(* A live message about the interface of incident i that came in between   *)
(* the incident's start and the time at.                                   *)
LiveFailure(i, at) ==
    \E r \in Log :
        LET e == Classify(r.input, r.at, r.id, FALSE)
        IN  /\ ~r.import /\ r.at >= FirstStart
            /\ ~e.online /\ ~e.observeOnly
            /\ e.host = i.host /\ e.iface = i.iface
            /\ i.at <= r.at /\ r.at < at

(* Nobody is alerted about the past: every job is about an incident for    *)
(* which a live failure came in after the first start of the service and   *)
(* before the incident was activated, however imports, the first reading   *)
(* of an old archive, crashes, rebuilds and late evidence mix.  Only what  *)
(* a backup puts back into a file counts as new; and where a file lost     *)
(* records, the incident may be derived again with another activation.     *)
AlertsAreLive ==
    faults.restore = 0 =>
        \A j \in DOMAIN jobs :
            LiveFailure(j.incident,
                        IF faults.truncate > 0 THEN MaxTime + 1
                        ELSE j.incident.at + incidents[j.incident].downAfter)

(* A rebuild, once it is through, leaves a snapshot that hangs together:   *)
(* trackers and incidents agree, and every incident that alerts has its    *)
(* jobs, those included whose alert was due and had not been raised when   *)
(* the file was replaced; and without a rebuild every job is justified.    *)
RebuiltCoherent ==
    (cs = Idle /\ worker.previous = {}) =>
        /\ TrackersAgree
        /\ \A i \in DOMAIN incidents : incidents[i].notify => Announced(i)
        /\ faults.truncate + faults.restore = 0 => \A j \in DOMAIN jobs : Justified(j)

(* Jobs that are closed, because they were sent or because they failed.    *)
SentIn(d) == {j \in DOMAIN d : d[j].sent}

FailedIn(d) == {j \in DOMAIN d : d[j].permanent}

Out == INSTANCE Outbox WITH sent <- SentIn(delivery), failed <- FailedIn(delivery),
                            Forgets <- MaxReplacements > 0

(* Notifications are delivered as Outbox promises, with crashes, failing   *)
(* saves, lost answers and rebuilds at any time: only open jobs are sent,  *)
(* and a job is closed only on the answer of the service, or because its   *)
(* incident is gone, and then for good.                                    *)
ImplementsOutbox == Out!Spec

(* A job counts as sent only if the service accepted it.                   *)
SentWasAccepted ==
    \A j \in DOMAIN jobs : Delivery(j).sent => j \in DOMAIN accepted

(* A job is delivered at most once more than there were faults: a crash,   *)
(* a failed save or a lost answer costs one duplicate each, and so does a  *)
(* record that was lost and is put back.  A rebuild itself costs none.     *)
DuplicatesBounded ==
    \A j \in DOMAIN accepted :
        accepted[j] <= 1 + faults.crash + faults.save + faults.send + faults.restore

(* The outbox is durable (LOGTHING_STATE_DIR): what was sent is on disk,   *)
(* so that a restart remembers every incident the user was told of.        *)
SentIsDurable ==
    \A j \in DOMAIN accepted : j \in DOMAIN disk.jobs

(* A message is dealt with once it is observed, or lost with its line; or  *)
(* once the archive has a line that does not decode, on which the reading  *)
(* ends whenever it gets there.                                            *)
DealtWith(id) ==
    \/ id \in observed
    \/ id \notin StoredIDs
    \/ \E r \in Log : ~r.whole

(* Every stored message is observed.  As long as no file was unreadable    *)
(* for a moment, that takes no more than the token of its own Publish: the *)
(* wake channel loses no wakeup.  A token that a failing read has used up  *)
(* is made up for by the periodic reconcile.                               *)
EveryRecordObserved ==
    \A id \in MsgIDs :
        /\ (id \in StoredIDs) ~> (DealtWith(id) \/ faults.read > 0)
        /\ SF_allVars(Periodic) => ((id \in StoredIDs) ~> DealtWith(id))

(* The saved jobs of the incident that message id started are settled:     *)
(* accepted by the service at least once, or given up for good.            *)
Settled(id) ==
    \A j \in DOMAIN disk.jobs :
        j.incident.msg = id => j \in DOMAIN accepted \cup refused

(* Delivery is at least once: a saved job is retried until it is settled,  *)
(* across lost answers and crashes.                                        *)
EveryJobSettled == \A id \in MsgIDs : ~Settled(id) ~> Settled(id)

(* LOGTHING_WAN_DOWN_AFTER is a continuous offline period: no tick opens   *)
(* an incident while the archive holds a recovery of its interface from    *)
(* within that period.                                                     *)
StoredRecoveryHeeded ==
    cs.op = "tick" =>
        \A k \in Keys :
            (Due(k, cs.now) /\ trackers[k].phase = "pending_failure") =>
                ~\E r \in Log :
                    LET e == Classify(r.input, r.at, r.id, FALSE)
                    IN  /\ e.online /\ <<e.host, e.iface>> = k
                        /\ r.id \notin observed
                        /\ trackers[k].pendingSince <= e.at /\ e.at < DueAt(k)
=============================================================================
