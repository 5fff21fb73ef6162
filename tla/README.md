# Verification of logthing

logthing receives syslog messages over UDP and TCP, keeps them in an archive of
day files, serves them to a web page (queries and a live stream), and derives
WAN incidents from the messages of OpenWrt routers, about which it notifies a
Discord webhook. This directory holds TLA+ models of the parts of it that keep
state, TLC runs on small instances, and TLAPS proofs.

## 1. Inventory

The service is one Go process with several goroutines; the page is a React
application. What each part keeps, does and must guarantee:

| component | state | operations | what makes it correct |
|---|---|---|---|
| incident engine, `internal/incidents/engine.go` | `trackers` per host and interface, `incidents`, `outbox`, `cursors`, `bootstrapped`, all in one snapshot under one mutex | `classify`, `Apply`/`observeLocked`, `Tick`/`advanceLocked`, escalation, enqueueing, `Rebuild`, `Load`, `DueNotifications`, `MarkNotification*`, `List` | trackers, incidents and outbox agree; thresholds are kept exactly; nothing announced is taken back |
| incident worker, `internal/incidents/worker.go` | the wake channel, `startedAt`, the health report | `Run` (select over the wake channel, one second, 30 seconds), `reconcile`, `tick`, `dispatch`, retry delays, `SendTest` | each stored message is observed once; no alert about the past; at-least-once delivery |
| state file, `internal/incidents/file_persistence.go` | one JSON file and a temporary one | `Load`, `Save`, `replaceFile` | always loadable; replaced atomically |
| archive, `internal/storage/file_store.go`, `append_reader.go` | files per day and source, a mutex for writers | `Append`, `VisitAfter` with cursors and fingerprints | a cursor claims what was read, and only that |
| queries, `internal/storage/query_index.go`, `text_filter.go` | index cache per file | `Query` (index, merge, filter, page) | a page of the sorted list of the stored messages |
| hub and stream, `internal/realtime/hub.go`, `internal/api/router.go` | subscriber map with buffered channels | `Subscribe`, unsubscribe, `Publish`, the SSE handler | order kept, losses only from a full buffer, no panic, no waiting writer |
| HTTP API, `internal/api/router.go`, `auth.go` | none of its own | message, host, incident, health and test endpoints | page limits, `hasMore` |
| import, `internal/api/import.go` | none of its own | parse one JSON object per line, append each as it is parsed | imports never alert |
| listener, `internal/syslog/listener.go` | sockets, a channel of 1024 messages | read, parse, queue; one consumer stamps and stores | a message that is stored is also published |
| notification, `internal/notification` | none | `Send`, classification of the answer | permanent or retry |
| lifecycle, `cmd/server/main.go` | goroutines and contexts | start in order, serve, shutdown | it ends when told to, and cuts nothing off in silence |
| page, messages, `frontend/src/App.tsx`, `api.ts` | message list, selection, requests, stream | fetch, live events, filters, pages | nothing is shown twice or lost, and only what is selected |
| page, incidents, `frontend/src/App.tsx`, `api.ts` | incident rows, health, load error | four requests every 15 seconds | what is shown was true a poll ago, and the page catches up |
| configuration, sender, embedded assets | none | | |

How they interact. The listener's consumer and import handlers append through
`PublishingStore`: first the store, then `Publish` on the hub and `Wake` on the
worker, with nothing held in between. The worker reads the archive by itself,
behind its cursors, and is the only caller of `Apply` and `Tick`; HTTP handlers
read the engine under its mutex. The hub copies messages into one channel per
client, which the SSE handler of that client empties. Queries read the day files
while they grow.

What is hard here: messages older than what the engine has seen (imports,
re-reading, several files); ticks racing with messages that are stored and not
yet read; a wakeup that arrives while the worker is busy; crashes and failing
saves anywhere between reading, saving and sending; answers of the webhook that
get lost; restarts under other thresholds; clients that leave while a message is
published; indexes that go stale; day files that are truncated or restored; torn
lines, on which every later reading fails; requests that read one after the other what changes meanwhile; a stop with
open streams and queued messages. `PROJECT.json` lists these hazards line by line
with the properties that cover them.

## 2. Modules

| module | models | composed of |
|---|---|---|
| `IncidentEngine` | engine.go: classification, debouncing, escalation, outbox | |
| `IncidentWorker` | worker.go, `Apply`, `Rebuild`, `Append` and `VisitAfter`, crashes and faults | extends `IncidentEngine`, implements `Outbox` |
| `Outbox` | abstract: what the worker promises of its notification jobs | |
| `FilePersistence` | file_persistence.go, call by call | |
| `LiveStream` | hub.go, `PublishingStore.Append`, the SSE handler | |
| `Server` | `run` of main.go, listener.go, the life of imports and streams | extends `LiveStream` |
| `QueryIndex` | query_index.go, torn appends, and the message handler's paging | |
| `LiveView` | the message list of App.tsx, `listMessages`, the stream's client side | |
| `IncidentsPage` | the incident summary and tables of App.tsx, `handleIncidents` | |
| `MC*` | instances for TLC | |
| `Sorting` | what a sort returns (`sort.Slice`, `Array.prototype.sort`) | used by `QueryIndex`, `LiveView` |
| `SortingProofs` | lemmas about it | extends `Sorting` |
| `IncidentEngineProofs` | proofs about the engine: its state; its outbox | extends `IncidentEngine` |
| `IncidentWorkerProofs` | proofs about the worker: its outbox; its checkpoints; the engine inside it | extends `IncidentWorker`, `IncidentEngineProofs` |
| `QueryIndexProofs`, `LiveViewProofs` | proofs | extend their components and `SortingProofs` |
| `FilePersistenceProofs`, `ServerProofs`, `IncidentsPageProofs` | proofs | extend their components |

**IncidentEngine.** `trackers`, `incidents` and `jobs` are the maps of the
snapshot. A map entry that does not exist is a tracker with phase `""`. The mutex
is `cs`: `BeginObserve` and `BeginTick` take it, each turn of the loop of
`advanceLocked` is one action (`ActivatePrimary`, `ActivateFallback`, `Resolve`),
and one action finishes the operation: the branches of `observeLocked` after
`advanceLocked` are `UpOverruled`, `StartIncident`, `FailureConfirmed`,
`RecoveryInterrupted`, `PhaseConfirmed`, `FirstOnline`, `FailureCancelled` and
`RecoveryBegins`. `nextDueTrackerLocked` is `NextDue`: the earliest due time, then
the priority; a remaining tie falls to the order of a Go map, hence to either.
Incident IDs are the fields the code hashes. Every message has an ID of its own:
the code draws them at random, for imports too. The primary interface is fixed: a
restart may change the thresholds (`Restart`) and not the interface. Texts,
evidence lists and `LastEvidenceAt` of an incident are display data and left out.

**IncidentWorker.** Files, one per day and source, are sequences of lines, and a cursor is the sequence of
the lines it has read, which stands for its offset and its fingerprint (`Intact`);
the real fingerprint covers the first and the last 2048 bytes before the offset, so
that a change in the middle of a long file goes unseen. The goroutine of `Run` is
`worker`, with one action for each point where another goroutine or a fault can come
in: `StartUp`, `Woken`, `Periodic` and `EverySecond` are the beginning and the branches
of the select; `VisitFile` reads one file of the list taken at the start, and `VisitFails` is its error:
the file could not be listed, opened or read, or a line does not decode; `reconcile` then
returns with nothing applied, and the token it was woken by is gone;
`ApplyRecord` and `EngineStep` hand the sorted batch to the engine; `Checkpoint`,
`Rebuild`, `TickSaved` and `MarkJob` save, and each may fail with the consequences it
has in the code (cursors stay moved, marks are rolled back, the rest of the pass is
abandoned); `Sends` is `Adapter.Send` with its four outcomes, and `GivesUp` the branch of
`dispatch` for a job whose incident is gone. `Crash` loses the memory
and starts from `disk`. An orderly shutdown cancels the context, after which the worker
sends and saves nothing: for this model it is a crash.

An append may be cut off (`AppendCut`), by an error of the write or because the process
dies in it. It leaves an incomplete line at the end of the file (`torn`), which readers
leave alone until the next append completes it to a line that does not decode (`Line`,
`whole`). Imports that run at the same time are one writer here, since the worker sees
their appends only; `Server` has any number of them.

A file may be truncated, or get back what it lost in front of what has come since
(`Replaced`). The pass that finds a cursor no longer intact reads everything again
(`PartitionChanged`), derives a new state from nothing (`BeginRebuild`) and merges the
old one into it (`Rebuild`): incidents go on alerting, jobs of incidents that still exist
are carried over with their deliveries, and jobs that the incidents call for and that
nothing has created are added, with one opening notification per incident (`Openings`).

**Outbox.** `accepted` and `refused` are the answers of the service, `sent` and `failed`
the jobs closed in the snapshot. A job is sent only while it is open, closed only after
the answer that justifies it, and stays closed; only where files may be replaced does a
rebuild forget jobs. `ImplementsOutbox` is this specification with the fields of
`delivery` substituted.

**FilePersistence.** One action per system call of `Save`, each of which may fail;
the state file as processes see it (`target`) and as the medium has it
(`written`); a process crash keeps `target`, a power failure leaves `target` or
`written`, and what is left of a file that was not synced may be torn. The first
rename may be refused, as the fallback in `replaceFile` expects of some platforms;
`refusals` counts that.

**LiveStream.** `StoreAppend` and `Publish` are the two halves of
`PublishingStore.Append`. `Publish` runs under the hub's mutex and never blocks:
one step. Unsubscribing is two, because the channel is closed after the mutex is
released.

**Server.** Around `LiveStream`: the channel of the listener is a number of messages,
`Received` fills it and `Consume` appends; imports are writers that run side by side, each of
which begins, appends some messages and ends (`BeginImport`, `ImportAppends`, `EndImport`); `main` is
where `run` stands (`Signal`, `ServerFails`, `Drained`, `TimesOut`, `Exits`). The deferred
`listener.Shutdown` closes `done` and waits for the consumer, which ends at its select
only (`ConsumerEnds`). `Exits` ends every goroutine with the process. Parsing and the
sockets are left out.

**QueryIndex.** A query indexes the files one by one (`IndexFile`), installs the
index (`IndexDone`), pops the heap message by message (`Pop`) and answers
(`Respond`), while `AppendMessage` goes on. Offsets are record numbers; the text
filter is a Boolean of the message. `AppendTorn` is a write that stops half way, with or
without the end of the process: the next append completes the line to one that does not
decode (`Garbled`), and a query that has to scan it fails (`IndexFails`) and leaves the
cached indexes as they were. A sort is `Sorted` of the module `Sorting`: of a set and an
order, each member at the place that the number of those before it gives. The comparison of
`sort.Slice` is `Newer`, and `Reference` is all that a query wants (`Wanted`), sorted at once.

**LiveView.** A handler of the page, the rendering it causes and the effects of that
rendering are one step (`Rerender`): the effect on `refresh` aborts its request and
sends another, the effect on the stream closes or opens it, and `liveDisabled` switches
live updates off. Between such steps requests are answered (`Answer`) and arrive
(`Arrive`), messages are stored and travel on the stream (`HandleMessage`), and
connections fail (`HandleError`). Requests of the Refresh button and of imports have no
abort signal and are kept apart from the one of the effect. Whether the page size is
"auto" is not tracked: `FitSize` may happen at any time. What the server lists is taken
from its definition, which is what `QueryIndex` shows of it. The orders of its sorts are
`Latest` for the server and, stable, `Stably` for the page.

**IncidentsPage.** The server is the sequence of its states since the page was opened;
a poll remembers when it began, and each of its four requests is handled at a moment
between that and its end, chosen when it ends (`Settle`). `handleIncidents` lists the
incidents first and reads their deliveries later, which makes two moments per list.
Polls overlap, fail (`Fails`), and the first one of a development build is aborted
(`Aborted`). What incidents do is the part of `IncidentEngine` that can be seen from
outside: the same transitions, without their times.

## 3. Runs

| run | shows | bounds |
|---|---|---|
| `engine_late` | evidence and ticks in any order of their times, restarts with other thresholds: `TrackersAgree`, `TimelineWellFormed`, `AlertCoherence`, `HistoryKept`, `MutexReleased` | 3 messages, times 0..3, two threshold settings, primary and one fallback |
| `engine_in_order` | evidence in order: `EscalationExact`, `OutageContinuous` | 5 messages, times 0..5 |
| `worker_faults` | `CheckpointExact`, `AlertsAreLive`, `DuplicatesBounded` and the refinement `ImplementsOutbox` under every fault, and no deadlock | 2 messages, reports received live and outages imported, two day files, at most two faults among one crash and one failing read, save and send each |
| `worker_live` | `SentIsDurable`, `EveryRecordObserved`, `EveryJobSettled` when saving works | 2 messages received live, outages of the primary and of a fallback, whose jobs fall due together; times 0..2, a file per unit of time; at most two faults among one crash, one append that is cut off, one failing read and one failing send |
| `worker_rebuild` | `CheckpointExact`, `AlertsAreLive`, `DuplicatesBounded`, `RebuiltCoherent` when files are truncated and restored | 2 messages of the primary interface, times 0..2, two threshold settings, two day files, two replacements, at most two faults among one crash and one failing save |
| `worker_tick` | violation, see findings | |
| `persistence` | `AlwaysLoadable` and `ReplacedUnlessRefused` | 4 saves, 3 failures |
| `server` | `OpenChannelsOnly`, `StreamFaithful`, `WritersNeverWait`, `StopsCleanly`, `Stops` | the consumer and 2 imports at once, 1 client, a buffer of 2, a queue of 2, 4 messages |
| `query_index` | `PageExact`, `SeesStored` | 2 files, 4 messages of 4 shapes, one of them torn, 2 queries of 4 kinds |
| `live_view` | `ListOrdered`, `TypingKeepsLive`, `ShownSelected`, `LiveFresh`, `LiveResumes` | 2 messages of 2 hosts, pages of 1 or 2, 2 user actions, one of them a refresh or an import, one failure |
| `incidents_page` | `RowsWereTrue`, `SteadyShownOnce`, `SteadyNoticed`, `CatchesUp` | 2 incidents, lists limited to 1, 2 polls at a time, 2 changes, one failure |
| `page_summary` | violation, see findings | |

Why these bounds reach the interesting cases. An incident takes three reports
and the passing of two thresholds to run its course, and every disagreement
between tracker and incident is between one incident and one late message; the
theorems then remove the bounds. An escalation is about one primary and one
fallback outage: four reports make two complete ones, and a fifth starts a third
or interrupts a recovery. In the worker one record may be appended while another
is processed, in the same file or in the next; each fault occurs at every step,
and two of different kinds in every order (`MaxFaults` leaves out a third one; the theorems
have no such bound). With two saves and a failing third the
state file passes all the states of `replaceFile`. A buffer of two, fed with
four messages, is empty, partly filled, full and overflows; one client suffices, since each has
a channel of its own and `Publish` treats all alike, and the theorems hold for any number. The
worker's runs have one source, and `worker_tick` two: what further sources add is that two
files hold records of the same time, and the theorems hold for any number. Appends are cut off
in `worker_live` only, and no read fails in `worker_rebuild`; the theorems about the worker's
safety cover both. A cached
index is extended by the second query, and may be by a line that does not decode. Two
replacements are a file that is truncated and restored, or truncated twice, before,
during or after a pass. Two changes of incidents happen before, between and after the
requests of a poll, and a limit of one is passed by the second incident. Two actions of
the user make a request that is overtaken, aborted or late, with a page of one that the second
message overflows.

In the worker runs message times and the clock end at `MaxTime`, and so do retry
delays, so that every retry falls due within the run. `CHECK_DEADLOCK FALSE` stands where the
bounds use up all messages and the component then rightly waits for ever; the worker has no such
end, its runs check deadlock.

### Fairness

- `FairSpec` of the engine: weak fairness of `Locked`. A goroutine that holds the
  mutex is scheduled again. Nothing is assumed of messages and ticks.
- `WakeSpec` of the worker: weak fairness of the clock, of the steps of the worker
  and of a writer's `Publish`; strong fairness of `Woken` and `EverySecond`, since
  a Go `select` picks at random among the ready branches and so cannot pass over a
  branch that is ready again and again. The reconcile of every 30 seconds (`Periodic`) gets
  none: the first part of `EveryRecordObserved` shows that a wakeup alone suffices as long as
  no read has failed. Where one has, the token of a message may have been used up in vain, and
  only the periodic reconcile reads it: its strong fairness is the hypothesis of the second
  part. Reads fail only as often as `MaxReadFailures`, and sends
  as `MaxSendFailures`: an endlessly failing webhook settles nothing.
- `LiveView`: weak fairness of the effect's request, its answer and the connection; that
  is, the server answers and the browser goes on. Failures are counted, and nothing is
  assumed of the user, the timer of the filter box and the events.
- `Server`: weak fairness of a writer's `Publish`, of the end of `Shutdown`, which has a
  timeout, and of the end of the process; strong fairness of the consumer's end, whose
  select picks at random. Clients may stop reading for ever, imports may hang, and
  senders may send or not.
- `IncidentsPage`: weak fairness of the interval, of polls that are answered and of the
  rejection of the aborted one. Failures are counted, and so are changes: `CatchesUp`
  is about what happens when they are over.

### Findings

1. `worker_tick`: README.md:35 calls `LOGTHING_WAN_DOWN_AFTER` a "Continuous
   offline period before opening an incident". The one-second tick advances the
   engine without reading the archive, so that it opens an incident although a
   recovery from within the period is stored and waits for its wakeup to be served.
2. `page_summary`: README.md:227 says that the summary "shows whether any connectivity
   incident is current". The page asks for pending, active and resolved incidents in
   parallel requests. When the active ones are listed before an incident is confirmed and
   the pending ones afterwards, the incident is in neither list and the summary reports
   that all is healthy until the next poll, although the incident was current throughout.

Some properties hold only under a condition that stands in their statement or in the
run's bounds, because the code does not hold without it:

- `SentIsDurable` is checked with saves that work. `Tick` saves only what it changed
  itself: after a save that failed, the next `Tick` finds nothing to do and returns
  success, and `dispatch` sends jobs that are only in memory. The property therefore does not
  cover that hazard, which no run does.
- `ReplacedUnlessRefused` is about renames that are not refused. After a refused one
  `replaceFile` removes the state file before it tries again; a crash or a second refusal
  leaves none, and `Load` takes a missing file for an empty snapshot. Of that window only
  `AlwaysLoadable` speaks: `Load` does not fail there.
- `EveryRecordObserved` takes a message for dealt with once the archive holds a line that does
  not decode. After one append that was cut off, the next one to that file makes such a line,
  and from then on every reconciliation stops there with nothing applied, of other files
  either, until the line is removed by hand. Ticks and deliveries go on (`EveryJobSettled`).
- `LiveFresh` names two kinds of messages that belong on the first page and are missing until
  the next refresh. The page opens the stream when its first request has been answered, and
  fetches nothing afterwards: a message stored in between is never sent (`given + 1 .. opened`).
  And an answer that was given before a live message was stored, and arrives after it was
  shown, replaces the list without it (`lost`). The property says that no others are missing.
- `LiveResumes` exempts a manual refresh that came too late, the same as `ShownSelected` below:
  the stream then stays closed while the switch says Live.
- `AlertsAreLive` excludes restored files, and `DuplicatesBounded` counts them: records that
  were lost and come back lie behind no cursor and count as new, and a job that a rebuild
  in between has forgotten is sent once more.
- `SeesStored` allows a query to fail. After one torn append every query that has to index
  the file fails until the line is removed by hand.
- `StopsCleanly` says nothing of messages that are queued when the listener stops: they
  are lost. Nor does it of requests when `run` returns an error, which it does whenever a
  stream is open, since nothing ends a stream but its client and `Shutdown` then runs into
  its ten seconds.
- `RowsWereTrue` is about the poll that filled the page, which need not be the latest: polls
  overtake each other. Before the first answer there are no rows, and the summary reads
  as if all were healthy.

`ShownSelected` excludes one case with the history variable `late`, which the code does not
exclude: the answer to a manual refresh that arrives after the selection has changed and
been fetched. It replaces the list by that of the old selection, and sets
`validatedFilter` back, so that the stream closes while the switch says Live.

## 4. Proofs

All theorems hold for all values of the constants under the named assumptions:
thresholds are positive (`ConfigsAssumption`; `config.go` rejects others), messages
come from `Hosts` (`InputsAssumption`), the consumer is one of the writers, of which
the others are imports (`WritersAssumption`), imports are about `Hosts` (`ImportsAssumption`), and switches,
capacities and bounds are Booleans or numbers (`OrderAssumption`, `CapacityAssumption`,
`MessagesAssumption`, `BoundsAssumption` and the like). On the page the empty filter is a valid
one, and `"none"`, which stands for the null of `validatedFilter`, none that can be typed
(`FiltersAssumption`); page sizes are positive (`LimitsAssumption`; `updateSize` and the menu,
whose choice is kept in `localStorage`, give no others).

- `TypeCorrect`, `AgreementHolds`, `TimelineHolds` (IncidentEngineProofs): `TypeOK`,
  `TrackersAgree` and `TimelineWellFormed` are invariants. They are proved together
  as `StateInv`, with `EvidenceFresh`: the due time of a tracker is computed from its
  incident, which exists and has that state only because the two agree; an activation
  keeps the timeline only because the tracker's `pendingSince` is the incident's start;
  and a new incident overwrites none only because its message is new. There is a lemma
  per action, and lemmas on the records the actions build.
- `AlertsHold`, `HistoryHolds` (IncidentEngineProofs): `AlertCoherence` is an invariant
  and `HistoryKept` holds of every step. Both rest on `StateInv`; a step that keeps
  history keeps what justifies the jobs (`JustifiedKept`) and the announcements of
  incidents it does not touch (`AnnouncedKept`), which leaves the three steps that
  enqueue.
- `EscalationsExact`, `OutagesContinuous` (IncidentEngineProofs): `EscalationExact` and
  `OutageContinuous`, under the hypothesis `InOrder`, which is the condition of the run too:
  late evidence may rewrite what an escalation was decided from. `OrderInv` adds `InTime`: the
  engine's time is the latest seen, nothing has happened after it, and what a tracker waits for
  is not before what has happened (`Passed`); at one instant a recovery comes before any
  activation, and a primary activation before that of a fallback, which is the priority of
  `nextDueTrackerLocked`.
- `AlwaysLoads`, `StateFileSafe` (FilePersistenceProofs): `AlwaysLoadable`, from
  `FilesSafe`: what is renamed was synced before, so a power failure finds only complete
  files.
- `ReplacesAtomically` (FilePersistenceProofs): `ReplacedUnlessRefused`, from `Ordered`:
  without refusals versions only grow along temporary file, state file and saved
  version.
- `SentOnlyIfAccepted`, `WorkerImplementsOutbox` (IncidentWorkerProofs): `SentWasAccepted`
  is an invariant and the worker implements `Outbox`, for any number of messages, crashes,
  failures and replacements. The refinement mapping alone is not inductive; `OutboxInv` adds
  that the queue of `dispatch` holds open jobs only, that a job is being marked only after
  the answer that justifies it, and that what is closed in memory is closed on disk, so that
  a crash takes nothing back. Every step is then a step of `Outbox` or leaves its
  variables alone.
- `DeliveredOncePerFault` (IncidentWorkerProofs): `DuplicatesBounded` as long as no file is
  replaced. `Unreplaced` shows that no pass then meets a changed partition, so that no rebuild
  forgets a delivery; and `CountsBounded` that an open job was accepted at most once per
  fault.
- `CheckpointsExact` (IncidentWorkerProofs): `CheckpointExact`, from `RecoveryInv`. A record is
  in one file, once (`Filed`), of its day and source; cursors name records of their own file (`CursorsInv`); and the
  supported records that the cursors claim are those the state was derived from, while files
  are read those and the batch, after a file was found changed the batch alone, and while the
  batch is applied those and what is left of it (`ClaimsInv`). The property alone says nothing
  of the cursors of a pass under way, and a save takes these.
- `WorkerTypeCorrect` (IncidentWorkerProofs): `WorkerTypeOK`, from `TypedInv`, which adds
  that deliveries, queue and the jobs being sent are about jobs that exist, in memory and on disk.
- `SentDurably` (IncidentWorkerProofs): `SentIsDurable` where no save fails and no file is
  replaced (`MaxSaveFailures = 0`, `MaxReplacements = 0`); section 3 says what the code does
  otherwise. `DurableInv`: memory and disk hold the same jobs except while the engine is at
  work, and nothing is sent then.
- `RebuildCoheres` (IncidentWorkerProofs): `RebuiltCoherent`. The invariants of the engine are
  proved again for the engine inside the worker, where a crash and a rebuild replace its state:
  `EngineInv` asks them of memory and disk (`Sound`, `Firm`) and of what a rebuild takes over
  from the old snapshot; until a file is replaced every job is justified (`CleanOutbox`).
- `AlertsStayLive` (IncidentWorkerProofs): `AlertsAreLive`, for any number of crashes, failing
  saves and truncated files. `ReadInv`: the record from before the first start is the first of
  the first file, a bootstrapped cursor has passed it, and it is read again only after a file was
  found changed, and then known to be old. `SourceInv`: whatever may alert, in memory, on disk
  or in the snapshot of a rebuild, goes back to a live record that is in the archive or was.
- `PagesExact`, `QuerySeesStored` (QueryIndexProofs): `PageExact` and `SeesStored`, for any
  number of files, messages, queries and torn writes; times are integers, limit and offset
  numbers (`ShapesAssumption`, `QueriesAssumption`; `parseMessagesQuery` rejects others).
  `IndexInv`: an index, cached or under way, has one entry for each line it covers, newest first,
  and every one of those lines can be decoded; a file that grows leaves that true. `StartInv`:
  the lines of the start are in the index of every file that was read, a torn one as soon as
  the line is complete. `SearchInv` is the merge: the wanted messages that the cursors have
  passed (`Passed`) are before all that are `Left`, there are as many as were skipped and
  found, and what was found has the ranks from the offset on. So the top of the heap is the first
  that is left and its rank the number of those passed (`FirstRank`); and when the loop ends,
  with one message too many or with none left, what was found is the page of the sorted list,
  since a rank is a place in it (`FoundIsPage`). The answer stays exact while files grow
  because the lines that the index covers do not change (`ListKept`).
- `NoSendOnClosed`, `StopIsClean`, `StreamIsFaithful` (ServerProofs): `OpenChannelsOnly`, since a client is in the
  map only while its handler serves and its channel is closed only when it is gone; and
  `StopsCleanly`, since only the consumer and a running import can be between append and
  publication, and `run` waits for the one and, if it succeeds, for the other. `StreamFaithful`
  rests on `NumbersInv`, by which a number is published once, so that what a full channel cost a
  client is not what it got, and on lemmas about `Selection` as its sequences grow.
- `TypingNeverCostsLive`, `ListStaysOrdered`, `ShownIsSelected`, `LiveStaysFresh`
  (LiveViewProofs): `TypingKeepsLive`, `ListOrdered`, `ShownSelected` and `LiveFresh`, for any
  messages and times, filters, hosts and page sizes and any number of requests under way. They
  are proved together as `PageInv`: the request of the effect is about what the page shows,
  since every rendering that changes that sends another (`RequestsInv`); an answer under way is
  a page of what was asked for (`Brings`), and stays one while the archive grows; the stream is
  there only while the filter is known to be valid, and carries what matches it (`LiveInv`). The
  runs' properties speak of moments when no request is under way at all; the inductive ones need
  only the effect's to be served (`Quiet`), and ask that a message on the first page be in the list, on
  its way to it, or of one of the two kinds that `LiveFresh` exempts (`FreshInv`). That nothing
  else is cut off is a count: what falls off the list
  has a full page of messages before it that are selected and not older (`FullPage`). The
  lemmas on `Sorted` (SortingProofs) rest on ranks: those of a finite linear order are an
  injection into `1 .. Cardinality(S)`, hence onto it, which needs no induction over sequences.
- `PageTypeCorrect`, `ShownWasTrue`, `SteadyIsShown`, `SteadyIsNoticed`
  (IncidentsPageProofs): `TypeOK`, `RowsWereTrue`, `SteadyShownOnce` and
  `SteadyNoticed`. Their conjunction is inductive: a change of the server appends to the
  history and leaves the window of the last poll alone, and a poll that ends brings answers
  from its own window. `SteadyNoticed` holds beyond the limit of a list because a list with
  one incident of a section among those that exist is not empty.

Only model-checked: liveness and deadlock (out of the prover's reach), which are
`MutexReleased`, `EveryRecordObserved`, `EveryJobSettled`, `WritersNeverWait`, `Stops`,
`LiveResumes` and `CatchesUp`. Every invariant and every action property of a passing run is
stated by a theorem.

## 5. Not modelled, and why

- `SetCursors`, `ReplaceSnapshot` and `Observe` of the engine: used by tests only.
- The migration of snapshots with `RuleVersion` below 3 in `Load`: it runs once, on a file
  written by an older program.
- Host list, `SendTest`, the test buttons, the export and the navigation of the page: they
  read state, or change nothing the rest depends on.
- The conversion of parsed syslog messages and of import lines to messages: a function of one
  line, without state.
- Authentication: one comparison per request, without state.
- Configuration, syslog sender, embedded assets, formatting of notifications:
  no state that outlives a call.
- Swagger UI and the CSS: vendored or layout.

## 6. Plan

What is left, in this order:

1. An abstract debouncer that sees a whole history at once, and `IncidentEngine` shown to
   implement it where evidence comes in order.
2. Replaced files under the index cache of `QueryIndex`.
