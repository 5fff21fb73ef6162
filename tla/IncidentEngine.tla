--------------------------- MODULE IncidentEngine ---------------------------
(***************************************************************************)
(* The incident engine of internal/incidents/engine.go: connectivity       *)
(* evidence about the primary WAN interface and its fallbacks is debounced *)
(* into incidents, and incidents put notification jobs into an outbox.     *)
(*                                                                         *)
(* Every operation of the Service runs under its mutex.  The variable cs   *)
(* is the operation that holds it: one action takes the mutex, one action  *)
(* is one turn of the loop of advanceLocked, and one action finishes the   *)
(* operation and releases the mutex.                                       *)
(*                                                                         *)
(* Abstracted: a message is its host, tag, interface, status and time; the *)
(* evidence lists and LastEvidenceAt of an incident (display data nothing  *)
(* reads back) are left out; the delivery fields of a job belong to the    *)
(* worker.  Saving the snapshot never fails here; see IncidentWorker.      *)
(* The branches of advanceLocked and of nextDueTrackerLocked for a tracker *)
(* whose incident is missing are left out: TrackersAgree, proved in        *)
(* IncidentEngineProofs, says that no such tracker exists.                 *)
(***************************************************************************)
EXTENDS Integers, FiniteSets

CONSTANTS
    Hosts,        \* host names that send messages
    Primary,      \* cfg.Interface, the primary WAN interface
    Configs,      \* threshold settings, [down, recovered], a restart may load
    Inputs,       \* message shapes, [host, tag, iface, status]
    MaxTime,      \* bound: latest time of a message or of a tick
    MaxMessages,  \* bound: number of messages observed
    InOrder       \* TRUE: evidence and ticks arrive in the order of their times

ASSUME ConfigsAssumption ==
    Configs \subseteq [down : Nat \ {0}, recovered : Nat \ {0}]

ASSUME InputsAssumption ==
    \A i \in Inputs : i.host \in Hosts

ASSUME OrderAssumption == InOrder \in BOOLEAN

VARIABLES
    cfg,        \* the thresholds this process was started with
    trackers,   \* per host and interface: the debouncer; phase "" is no entry
    incidents,  \* incident ID -> incident
    jobs,       \* notification job ID -> the time it was created for
    cs,         \* the operation holding the mutex, or Idle
    observed,   \* history: IDs of the messages observed so far
    frontier    \* history: latest time of a message or an effective tick

vars == <<cfg, trackers, incidents, jobs, cs, observed, frontier>>

-----------------------------------------------------------------------------
(* Data.                                                                   *)

NoTime == -1

Ifaces == {Primary, "wwan", "tethering"}

Keys == Hosts \X Ifaces

States == {"pending_failure", "active", "pending_recovery", "resolved"}

Phases == {"", "healthy", "pending_failure", "active", "pending_recovery"}

OpenPhases == {"pending_failure", "active", "pending_recovery"}

OptTime == Nat \cup {NoTime}

(* incidentID hashes the host, the interface, the time and the message ID. *)
IncidentIDs == [host : Hosts, iface : Ifaces, at : Nat, msg : Nat]

NoIncident == [host |-> "", iface |-> "", at |-> NoTime, msg |-> 0]

Incident ==
    [state : States, startedAt : Nat, activatedAt : OptTime,
     recoveryFirstAt : OptTime, resolvedAt : OptTime,
     downAfter : Nat \ {0}, recoveredAfter : Nat \ {0}, notify : BOOLEAN]

Tracker ==
    [phase : Phases, pendingSince : OptTime, recoverySince : OptTime,
     lastEvidenceAt : OptTime, incident : IncidentIDs \cup {NoIncident},
     notify : BOOLEAN, reachabilityDown : BOOLEAN]

(* tracker{Phase: p, LastEvidenceAt: at}, every other field zero.          *)
FreshTracker(p, at) ==
    [phase |-> p, pendingSince |-> NoTime, recoverySince |-> NoTime,
     lastEvidenceAt |-> at, incident |-> NoIncident,
     notify |-> FALSE, reachabilityDown |-> FALSE]

Kinds == {"opened", "resolved", "fallback_opened", "fallback_resolved",
          "fallback_escalated"}

(* A job is keyed by its incident and kind, an escalation also by the      *)
(* primary incident it is about.                                           *)
JobIDs == [incident : IncidentIDs, kind : Kinds,
           primary : IncidentIDs \cup {NoIncident}]

Job(i, kind) == [incident |-> i, kind |-> kind, primary |-> NoIncident]

Escalation(f, p) ==
    [incident |-> f, kind |-> "fallback_escalated", primary |-> p]

Evidence ==
    [host : Hosts, iface : Ifaces, online : BOOLEAN, at : Nat, msg : Nat,
     reachability : BOOLEAN, observeOnly : BOOLEAN, notify : BOOLEAN]

NoEvidence ==
    [host |-> "", iface |-> "", online |-> FALSE, at |-> NoTime, msg |-> 0,
     reachability |-> FALSE, observeOnly |-> FALSE, notify |-> FALSE]

Idle == [op |-> "idle", now |-> NoTime, ev |-> NoEvidence]

MsgIDs == 1 .. MaxMessages

-----------------------------------------------------------------------------
(* Classification of messages.                                             *)

LaterOf(a, b) == IF a < b THEN b ELSE a

(* The order of arrival is only recorded where it is assumed.              *)
Reach(at) == IF InOrder THEN LaterOf(frontier, at) ELSE frontier

Supported(m) ==
    \/ /\ m.tag = "netifd"
       /\ m.iface \in Ifaces
       /\ \/ m.status \in {"is now down", "is now up"}
          \/ m.iface = Primary /\ m.status = "has lost the connection"
    \/ /\ m.tag = "gl-repeater"
       /\ \/ m.status = "switch to STARLINK"
          \/ m.iface \in {Primary, "wwan"} /\ m.status \in {"offline", "online"}

(* The evidence of a supported message received at time at with ID id.     *)
Classify(m, at, id, notify) ==
    LET selection == m.status = "switch to STARLINK"
    IN  [host |-> m.host,
         iface |-> IF selection THEN "wwan" ELSE m.iface,
         online |-> m.status \in {"is now up", "online"},
         at |-> at, msg |-> id,
         reachability |-> m.tag = "gl-repeater" /\ ~selection,
         observeOnly |-> selection,
         notify |-> notify]

(* Evidence older than the tracker's last evidence is dropped.             *)
Stale(e) == e.at < trackers[<<e.host, e.iface>>].lastEvidenceAt

-----------------------------------------------------------------------------
(* The outbox.                                                             *)

(* enqueueLocked and enqueueFallbackEscalationLocked: an ID that is in the *)
(* outbox already keeps its job.                                           *)
Enqueue(ids, at) ==
    [j \in DOMAIN jobs \cup ids |-> IF j \in DOMAIN jobs THEN jobs[j] ELSE at]

(* The primary incidents of a host whose outage covers the time at;        *)
(* primaryDownAtLocked returns one of them.                                *)
PrimariesDownAt(host, at) ==
    {p \in DOMAIN incidents :
        /\ p.host = host /\ p.iface = Primary
        /\ incidents[p].activatedAt # NoTime
        /\ incidents[p].activatedAt <= at
        /\ incidents[p].resolvedAt = NoTime \/ at < incidents[p].resolvedAt}

(* Mutant: escalates fallbacks that must not alert.                        *)
EscalatedBySilentToo(p) ==
    {f \in DOMAIN incidents :
        /\ f.host = p.host /\ f.iface # Primary
        /\ incidents[f].state \in {"active", "pending_recovery"}}

(* Mutant: a fallback that is recovering is not down.                      *)
EscalatedByActiveOnly(p) ==
    {f \in DOMAIN incidents :
        /\ f.host = p.host /\ f.iface # Primary
        /\ incidents[f].notify
        /\ incidents[f].state = "active"}

(* The fallback incidents escalateFallbacksLocked enqueues a job for.      *)
EscalatedBy(p) ==
    {f \in DOMAIN incidents :
        /\ f.host = p.host /\ f.iface # Primary
        /\ incidents[f].notify
        /\ incidents[f].state \in {"active", "pending_recovery"}}

-----------------------------------------------------------------------------
(* Due trackers.                                                           *)

Pending(k) == trackers[k].phase \in {"pending_failure", "pending_recovery"}

(* Mutant: the thresholds of the process, not those of the incident.       *)
DueAtByConfig(k) ==
    IF trackers[k].phase = "pending_failure"
    THEN trackers[k].pendingSince + cfg.down
    ELSE trackers[k].recoverySince + cfg.recovered

DueAt(k) ==
    LET i == trackers[k].incident
    IN  IF trackers[k].phase = "pending_failure"
        THEN trackers[k].pendingSince + incidents[i].downAfter
        ELSE trackers[k].recoverySince + incidents[i].recoveredAfter

Priority(k) ==
    IF trackers[k].phase = "pending_recovery" THEN 0
    ELSE IF k[2] = Primary THEN 1 ELSE 2

(* Mutant: due one unit of time early.                                     *)
DueEarly(k, now) == Pending(k) /\ DueAt(k) <= now + 1

Due(k, now) == Pending(k) /\ DueAt(k) <= now

NothingDue(now) == \A k \in Keys : ~Due(k, now)

(* k is a tracker nextDueTrackerLocked may return; the map is ranged over  *)
(* in any order, so a tie in time and priority goes to either.             *)
NextDue(k, now) ==
    /\ Due(k, now)
    /\ \A other \in Keys :
          Due(other, now) =>
             \/ DueAt(k) < DueAt(other)
             \/ DueAt(k) = DueAt(other) /\ Priority(k) <= Priority(other)

-----------------------------------------------------------------------------
(* What happens to a tracker t and to an incident x.                       *)

(* The selection of the fallback is noted, and says nothing of its health. *)
Selected(t, at) ==
    [t EXCEPT !.phase = IF t.phase = "" THEN "healthy" ELSE t.phase,
              !.lastEvidenceAt = at]

(* Evidence e is noted: its time and, for an offline report, whether it    *)
(* came from a reachability probe.                                         *)
Recorded(t, e) ==
    [t EXCEPT !.lastEvidenceAt = e.at,
              !.reachabilityDown = t.reachabilityDown \/ (~e.online /\ e.reachability)]

Moved(t, phase, recoverySince) ==
    [t EXCEPT !.phase = phase, !.recoverySince = recoverySince]

Alerting(r, notify) == [r EXCEPT !.notify = notify]

Activated(x, at, notify) ==
    [x EXCEPT !.state = "active", !.activatedAt = at, !.notify = notify]

Recovery(x, state, since) == [x EXCEPT !.state = state, !.recoveryFirstAt = since]

Resolved(x, at) == [x EXCEPT !.state = "resolved", !.resolvedAt = at]

-----------------------------------------------------------------------------
Init ==
    /\ cfg \in Configs
    /\ trackers = [k \in Keys |-> FreshTracker("", NoTime)]
    /\ incidents = [i \in {} |-> 0]
    /\ jobs = [j \in {} |-> 0]
    /\ cs = Idle
    /\ observed = {}
    /\ frontier = 0

(* A restart loads the snapshot under the thresholds of its environment.   *)
Restart(c) ==
    /\ cs = Idle
    /\ cfg # c
    /\ cfg' = c
    /\ UNCHANGED <<trackers, incidents, jobs, cs, observed, frontier>>

-----------------------------------------------------------------------------
(* observeLocked up to its call of advanceLocked.                          *)

(* Message IDs are random, so no two messages share one.                   *)
Receive(id, at) ==
    /\ cs = Idle
    /\ id \notin observed
    /\ InOrder => at >= frontier
    /\ observed' = observed \cup {id}

ObserveIgnored(m, at, id) ==
    /\ Receive(id, at)
    /\ Supported(m) => Stale(Classify(m, at, id, FALSE))
    /\ UNCHANGED <<cfg, trackers, incidents, jobs, cs, frontier>>

ObserveSelection(m, at, id) ==
    LET e == Classify(m, at, id, FALSE)
        k == <<e.host, e.iface>>
    IN  /\ Receive(id, at)
        /\ Supported(m) /\ ~Stale(e) /\ e.observeOnly
        /\ trackers' = [trackers EXCEPT ![k] = Selected(@, at)]
        /\ frontier' = Reach(at)
        /\ UNCHANGED <<cfg, incidents, jobs, cs>>

BeginObserve(m, at, id, notify) ==
    LET e == Classify(m, at, id, notify)
    IN  /\ Receive(id, at)
        /\ Supported(m) /\ ~Stale(e) /\ ~e.observeOnly
        /\ cs' = [op |-> "observe", now |-> at, ev |-> e]
        /\ frontier' = Reach(at)
        /\ UNCHANGED <<cfg, trackers, incidents, jobs>>

(* Tick; without a due tracker it changes nothing.                         *)
BeginTick(now) ==
    /\ cs = Idle
    /\ InOrder => now >= frontier
    /\ ~NothingDue(now)
    /\ cs' = [op |-> "tick", now |-> now, ev |-> NoEvidence]
    /\ frontier' = Reach(now)
    /\ UNCHANGED <<cfg, trackers, incidents, jobs, observed>>

-----------------------------------------------------------------------------
(* The turns of the loop of advanceLocked.                                 *)

ActivatePrimary(k) ==
    LET i == trackers[k].incident
    IN  /\ cs.op \in {"observe", "tick"}
        /\ NextDue(k, cs.now)
        /\ trackers[k].phase = "pending_failure"
        /\ k[2] = Primary
        /\ incidents' = [incidents EXCEPT ![i] = Activated(@, DueAt(k), trackers[k].notify)]
        /\ trackers' = [trackers EXCEPT ![k] = Moved(@, "active", @.recoverySince)]
        /\ jobs' = Enqueue((IF trackers[k].notify THEN {Job(i, "opened")} ELSE {})
                             \cup {Escalation(f, i) : f \in EscalatedBy(i)},
                           DueAt(k))
        /\ UNCHANGED <<cfg, cs, observed, frontier>>

(* The job a fallback failure opens with: an escalation if the primary is  *)
(* down at that time, a warning otherwise.                                 *)
FallbackOpening(i, at) ==
    LET down == PrimariesDownAt(i.host, at)
    IN  IF down = {} THEN {Job(i, "fallback_opened")}
        ELSE {Escalation(i, p) : p \in down}

ActivateFallback(k) ==
    LET i == trackers[k].incident
    IN  /\ cs.op \in {"observe", "tick"}
        /\ NextDue(k, cs.now)
        /\ trackers[k].phase = "pending_failure"
        /\ k[2] # Primary
        /\ incidents' = [incidents EXCEPT ![i] = Activated(@, DueAt(k), trackers[k].notify)]
        /\ trackers' = [trackers EXCEPT ![k] = Moved(@, "active", @.recoverySince)]
        /\ \/ /\ trackers[k].notify
              /\ \E j \in FallbackOpening(i, DueAt(k)) : jobs' = Enqueue({j}, DueAt(k))
           \/ /\ ~trackers[k].notify
              /\ jobs' = jobs
        /\ UNCHANGED <<cfg, cs, observed, frontier>>

ResolvedKind(iface) == IF iface = Primary THEN "resolved" ELSE "fallback_resolved"

(* Mutant: the tracker keeps its pending recovery.                         *)
ResolveTrackerKept(k) ==
    LET i == trackers[k].incident
    IN  /\ cs.op \in {"observe", "tick"}
        /\ NextDue(k, cs.now)
        /\ trackers[k].phase = "pending_recovery"
        /\ incidents' = [incidents EXCEPT ![i] = Resolved(@, DueAt(k))]
        /\ jobs' = Enqueue(IF incidents[i].notify THEN {Job(i, ResolvedKind(k[2]))} ELSE {},
                           DueAt(k))
        /\ UNCHANGED <<cfg, trackers, cs, observed, frontier>>

Resolve(k) ==
    LET i == trackers[k].incident
    IN  /\ cs.op \in {"observe", "tick"}
        /\ NextDue(k, cs.now)
        /\ trackers[k].phase = "pending_recovery"
        /\ incidents' = [incidents EXCEPT ![i] = Resolved(@, DueAt(k))]
        /\ trackers' = [trackers EXCEPT
              ![k] = FreshTracker("healthy", trackers[k].lastEvidenceAt)]
        /\ jobs' = Enqueue(IF incidents[i].notify THEN {Job(i, ResolvedKind(k[2]))} ELSE {},
                           DueAt(k))
        /\ UNCHANGED <<cfg, cs, observed, frontier>>

FinishTick ==
    /\ cs.op = "tick"
    /\ NothingDue(cs.now)
    /\ cs' = Idle
    /\ UNCHANGED <<cfg, trackers, incidents, jobs, observed, frontier>>

-----------------------------------------------------------------------------
(* observeLocked after its call of advanceLocked.                          *)

EvKey == <<cs.ev.host, cs.ev.iface>>

(* netifd reporting the primary interface up does not end an outage that   *)
(* gl-repeater found by probing.                                           *)
Overruled ==
    /\ cs.ev.online
    /\ cs.ev.iface = Primary
    /\ trackers[EvKey].reachabilityDown
    /\ ~cs.ev.reachability

Finish(online, phases) ==
    /\ cs.op = "observe"
    /\ NothingDue(cs.now)
    /\ ~Overruled
    /\ cs.ev.online = online
    /\ trackers[EvKey].phase \in phases
    /\ cs' = Idle
    /\ UNCHANGED <<cfg, observed, frontier>>

UpOverruled ==
    /\ cs.op = "observe"
    /\ NothingDue(cs.now)
    /\ Overruled
    /\ cs' = Idle
    /\ UNCHANGED <<cfg, trackers, incidents, jobs, observed, frontier>>

StartIncident ==
    LET e == cs.ev
        id == [host |-> e.host, iface |-> e.iface, at |-> e.at, msg |-> e.msg]
        new == [state |-> "pending_failure", startedAt |-> e.at,
                activatedAt |-> NoTime, recoveryFirstAt |-> NoTime,
                resolvedAt |-> NoTime, downAfter |-> cfg.down,
                recoveredAfter |-> cfg.recovered, notify |-> e.notify]
    IN  /\ Finish(FALSE, {"", "healthy"})
        /\ trackers' = [trackers EXCEPT ![EvKey] =
              [phase |-> "pending_failure", pendingSince |-> e.at,
               recoverySince |-> NoTime, lastEvidenceAt |-> e.at,
               incident |-> id, notify |-> e.notify,
               reachabilityDown |-> e.reachability]]
        /\ incidents' = [i \in DOMAIN incidents \cup {id} |->
                            IF i = id THEN new ELSE incidents[i]]
        /\ jobs' = jobs

(* Mutant: the alerting of an active incident is updated too.              *)
FailureConfirmedAnyPhase ==
    LET notify == trackers[EvKey].notify \/ cs.ev.notify
    IN  /\ Finish(FALSE, {"pending_failure", "active"})
        /\ trackers' = [trackers EXCEPT ![EvKey] = Alerting(Recorded(@, cs.ev), notify)]
        /\ incidents' = [incidents EXCEPT
              ![trackers[EvKey].incident] = Alerting(@, notify)]
        /\ jobs' = jobs

FailureConfirmed ==
    LET notify == trackers[EvKey].notify \/ cs.ev.notify
    IN  /\ Finish(FALSE, {"pending_failure"})
        /\ trackers' = [trackers EXCEPT ![EvKey] = Alerting(Recorded(@, cs.ev), notify)]
        /\ incidents' = [incidents EXCEPT
              ![trackers[EvKey].incident] = Alerting(@, notify)]
        /\ jobs' = jobs

(* Mutant: the incident is not told that its recovery is over.             *)
RecoveryInterruptedTrackerOnly ==
    /\ Finish(FALSE, {"pending_recovery"})
    /\ trackers' = [trackers EXCEPT
          ![EvKey] = Moved(Recorded(@, cs.ev), "active", NoTime)]
    /\ UNCHANGED <<incidents, jobs>>

RecoveryInterrupted ==
    /\ Finish(FALSE, {"pending_recovery"})
    /\ trackers' = [trackers EXCEPT
          ![EvKey] = Moved(Recorded(@, cs.ev), "active", NoTime)]
    /\ incidents' = [incidents EXCEPT
          ![trackers[EvKey].incident] = Recovery(@, "active", NoTime)]
    /\ jobs' = jobs

(* A report that confirms the phase the tracker is in.                     *)
PhaseConfirmed ==
    /\ \/ Finish(FALSE, {"active"})
       \/ Finish(TRUE, {"healthy", "pending_recovery"})
    /\ trackers' = [trackers EXCEPT ![EvKey] = Recorded(@, cs.ev)]
    /\ UNCHANGED <<incidents, jobs>>

FirstOnline ==
    /\ Finish(TRUE, {""})
    /\ trackers' = [trackers EXCEPT ![EvKey] = FreshTracker("healthy", cs.ev.at)]
    /\ UNCHANGED <<incidents, jobs>>

(* Mutant: the cancelled incident is kept, in the phase of its tracker.    *)
FailureCancelledKept ==
    /\ Finish(TRUE, {"pending_failure"})
    /\ incidents' = [incidents EXCEPT
          ![trackers[EvKey].incident] = Recovery(@, "healthy", NoTime)]
    /\ trackers' = [trackers EXCEPT ![EvKey] = FreshTracker("healthy", cs.ev.at)]
    /\ jobs' = jobs

FailureCancelled ==
    /\ Finish(TRUE, {"pending_failure"})
    /\ incidents' = [i \in DOMAIN incidents \ {trackers[EvKey].incident} |-> incidents[i]]
    /\ trackers' = [trackers EXCEPT ![EvKey] = FreshTracker("healthy", cs.ev.at)]
    /\ jobs' = jobs

RecoveryBegins ==
    /\ Finish(TRUE, {"active"})
    /\ trackers' = [trackers EXCEPT
          ![EvKey] = Moved(Recorded(@, cs.ev), "pending_recovery", cs.ev.at)]
    /\ incidents' = [incidents EXCEPT
          ![trackers[EvKey].incident] = Recovery(@, "pending_recovery", cs.ev.at)]
    /\ jobs' = jobs

-----------------------------------------------------------------------------
(* Steps of the operation that holds the mutex.                            *)
Locked ==
    \/ \E k \in Keys : ActivatePrimary(k) \/ ActivateFallback(k) \/ Resolve(k)
    \/ FinishTick
    \/ UpOverruled
    \/ StartIncident
    \/ FailureConfirmed
    \/ RecoveryInterrupted
    \/ PhaseConfirmed
    \/ FirstOnline
    \/ FailureCancelled
    \/ RecoveryBegins

(* The least message ID not used yet; which one is used makes no           *)
(* difference.                                                             *)
NextMsg == {id \in MsgIDs : id \notin observed /\ \A other \in MsgIDs \ observed : id <= other}

Next ==
    \/ \E c \in Configs : Restart(c)
    \/ \E id \in NextMsg, m \in Inputs, at \in 0 .. MaxTime :
          \/ ObserveIgnored(m, at, id)
          \/ ObserveSelection(m, at, id)
          \/ \E notify \in BOOLEAN : BeginObserve(m, at, id, notify)
    \/ \E now \in 0 .. MaxTime : BeginTick(now)
    \/ Locked

Spec == Init /\ [][Next]_vars

(* A goroutine that holds the mutex is scheduled again.                    *)
FairSpec == Spec /\ WF_vars(Locked)

-----------------------------------------------------------------------------
(* The type of the state.                                                  *)
TypeOK ==
    /\ cfg \in Configs
    /\ trackers \in [Keys -> Tracker]
    /\ DOMAIN incidents \subseteq IncidentIDs
    /\ \A i \in DOMAIN incidents : incidents[i] \in Incident
    /\ DOMAIN jobs \subseteq JobIDs
    /\ \A j \in DOMAIN jobs : jobs[j] \in Nat
    /\ cs \in [op : {"observe", "tick"}, now : Nat, ev : Evidence \cup {NoEvidence}]
                \cup {Idle}
    /\ cs.op = "observe" => cs.ev \in Evidence /\ cs.now = cs.ev.at
    /\ observed \subseteq Nat
    /\ frontier \in Nat

Clean(t) ==
    /\ t.pendingSince = NoTime /\ t.recoverySince = NoTime
    /\ t.incident = NoIncident
    /\ t.notify = FALSE /\ t.reachabilityDown = FALSE

(* A tracker in an open phase and its incident tell the same story: the    *)
(* incident exists, belongs to the tracker's host and interface and agrees *)
(* with it on the state, the start, the recovery and the alerting; any     *)
(* other tracker is clean.  engine.go keeps the two in separate maps and   *)
(* updates them in eight places.                                           *)
TrackerAgrees(k) ==
    LET t == trackers[k]
        i == t.incident
    IN  IF t.phase \in OpenPhases
        THEN /\ i \in DOMAIN incidents
             /\ i.host = k[1] /\ i.iface = k[2]
             /\ incidents[i].state = t.phase
             /\ incidents[i].startedAt = t.pendingSince
             /\ incidents[i].recoveryFirstAt = t.recoverySince
             /\ incidents[i].notify = t.notify
        ELSE Clean(t)

(* Trackers and incidents agree, and every incident that is not resolved   *)
(* is the one its tracker follows: nothing the engine opened is left       *)
(* without a tracker that can close it, whatever the order of evidence,    *)
(* ticks and restarts.                                                     *)
TrackersAgree ==
    /\ \A k \in Keys : TrackerAgrees(k)
    /\ \A i \in DOMAIN incidents :
          incidents[i].state # "resolved" => trackers[<<i.host, i.iface>>].incident = i

(* The times of an incident are exactly its own thresholds apart: it       *)
(* activates downAfter past its first offline report and resolves          *)
(* recoveredAfter past the first online report of its recovery, with the   *)
(* thresholds it started under although a restart may have changed them.   *)
TimelineWellFormed ==
    \A i \in DOMAIN incidents :
        LET x == incidents[i]
        IN  /\ x.startedAt = i.at
            /\ x.activatedAt = IF x.state = "pending_failure" THEN NoTime
                               ELSE x.startedAt + x.downAfter
            /\ (x.recoveryFirstAt # NoTime) <=> x.state \in {"pending_recovery", "resolved"}
            /\ x.resolvedAt = IF x.state = "resolved"
                              THEN x.recoveryFirstAt + x.recoveredAfter ELSE NoTime

(* The jobs an incident that alerts must have in the outbox: one that      *)
(* announces it once it is active, one that ends it once it is resolved.   *)
Announced(i) ==
    /\ incidents[i].activatedAt # NoTime =>
          IF i.iface = Primary THEN Job(i, "opened") \in DOMAIN jobs
          ELSE \/ Job(i, "fallback_opened") \in DOMAIN jobs
               \/ \E p \in DOMAIN incidents : Escalation(i, p) \in DOMAIN jobs
    /\ incidents[i].state = "resolved" => Job(i, ResolvedKind(i.iface)) \in DOMAIN jobs

(* What a job may be about: an alerting incident that was announced, of    *)
(* the kind that fits its interface, resolved if the job says so, and, for *)
(* an escalation, an active primary incident of the same host.             *)
Justified(j) ==
    LET i == j.incident
    IN  /\ i \in DOMAIN incidents
        /\ incidents[i].notify
        /\ incidents[i].activatedAt # NoTime
        /\ j.kind \in {"opened", "resolved"} <=> i.iface = Primary
        /\ j.kind \in {"resolved", "fallback_resolved"} => incidents[i].state = "resolved"
        /\ j.kind = "fallback_escalated" <=> j.primary # NoIncident
        /\ j.primary # NoIncident =>
              /\ j.primary \in DOMAIN incidents
              /\ j.primary.host = i.host /\ j.primary.iface = Primary
              /\ incidents[j.primary].activatedAt # NoTime

(* The outbox and the incidents agree: no alerting incident is activated   *)
(* or resolved in silence, and no job is about an incident that was        *)
(* cancelled, is still pending or must not alert.                          *)
AlertCoherence ==
    /\ \A i \in DOMAIN incidents : incidents[i].notify => Announced(i)
    /\ \A j \in DOMAIN jobs : Justified(j)

(* What every step keeps of the past: an activated incident with its       *)
(* activation and its alerting, a resolved one as it is, a job with its    *)
(* time.                                                                   *)
HistoryStep ==
    /\ \A i \in DOMAIN incidents :
          incidents[i].activatedAt # NoTime =>
             /\ i \in DOMAIN incidents'
             /\ incidents'[i].activatedAt = incidents[i].activatedAt
             /\ incidents'[i].notify = incidents[i].notify
             /\ incidents[i].state = "resolved" => incidents'[i] = incidents[i]
    /\ \A j \in DOMAIN jobs : j \in DOMAIN jobs' /\ jobs'[j] = jobs[j]

(* History is never rewritten: no late evidence, tick or restart drops an  *)
(* activated incident, reopens a resolved one, or drops or re-dates a job. *)
HistoryKept == [][HistoryStep]_vars

(* The loop of advanceLocked ends, whatever is due: an operation that      *)
(* takes the mutex releases it.                                            *)
MutexReleased == (cs # Idle) ~> (cs = Idle)

(* Message IDs are used once: the incidents come from messages that were   *)
(* observed, and the message being observed has started none yet.  This is *)
(* what keeps a new incident from overwriting an old one.                  *)
EvidenceFresh ==
    /\ \A i \in DOMAIN incidents : i.msg \in observed
    /\ cs.op = "observe" =>
          cs.ev.msg \in observed /\ \A i \in DOMAIN incidents : i.msg # cs.ev.msg

(* The outage of an incident, from its activation to its resolution.       *)
Covers(i, at) ==
    /\ incidents[i].activatedAt # NoTime
    /\ incidents[i].activatedAt <= at
    /\ incidents[i].resolvedAt = NoTime \/ at < incidents[i].resolvedAt

(* When evidence and ticks arrive in order, the fallback alerts are those  *)
(* the outages call for, although they are decided one activation at a     *)
(* time: an alerting fallback outage has an escalation for exactly the     *)
(* primary outages of its host that overlap it, created when the second of *)
(* the two began, and the milder warning exactly if the primary was not    *)
(* down when it began.                                                     *)
EscalationExact ==
    \A f \in DOMAIN incidents :
        (f.iface # Primary /\ incidents[f].notify /\ incidents[f].activatedAt # NoTime) =>
            /\ \A p \in DOMAIN incidents :
                  (p.iface = Primary /\ p.host = f.host /\ incidents[p].activatedAt # NoTime) =>
                     LET both == LaterOf(incidents[f].activatedAt, incidents[p].activatedAt)
                         e == Escalation(f, p)
                     IN  /\ e \in DOMAIN jobs <=> Covers(f, both) /\ Covers(p, both)
                         /\ e \in DOMAIN jobs => jobs[e] = both
            /\ Job(f, "fallback_opened") \in DOMAIN jobs <=>
                  \A p \in DOMAIN incidents :
                     (p.iface = Primary /\ p.host = f.host) => ~Covers(p, incidents[f].activatedAt)

(* When evidence and ticks arrive in order, an incident activates only if  *)
(* no recovery was reported within its debounce period.                    *)
OutageContinuous ==
    \A i \in DOMAIN incidents :
        incidents[i].recoveryFirstAt # NoTime =>
            incidents[i].activatedAt <= incidents[i].recoveryFirstAt
=============================================================================
