------------------------ MODULE IncidentEngineProofs ------------------------
(***************************************************************************)
(* Proofs about IncidentEngine, for all hosts, thresholds, messages and    *)
(* orders of arrival.                                                      *)
(***************************************************************************)
EXTENDS IncidentEngine, TLAPS

(* The inductive invariant behind the first three theorems.  DueAt is a    *)
(* time only because trackers and incidents agree, so the parts are not    *)
(* inductive one by one.                                                   *)
StateInv == TypeOK /\ TrackersAgree /\ TimelineWellFormed /\ EvidenceFresh

-----------------------------------------------------------------------------
(* Records, field by field.                                                *)

(* A tracker is the record of its fields.                                  *)
LEMMA TrackerRecord ==
    ASSUME NEW t \in Tracker
    PROVE  t = [phase |-> t.phase, pendingSince |-> t.pendingSince,
                recoverySince |-> t.recoverySince,
                lastEvidenceAt |-> t.lastEvidenceAt, incident |-> t.incident,
                notify |-> t.notify, reachabilityDown |-> t.reachabilityDown]
  BY DEF Tracker

(* An incident is the record of its fields.                                *)
LEMMA IncidentRecord ==
    ASSUME NEW x \in Incident
    PROVE  x = [state |-> x.state, startedAt |-> x.startedAt,
                activatedAt |-> x.activatedAt,
                recoveryFirstAt |-> x.recoveryFirstAt, resolvedAt |-> x.resolvedAt,
                downAfter |-> x.downAfter, recoveredAfter |-> x.recoveredAfter,
                notify |-> x.notify]
  BY DEF Incident

(* What Moved changes of a tracker, and what not.                          *)
LEMMA MovedRecord ==
    ASSUME NEW t \in Tracker, NEW p \in Phases, NEW since \in OptTime
    PROVE  /\ Moved(t, p, since) \in Tracker
           /\ Moved(t, p, since).phase = p
           /\ Moved(t, p, since).pendingSince = t.pendingSince
           /\ Moved(t, p, since).recoverySince = since
           /\ Moved(t, p, since).lastEvidenceAt = t.lastEvidenceAt
           /\ Moved(t, p, since).incident = t.incident
           /\ Moved(t, p, since).notify = t.notify
           /\ Moved(t, p, since).reachabilityDown = t.reachabilityDown
<1>1. Moved(t, p, since) \in Tracker
  BY DEF Moved, Tracker
<1>2. Moved(t, p, since).phase = p /\ Moved(t, p, since).recoverySince = since
  BY DEF Moved, Tracker
<1>3. Moved(t, p, since).pendingSince = t.pendingSince
  BY DEF Moved, Tracker
<1>4. Moved(t, p, since).lastEvidenceAt = t.lastEvidenceAt
  BY DEF Moved, Tracker
<1>5. Moved(t, p, since).incident = t.incident
  BY DEF Moved, Tracker
<1>6. Moved(t, p, since).notify = t.notify
  BY DEF Moved, Tracker
<1>7. Moved(t, p, since).reachabilityDown = t.reachabilityDown
  BY DEF Moved, Tracker
<1>. QED
  BY <1>1, <1>2, <1>3, <1>4, <1>5, <1>6, <1>7

(* What Recorded changes of a tracker, and what not.                       *)
LEMMA RecordedRecord ==
    ASSUME NEW t \in Tracker, NEW e \in Evidence
    PROVE  /\ Recorded(t, e) \in Tracker
           /\ Recorded(t, e).phase = t.phase
           /\ Recorded(t, e).pendingSince = t.pendingSince
           /\ Recorded(t, e).recoverySince = t.recoverySince
           /\ Recorded(t, e).lastEvidenceAt = e.at
           /\ Recorded(t, e).incident = t.incident
           /\ Recorded(t, e).notify = t.notify
<1>. DEFINE b == t.reachabilityDown \/ (~e.online /\ e.reachability)
            New(v) == [t EXCEPT !.lastEvidenceAt = e.at, !.reachabilityDown = v]
<1>1. b \in BOOLEAN /\ Recorded(t, e) = New(b)
  BY Zenon DEF Recorded
<1>2. e.at \in Nat
  BY DEF Evidence
<1>3. ASSUME NEW v \in BOOLEAN
      PROVE  /\ New(v) \in Tracker
             /\ New(v).phase = t.phase
             /\ New(v).pendingSince = t.pendingSince
             /\ New(v).recoverySince = t.recoverySince
             /\ New(v).lastEvidenceAt = e.at
             /\ New(v).incident = t.incident
             /\ New(v).notify = t.notify
  BY <1>2 DEF Tracker, OptTime
<1>. HIDE DEF b, New
<1>. QED
  BY <1>1, <1>3

(* An online report leaves the reachability of the outage as it was.       *)
LEMMA RecordedOnline ==
    ASSUME NEW t \in Tracker, NEW e \in Evidence, e.online
    PROVE  Recorded(t, e).reachabilityDown = t.reachabilityDown
<1>. DEFINE b == t.reachabilityDown \/ (~e.online /\ e.reachability)
            New(v) == [t EXCEPT !.lastEvidenceAt = e.at, !.reachabilityDown = v]
<1>1. t.reachabilityDown \in BOOLEAN
  BY DEF Tracker
<1>2. b = t.reachabilityDown
  BY <1>1
<1>3. Recorded(t, e) = New(b)
  BY Zenon DEF Recorded
<1>4. ASSUME NEW v \in BOOLEAN
      PROVE  New(v).reachabilityDown = v
  BY DEF Tracker
<1>. HIDE DEF b, New
<1>. QED
  BY <1>1, <1>2, <1>3, <1>4

(* What Selected changes of a tracker, and what not.                       *)
LEMMA SelectedRecord ==
    ASSUME NEW t \in Tracker, NEW at \in Nat
    PROVE  /\ Selected(t, at) \in Tracker
           /\ Selected(t, at).phase = IF t.phase = "" THEN "healthy" ELSE t.phase
           /\ Selected(t, at).lastEvidenceAt = at
           /\ Selected(t, at).pendingSince = t.pendingSince
           /\ Selected(t, at).recoverySince = t.recoverySince
           /\ Selected(t, at).incident = t.incident
           /\ Selected(t, at).notify = t.notify
           /\ Selected(t, at).reachabilityDown = t.reachabilityDown
<1>. DEFINE p == IF t.phase = "" THEN "healthy" ELSE t.phase
            New(v) == [t EXCEPT !.phase = v, !.lastEvidenceAt = at]
<1>1. p \in Phases
  BY DEF Tracker, Phases
<1>2. Selected(t, at) = New(p)
  BY Zenon DEF Selected
<1>3. ASSUME NEW v \in Phases
      PROVE  /\ New(v) \in Tracker
             /\ New(v).phase = v
             /\ New(v).lastEvidenceAt = at
             /\ New(v).pendingSince = t.pendingSince
             /\ New(v).recoverySince = t.recoverySince
             /\ New(v).incident = t.incident
             /\ New(v).notify = t.notify
             /\ New(v).reachabilityDown = t.reachabilityDown
  BY DEF Tracker, OptTime
<1>4. p = IF t.phase = "" THEN "healthy" ELSE t.phase
  OBVIOUS
<1>5. /\ New(p) \in Tracker
      /\ New(p).phase = p
      /\ New(p).lastEvidenceAt = at
      /\ New(p).pendingSince = t.pendingSince
      /\ New(p).recoverySince = t.recoverySince
      /\ New(p).incident = t.incident
      /\ New(p).notify = t.notify
      /\ New(p).reachabilityDown = t.reachabilityDown
  <2>. HIDE DEF New, p
  <2>. QED
    BY <1>1, <1>3
<1>. HIDE DEF New, p
<1>. QED
  BY <1>2, <1>4, <1>5

(* What Alerting changes of a tracker, and what not.                       *)
LEMMA AlertingTracker ==
    ASSUME NEW t \in Tracker, NEW b \in BOOLEAN
    PROVE  /\ Alerting(t, b) \in Tracker
           /\ Alerting(t, b).phase = t.phase
           /\ Alerting(t, b).pendingSince = t.pendingSince
           /\ Alerting(t, b).recoverySince = t.recoverySince
           /\ Alerting(t, b).lastEvidenceAt = t.lastEvidenceAt
           /\ Alerting(t, b).incident = t.incident
           /\ Alerting(t, b).notify = b
           /\ Alerting(t, b).reachabilityDown = t.reachabilityDown
<1>1. Alerting(t, b) \in Tracker
  BY DEF Alerting, Tracker
<1>2. Alerting(t, b).notify = b
  BY DEF Alerting, Tracker
<1>3. Alerting(t, b).phase = t.phase
  BY DEF Alerting, Tracker
<1>4. Alerting(t, b).pendingSince = t.pendingSince
  BY DEF Alerting, Tracker
<1>5. Alerting(t, b).recoverySince = t.recoverySince
  BY DEF Alerting, Tracker
<1>6. Alerting(t, b).lastEvidenceAt = t.lastEvidenceAt
  BY DEF Alerting, Tracker
<1>7. Alerting(t, b).incident = t.incident
  BY DEF Alerting, Tracker
<1>8. Alerting(t, b).reachabilityDown = t.reachabilityDown
  BY DEF Alerting, Tracker
<1>. QED
  BY <1>1, <1>2, <1>3, <1>4, <1>5, <1>6, <1>7, <1>8

(* What Alerting changes of an incident, and what not.                     *)
LEMMA AlertingIncident ==
    ASSUME NEW x \in Incident, NEW b \in BOOLEAN
    PROVE  /\ Alerting(x, b) \in Incident
           /\ Alerting(x, b).state = x.state
           /\ Alerting(x, b).startedAt = x.startedAt
           /\ Alerting(x, b).activatedAt = x.activatedAt
           /\ Alerting(x, b).recoveryFirstAt = x.recoveryFirstAt
           /\ Alerting(x, b).resolvedAt = x.resolvedAt
           /\ Alerting(x, b).downAfter = x.downAfter
           /\ Alerting(x, b).recoveredAfter = x.recoveredAfter
           /\ Alerting(x, b).notify = b
<1>1. Alerting(x, b) \in Incident
  BY DEF Alerting, Incident
<1>2. Alerting(x, b).notify = b
  BY DEF Alerting, Incident
<1>3. Alerting(x, b).state = x.state
  BY DEF Alerting, Incident
<1>4. Alerting(x, b).startedAt = x.startedAt
  BY DEF Alerting, Incident
<1>5. Alerting(x, b).activatedAt = x.activatedAt
  BY DEF Alerting, Incident
<1>6. Alerting(x, b).recoveryFirstAt = x.recoveryFirstAt
  BY DEF Alerting, Incident
<1>7. Alerting(x, b).resolvedAt = x.resolvedAt
  BY DEF Alerting, Incident
<1>8. Alerting(x, b).downAfter = x.downAfter
  BY DEF Alerting, Incident
<1>9. Alerting(x, b).recoveredAfter = x.recoveredAfter
  BY DEF Alerting, Incident
<1>. QED
  BY <1>1, <1>2, <1>3, <1>4, <1>5, <1>6, <1>7, <1>8, <1>9

(* What Activated changes of an incident, and what not.                    *)
LEMMA ActivatedRecord ==
    ASSUME NEW x \in Incident, NEW at \in Nat, NEW b \in BOOLEAN
    PROVE  /\ Activated(x, at, b) \in Incident
           /\ Activated(x, at, b).state = "active"
           /\ Activated(x, at, b).startedAt = x.startedAt
           /\ Activated(x, at, b).activatedAt = at
           /\ Activated(x, at, b).recoveryFirstAt = x.recoveryFirstAt
           /\ Activated(x, at, b).resolvedAt = x.resolvedAt
           /\ Activated(x, at, b).downAfter = x.downAfter
           /\ Activated(x, at, b).recoveredAfter = x.recoveredAfter
           /\ Activated(x, at, b).notify = b
<1>1. Activated(x, at, b) \in Incident
  BY DEF Activated, Incident, OptTime, States
<1>2. Activated(x, at, b).state = "active" /\ Activated(x, at, b).activatedAt = at /\ Activated(x, at, b).notify = b
  BY DEF Activated, Incident
<1>3. Activated(x, at, b).startedAt = x.startedAt
  BY DEF Activated, Incident
<1>4. Activated(x, at, b).recoveryFirstAt = x.recoveryFirstAt
  BY DEF Activated, Incident
<1>5. Activated(x, at, b).resolvedAt = x.resolvedAt
  BY DEF Activated, Incident
<1>6. Activated(x, at, b).downAfter = x.downAfter
  BY DEF Activated, Incident
<1>7. Activated(x, at, b).recoveredAfter = x.recoveredAfter
  BY DEF Activated, Incident
<1>. QED
  BY <1>1, <1>2, <1>3, <1>4, <1>5, <1>6, <1>7

(* What Recovery changes of an incident, and what not.                     *)
LEMMA RecoveryRecord ==
    ASSUME NEW x \in Incident, NEW s \in States, NEW since \in OptTime
    PROVE  /\ Recovery(x, s, since) \in Incident
           /\ Recovery(x, s, since).state = s
           /\ Recovery(x, s, since).startedAt = x.startedAt
           /\ Recovery(x, s, since).activatedAt = x.activatedAt
           /\ Recovery(x, s, since).recoveryFirstAt = since
           /\ Recovery(x, s, since).resolvedAt = x.resolvedAt
           /\ Recovery(x, s, since).downAfter = x.downAfter
           /\ Recovery(x, s, since).recoveredAfter = x.recoveredAfter
           /\ Recovery(x, s, since).notify = x.notify
<1>1. Recovery(x, s, since) \in Incident
  BY DEF Recovery, Incident
<1>2. Recovery(x, s, since).state = s /\ Recovery(x, s, since).recoveryFirstAt = since
  BY DEF Recovery, Incident
<1>3. Recovery(x, s, since).startedAt = x.startedAt
  BY DEF Recovery, Incident
<1>4. Recovery(x, s, since).activatedAt = x.activatedAt
  BY DEF Recovery, Incident
<1>5. Recovery(x, s, since).resolvedAt = x.resolvedAt
  BY DEF Recovery, Incident
<1>6. Recovery(x, s, since).downAfter = x.downAfter
  BY DEF Recovery, Incident
<1>7. Recovery(x, s, since).recoveredAfter = x.recoveredAfter
  BY DEF Recovery, Incident
<1>8. Recovery(x, s, since).notify = x.notify
  BY DEF Recovery, Incident
<1>. QED
  BY <1>1, <1>2, <1>3, <1>4, <1>5, <1>6, <1>7, <1>8

(* What Resolved changes of an incident, and what not.                     *)
LEMMA ResolvedRecord ==
    ASSUME NEW x \in Incident, NEW at \in Nat
    PROVE  /\ Resolved(x, at) \in Incident
           /\ Resolved(x, at).state = "resolved"
           /\ Resolved(x, at).startedAt = x.startedAt
           /\ Resolved(x, at).activatedAt = x.activatedAt
           /\ Resolved(x, at).recoveryFirstAt = x.recoveryFirstAt
           /\ Resolved(x, at).resolvedAt = at
           /\ Resolved(x, at).downAfter = x.downAfter
           /\ Resolved(x, at).recoveredAfter = x.recoveredAfter
           /\ Resolved(x, at).notify = x.notify
<1>1. Resolved(x, at) \in Incident
  BY DEF Resolved, Incident, OptTime, States
<1>2. Resolved(x, at).state = "resolved" /\ Resolved(x, at).resolvedAt = at
  BY DEF Resolved, Incident
<1>3. Resolved(x, at).startedAt = x.startedAt
  BY DEF Resolved, Incident
<1>4. Resolved(x, at).activatedAt = x.activatedAt
  BY DEF Resolved, Incident
<1>5. Resolved(x, at).recoveryFirstAt = x.recoveryFirstAt
  BY DEF Resolved, Incident
<1>6. Resolved(x, at).downAfter = x.downAfter
  BY DEF Resolved, Incident
<1>7. Resolved(x, at).recoveredAfter = x.recoveredAfter
  BY DEF Resolved, Incident
<1>8. Resolved(x, at).notify = x.notify
  BY DEF Resolved, Incident
<1>. QED
  BY <1>1, <1>2, <1>3, <1>4, <1>5, <1>6, <1>7, <1>8

-----------------------------------------------------------------------------
(* A pending tracker has an incident, and is due at a time.                *)
LEMMA PendingIsDue ==
    ASSUME StateInv, NEW k \in Keys, Pending(k)
    PROVE  /\ trackers[k] \in Tracker
           /\ trackers[k].incident \in DOMAIN incidents
           /\ incidents[trackers[k].incident] \in Incident
           /\ DueAt(k) \in Nat
           /\ trackers[k].phase = "pending_failure" =>
                 DueAt(k) = incidents[trackers[k].incident].startedAt
                              + incidents[trackers[k].incident].downAfter
           /\ trackers[k].phase = "pending_recovery" =>
                 DueAt(k) = incidents[trackers[k].incident].recoveryFirstAt
                              + incidents[trackers[k].incident].recoveredAfter
<1>1. trackers[k] \in Tracker
  BY DEF StateInv, TypeOK
<1>2. TrackerAgrees(k) /\ trackers[k].phase \in OpenPhases
  BY DEF StateInv, TrackersAgree, Pending, OpenPhases
<1>3. /\ trackers[k].incident \in DOMAIN incidents
      /\ incidents[trackers[k].incident] \in Incident
      /\ incidents[trackers[k].incident].startedAt = trackers[k].pendingSince
      /\ incidents[trackers[k].incident].recoveryFirstAt = trackers[k].recoverySince
      /\ incidents[trackers[k].incident].state = trackers[k].phase
  BY <1>2 DEF StateInv, TypeOK, TrackerAgrees
<1>4. trackers[k].phase = "pending_recovery" =>
         incidents[trackers[k].incident].recoveryFirstAt # NoTime
  BY <1>3 DEF StateInv, TimelineWellFormed
<1>. QED
  BY <1>1, <1>3, <1>4 DEF Pending, DueAt, Incident, OptTime, NoTime

(* The invariant holds in the empty state.                                 *)
LEMMA InitState == Init => StateInv
<1>. SUFFICES ASSUME Init PROVE StateInv
  OBVIOUS
<1>1. TypeOK
  <2>1. FreshTracker("", NoTime) \in Tracker
    BY DEF FreshTracker, Tracker, Phases, OptTime, NoTime
  <2>. QED
    BY <2>1 DEF Init, TypeOK, Idle, NoEvidence
<1>2. TrackersAgree
  <2>1. \A k \in Keys : TrackerAgrees(k)
    BY DEF Init, TrackerAgrees, FreshTracker, Clean, OpenPhases
  <2>. QED
    BY <2>1 DEF Init, TrackersAgree
<1>3. TimelineWellFormed /\ EvidenceFresh
  BY DEF Init, TimelineWellFormed, EvidenceFresh, Idle
<1>. QED
  BY <1>1, <1>2, <1>3 DEF StateInv

-----------------------------------------------------------------------------
(* How the agreement of trackers and incidents survives an update.         *)

(* A key is its host and its interface.                                    *)
LEMMA KeyParts ==
    ASSUME NEW k \in Keys
    PROVE  k = <<k[1], k[2]>> /\ k[1] \in Hosts /\ k[2] \in Ifaces
  BY DEF Keys

(* The key of an incident is a key.                                        *)
LEMMA IncidentKey ==
    ASSUME NEW i \in IncidentIDs
    PROVE  <<i.host, i.iface>> \in Keys
  BY DEF IncidentIDs, Keys

(* No incident has the ID that stands for none.                            *)
LEMMA NoIncidentIsNone == NoIncident \notin IncidentIDs
<1>1. NoIncident.at = -1
  BY DEF NoIncident, NoTime
<1>2. \A i \in IncidentIDs : i.at \in Nat
  BY DEF IncidentIDs
<1>. QED
  BY <1>1, <1>2

(* A tracker and its incident move to another open phase together.         *)
LEMMA OpenUpdate ==
    ASSUME StateInv, NEW k \in Keys, trackers[k].phase \in OpenPhases,
           NEW t \in Tracker, NEW x \in Incident,
           trackers' = [trackers EXCEPT ![k] = t],
           incidents' = [incidents EXCEPT ![trackers[k].incident] = x],
           t.incident = trackers[k].incident, t.phase \in OpenPhases,
           x.state = t.phase, x.startedAt = t.pendingSince,
           x.recoveryFirstAt = t.recoverySince, x.notify = t.notify
    PROVE  TrackersAgree'
<1>. DEFINE i == trackers[k].incident
<1>1. /\ i \in DOMAIN incidents /\ i.host = k[1] /\ i.iface = k[2]
      /\ trackers \in [Keys -> Tracker] /\ DOMAIN incidents \subseteq IncidentIDs
  BY DEF StateInv, TypeOK, TrackersAgree, TrackerAgrees
<1>2. ASSUME NEW other \in Keys
      PROVE  TrackerAgrees(other)'
  <2>1. CASE other = k
    <3>1. trackers'[other] = t /\ incidents'[i] = x /\ i \in DOMAIN incidents'
      BY <1>1, <2>1
    <3>. QED
      BY <1>1, <2>1, <3>1 DEF TrackerAgrees
  <2>2. CASE other # k
    <3>1. trackers'[other] = trackers[other] /\ TrackerAgrees(other)
      BY <1>1, <2>2 DEF StateInv, TrackersAgree
    <3>2. trackers[other].phase \in OpenPhases => trackers[other].incident # i
      BY <1>1, <2>2, <3>1, KeyParts DEF TrackerAgrees
    <3>. QED
      BY <1>1, <3>1, <3>2 DEF TrackerAgrees
  <2>. QED
    BY <2>1, <2>2
<1>3. ASSUME NEW j \in DOMAIN incidents', incidents'[j].state # "resolved"
      PROVE  trackers'[<<j.host, j.iface>>].incident = j
  <2>1. CASE j = i
    BY <1>1, <2>1, KeyParts
  <2>2. CASE j # i
    <3>1. j \in DOMAIN incidents /\ incidents'[j] = incidents[j]
      BY <1>1, <2>2
    <3>2. trackers[<<j.host, j.iface>>].incident = j /\ <<j.host, j.iface>> \in Keys
      BY <1>1, <1>3, <3>1, IncidentKey DEF StateInv, TrackersAgree
    <3>. QED
      BY <1>1, <2>2, <3>2
  <2>. QED
    BY <2>1, <2>2
<1>. QED
  BY <1>2, <1>3 DEF TrackersAgree

(* A tracker records evidence, its incident does not change.               *)
LEMMA QuietUpdate ==
    ASSUME StateInv, NEW k \in Keys, NEW t \in Tracker,
           trackers' = [trackers EXCEPT ![k] = t],
           incidents' = incidents,
           t.incident = trackers[k].incident,
           trackers[k].phase \in OpenPhases =>
               /\ t.phase = trackers[k].phase
               /\ t.pendingSince = trackers[k].pendingSince
               /\ t.recoverySince = trackers[k].recoverySince
               /\ t.notify = trackers[k].notify,
           trackers[k].phase \notin OpenPhases =>
               t.phase \notin OpenPhases /\ Clean(t)
    PROVE  TrackersAgree'
<1>1. trackers \in [Keys -> Tracker] /\ DOMAIN incidents \subseteq IncidentIDs
  BY DEF StateInv, TypeOK
<1>2. ASSUME NEW other \in Keys
      PROVE  TrackerAgrees(other)'
  <2>1. TrackerAgrees(other) /\ (other # k => trackers'[other] = trackers[other])
        /\ (other = k => trackers'[other] = t)
    BY <1>1 DEF StateInv, TrackersAgree
  <2>. QED
    BY <2>1 DEF TrackerAgrees
<1>3. \A key \in Keys : trackers'[key].incident = trackers[key].incident
  BY <1>1
<1>. QED
  BY <1>1, <1>2, <1>3, IncidentKey DEF StateInv, TrackersAgree

(* A tracker closes: its incident, if any, is resolved or deleted.         *)
LEMMA CloseUpdate ==
    ASSUME StateInv, NEW k \in Keys, NEW at \in OptTime,
           trackers' = [trackers EXCEPT ![k] = FreshTracker("healthy", at)],
           DOMAIN incidents' \subseteq DOMAIN incidents,
           \A j \in DOMAIN incidents : j # trackers[k].incident =>
               j \in DOMAIN incidents' /\ incidents'[j] = incidents[j],
           \A j \in DOMAIN incidents' : j = trackers[k].incident =>
               incidents'[j].state = "resolved"
    PROVE  TrackersAgree'
<1>1. trackers \in [Keys -> Tracker] /\ DOMAIN incidents \subseteq IncidentIDs
  BY DEF StateInv, TypeOK
<1>2. ASSUME NEW other \in Keys
      PROVE  TrackerAgrees(other)'
  <2>1. CASE other = k
    BY <1>1, <2>1 DEF TrackerAgrees, FreshTracker, Clean, OpenPhases
  <2>2. CASE other # k
    <3>1. trackers'[other] = trackers[other] /\ TrackerAgrees(other) /\ TrackerAgrees(k)
      BY <1>1, <2>2 DEF StateInv, TrackersAgree
    <3>2. trackers[other].phase \in OpenPhases =>
             /\ trackers[other].incident \in DOMAIN incidents
             /\ trackers[other].incident # trackers[k].incident
      <4>1. NoIncident \notin DOMAIN incidents
        BY <1>1, NoIncidentIsNone
      <4>. QED
        BY <1>1, <2>2, <3>1, <4>1, KeyParts DEF TrackerAgrees, Clean
    <3>. QED
      BY <1>1, <3>1, <3>2 DEF TrackerAgrees
  <2>. QED
    BY <2>1, <2>2
<1>3. ASSUME NEW j \in DOMAIN incidents', incidents'[j].state # "resolved"
      PROVE  trackers'[<<j.host, j.iface>>].incident = j
  <2>1. j # trackers[k].incident /\ j \in DOMAIN incidents /\ incidents'[j] = incidents[j]
    BY <1>3
  <2>2. trackers[<<j.host, j.iface>>].incident = j /\ <<j.host, j.iface>> \in Keys
    BY <1>1, <1>3, <2>1, IncidentKey DEF StateInv, TrackersAgree
  <2>. QED
    BY <1>1, <2>1, <2>2
<1>. QED
  BY <1>2, <1>3 DEF TrackersAgree

-----------------------------------------------------------------------------
(* Each step preserves the invariant.                                      *)

(* The engine state a step leaves alone keeps its part of the invariant.   *)
LEMMA SameEngine ==
    ASSUME StateInv, UNCHANGED <<trackers, incidents>>
    PROVE  TrackersAgree' /\ TimelineWellFormed'
  BY DEF StateInv, TrackersAgree, TrackerAgrees, TimelineWellFormed

(* The evidence of a supported message from a known host.                  *)
LEMMA ClassifyType ==
    ASSUME NEW m, m.host \in Hosts, Supported(m), NEW at \in Nat, NEW id \in Nat,
           NEW notify \in BOOLEAN
    PROVE  /\ Classify(m, at, id, notify) \in Evidence
           /\ Classify(m, at, id, notify).at = at
           /\ Classify(m, at, id, notify).msg = id
<1>. DEFINE e == Classify(m, at, id, notify)
<1>1. \A h \in Hosts, f \in Ifaces, o, r, s \in BOOLEAN :
         [host |-> h, iface |-> f, online |-> o, at |-> at, msg |-> id,
          reachability |-> r, observeOnly |-> s, notify |-> notify] \in Evidence
  BY DEF Evidence
<1>2. (IF m.status = "switch to STARLINK" THEN "wwan" ELSE m.iface) \in Ifaces
  BY DEF Supported, Ifaces
<1>3. m.host \in Hosts
  OBVIOUS
<1>4. e \in Evidence
  <2>. DEFINE on == m.status \in {"is now up", "online"}
              probe == m.tag = "gl-repeater" /\ ~(m.status = "switch to STARLINK")
              sel == m.status = "switch to STARLINK"
              f == IF m.status = "switch to STARLINK" THEN "wwan" ELSE m.iface
  <2>1. f \in Ifaces
    BY <1>2
  <2>3. on \in BOOLEAN
    OBVIOUS
  <2>4. probe \in BOOLEAN
    OBVIOUS
  <2>5. sel \in BOOLEAN
    OBVIOUS
  <2>2. e = [host |-> m.host, iface |-> f, online |-> on, at |-> at, msg |-> id,
             reachability |-> probe, observeOnly |-> sel, notify |-> notify]
    BY Zenon DEF Classify
  <2>. HIDE DEF on, probe, sel, f, e
  <2>. QED
    BY <1>1, <1>3, <2>1, <2>2, <2>3, <2>4, <2>5
<1>5. e.at = at /\ e.msg = id
  BY DEF Classify
<1>. QED
  BY <1>4, <1>5

(* A restart under other thresholds keeps the invariant.                   *)
LEMMA RestartState ==
    ASSUME StateInv, NEW c \in Configs, Restart(c)
    PROVE  StateInv'
<1>1. TypeOK' /\ EvidenceFresh'
  BY DEF StateInv, TypeOK, Restart, EvidenceFresh
<1>. QED
  BY <1>1, SameEngine DEF StateInv, Restart

(* A message without evidence, or with stale evidence, changes no tracker. *)
LEMMA ObserveIgnoredState ==
    ASSUME StateInv, NEW m, m.host \in Hosts, NEW at \in Nat, NEW id \in Nat,
           ObserveIgnored(m, at, id)
    PROVE  StateInv'
<1>1. TypeOK' /\ EvidenceFresh'
  BY DEF StateInv, TypeOK, ObserveIgnored, Receive, EvidenceFresh, Idle
<1>. QED
  BY <1>1, SameEngine DEF StateInv, ObserveIgnored

(* Noting a selection leaves the phase of an open tracker alone.           *)
LEMMA ObserveSelectionState ==
    ASSUME StateInv, NEW m, m.host \in Hosts, NEW at \in Nat, NEW id \in Nat,
           ObserveSelection(m, at, id)
    PROVE  StateInv'
<1>. DEFINE e == Classify(m, at, id, FALSE)
            k == <<e.host, e.iface>>
<1>1. e \in Evidence /\ k \in Keys
  <2>1. e \in Evidence
    BY ClassifyType DEF ObserveSelection
  <2>. QED
    BY <2>1 DEF Evidence, Keys
<1>. DEFINE t == Selected(trackers[k], at)
<1>2. trackers' = [trackers EXCEPT ![k] = t]
  BY DEF ObserveSelection
<1>3. trackers[k] \in Tracker /\ TrackerAgrees(k)
  BY <1>1 DEF StateInv, TypeOK, TrackersAgree
<1>4. /\ t \in Tracker
      /\ t.phase = IF trackers[k].phase = "" THEN "healthy" ELSE trackers[k].phase
      /\ t.lastEvidenceAt = at
      /\ t.pendingSince = trackers[k].pendingSince
      /\ t.recoverySince = trackers[k].recoverySince
      /\ t.incident = trackers[k].incident
      /\ t.notify = trackers[k].notify
      /\ t.reachabilityDown = trackers[k].reachabilityDown
  BY <1>3, SelectedRecord
<1>. HIDE DEF t
<1>5. TypeOK' /\ EvidenceFresh' /\ TimelineWellFormed'
  <2>1. trackers' \in [Keys -> Tracker]
    BY <1>1, <1>2, <1>4 DEF StateInv, TypeOK
  <2>2. UNCHANGED <<cfg, incidents, jobs, cs>> /\ observed' = observed \cup {id} /\ cs = Idle
        /\ frontier' \in Nat
    BY DEF ObserveSelection, Receive, StateInv, TypeOK, Reach, LaterOf
  <2>3. TypeOK'
    BY <2>1, <2>2 DEF StateInv, TypeOK
  <2>. QED
    BY <2>2, <2>3 DEF StateInv, EvidenceFresh, TimelineWellFormed, Idle
<1>6. trackers[k].phase \notin OpenPhases =>
         t.phase \notin OpenPhases /\ Clean(t)
  BY <1>3, <1>4 DEF TrackerAgrees, Clean, OpenPhases
<1>7. trackers[k].phase \in OpenPhases => t.phase = trackers[k].phase
  BY <1>4 DEF OpenPhases
<1>8. TrackersAgree'
  <2>. HIDE DEF k
  <2>. QED
    BY <1>1, <1>2, <1>4, <1>6, <1>7, QuietUpdate DEF ObserveSelection
<1>. QED
  BY <1>5, <1>8 DEF StateInv

(* Taking the mutex for a message keeps the invariant.                     *)
LEMMA BeginObserveState ==
    ASSUME StateInv, NEW m, m.host \in Hosts, NEW at \in Nat, NEW id \in Nat,
           NEW notify \in BOOLEAN, BeginObserve(m, at, id, notify)
    PROVE  StateInv'
<1>1. /\ Classify(m, at, id, notify) \in Evidence
      /\ Classify(m, at, id, notify).at = at
      /\ Classify(m, at, id, notify).msg = id
  BY ClassifyType DEF BeginObserve
<1>2. TypeOK' /\ EvidenceFresh'
  BY <1>1 DEF StateInv, TypeOK, BeginObserve, Receive, EvidenceFresh, Reach, LaterOf
<1>. QED
  BY <1>2, SameEngine DEF StateInv, BeginObserve

(* Taking the mutex for a tick keeps the invariant.                        *)
LEMMA BeginTickState ==
    ASSUME StateInv, NEW now \in Nat, BeginTick(now)
    PROVE  StateInv'
<1>1. TypeOK' /\ EvidenceFresh'
  BY DEF StateInv, TypeOK, BeginTick, EvidenceFresh, Reach, LaterOf
<1>. QED
  BY <1>1, SameEngine DEF StateInv, BeginTick

-----------------------------------------------------------------------------
(* The turns of the loop of advanceLocked.                                 *)

(* The outbox keeps its type.                                              *)
LEMMA EnqueueType ==
    ASSUME TypeOK, NEW ids, ids \subseteq JobIDs, NEW at \in Nat
    PROVE  /\ DOMAIN Enqueue(ids, at) = DOMAIN jobs \cup ids
           /\ DOMAIN Enqueue(ids, at) \subseteq JobIDs
           /\ \A j \in DOMAIN Enqueue(ids, at) : Enqueue(ids, at)[j] \in Nat
           /\ \A j \in DOMAIN jobs : Enqueue(ids, at)[j] = jobs[j]
  BY DEF TypeOK, Enqueue

(* An incident that is open or becomes resolved changes in place: the      *)
(* types and the times of the others are kept.                             *)
LEMMA IncidentUpdate ==
    ASSUME StateInv, NEW i \in DOMAIN incidents, NEW x \in Incident,
           incidents' = [incidents EXCEPT ![i] = x]
    PROVE  /\ DOMAIN incidents' = DOMAIN incidents
           /\ incidents'[i] = x
           /\ \A j \in DOMAIN incidents : j # i => incidents'[j] = incidents[j]
           /\ DOMAIN incidents' \subseteq IncidentIDs
           /\ \A j \in DOMAIN incidents' : incidents'[j] \in Incident
  BY DEF StateInv, TypeOK

(* What an activation does to the tracker and the incident.                *)
LEMMA ActivateUpdate ==
    ASSUME StateInv, NEW k \in Keys, Pending(k), trackers[k].phase = "pending_failure",
           incidents' = [incidents EXCEPT ![trackers[k].incident] =
                            Activated(@, DueAt(k), trackers[k].notify)],
           trackers' = [trackers EXCEPT ![k] = Moved(@, "active", @.recoverySince)],
           UNCHANGED <<cfg, cs, observed, frontier>>,
           DOMAIN jobs' \subseteq JobIDs, \A j \in DOMAIN jobs' : jobs'[j] \in Nat
    PROVE  StateInv'
<1>. DEFINE i == trackers[k].incident
            t == Moved(trackers[k], "active", trackers[k].recoverySince)
            x == Activated(incidents[i], DueAt(k), trackers[k].notify)
<1>1. /\ trackers[k] \in Tracker /\ i \in DOMAIN incidents /\ incidents[i] \in Incident
      /\ DueAt(k) \in Nat /\ DueAt(k) = incidents[i].startedAt + incidents[i].downAfter
  BY PendingIsDue
<1>2. /\ trackers[k].recoverySince \in OptTime /\ trackers[k].notify \in BOOLEAN
      /\ "active" \in Phases
  BY <1>1 DEF Tracker, Phases
<1>3. /\ t \in Tracker /\ t.phase = "active"
      /\ t.pendingSince = trackers[k].pendingSince
      /\ t.recoverySince = trackers[k].recoverySince
      /\ t.incident = i /\ t.notify = trackers[k].notify
  BY <1>1, <1>2, MovedRecord
<1>4. /\ x \in Incident /\ x.state = "active" /\ x.activatedAt = DueAt(k)
      /\ x.startedAt = incidents[i].startedAt
      /\ x.recoveryFirstAt = incidents[i].recoveryFirstAt
      /\ x.resolvedAt = incidents[i].resolvedAt
      /\ x.downAfter = incidents[i].downAfter
      /\ x.notify = trackers[k].notify
  BY <1>1, <1>2, ActivatedRecord
<1>5. trackers' = [trackers EXCEPT ![k] = t] /\ incidents' = [incidents EXCEPT ![i] = x]
  OBVIOUS
<1>6. TrackerAgrees(k) /\ trackers[k].phase \in OpenPhases
  BY DEF StateInv, TrackersAgree, OpenPhases
<1>. HIDE DEF t, x
<1>7. TrackersAgree'
  <2>1. /\ x.state = t.phase /\ t.phase \in OpenPhases
        /\ x.startedAt = t.pendingSince
        /\ x.recoveryFirstAt = t.recoverySince
        /\ x.notify = t.notify
    BY <1>3, <1>4, <1>6 DEF TrackerAgrees, OpenPhases
  <2>. QED
    BY <1>3, <1>4, <1>5, <1>6, <2>1, OpenUpdate
<1>8. /\ DOMAIN incidents' = DOMAIN incidents /\ incidents'[i] = x
      /\ \A j \in DOMAIN incidents : j # i => incidents'[j] = incidents[j]
      /\ DOMAIN incidents' \subseteq IncidentIDs
      /\ \A j \in DOMAIN incidents' : incidents'[j] \in Incident
  <2>1. i \in DOMAIN incidents /\ x \in Incident /\ incidents' = [incidents EXCEPT ![i] = x]
    BY <1>1, <1>4, <1>5
  <2>. HIDE DEF i
  <2>. QED
    BY <2>1, IncidentUpdate
<1>9. TypeOK'
  BY <1>3, <1>5, <1>8 DEF StateInv, TypeOK
<1>10. TimelineWellFormed'
  <2>1. incidents[i].state = "pending_failure"
    BY <1>6 DEF TrackerAgrees
  <2>. QED
    BY <1>1, <1>4, <1>8, <2>1 DEF StateInv, TimelineWellFormed
<1>11. EvidenceFresh'
  BY <1>8 DEF StateInv, EvidenceFresh
<1>. QED
  BY <1>7, <1>9, <1>10, <1>11 DEF StateInv

(* Activating a primary incident keeps the invariant.                      *)
LEMMA ActivatePrimaryState ==
    ASSUME StateInv, NEW k \in Keys, ActivatePrimary(k)
    PROVE  StateInv'
<1>. DEFINE i == trackers[k].incident
            ids == (IF trackers[k].notify THEN {Job(i, "opened")} ELSE {})
                      \cup {Escalation(f, i) : f \in EscalatedBy(i)}
<1>1. Pending(k) /\ i \in IncidentIDs /\ DueAt(k) \in Nat
  <2>1. Pending(k)
    BY DEF ActivatePrimary, NextDue, Due
  <2>. QED
    BY <2>1, PendingIsDue DEF StateInv, TypeOK
<1>2. ids \subseteq JobIDs
  <2>1. \A f \in EscalatedBy(i) : Escalation(f, i) \in JobIDs
    BY <1>1 DEF EscalatedBy, Escalation, JobIDs, Kinds, StateInv, TypeOK
  <2>2. Job(i, "opened") \in JobIDs
    BY <1>1 DEF Job, JobIDs, Kinds
  <2>. QED
    BY <2>1, <2>2
<1>3. jobs' = Enqueue(ids, DueAt(k))
  BY DEF ActivatePrimary
<1>. HIDE DEF ids
<1>4. DOMAIN jobs' \subseteq JobIDs /\ \A j \in DOMAIN jobs' : jobs'[j] \in Nat
  BY <1>1, <1>2, <1>3, EnqueueType DEF StateInv
<1>. QED
  BY <1>1, <1>4, ActivateUpdate DEF ActivatePrimary

(* Activating a fallback incident keeps the invariant.                     *)
LEMMA ActivateFallbackState ==
    ASSUME StateInv, NEW k \in Keys, ActivateFallback(k)
    PROVE  StateInv'
<1>. DEFINE i == trackers[k].incident
<1>1. Pending(k) /\ i \in IncidentIDs /\ DueAt(k) \in Nat
  <2>1. Pending(k)
    BY DEF ActivateFallback, NextDue, Due
  <2>. QED
    BY <2>1, PendingIsDue DEF StateInv, TypeOK
<1>2. FallbackOpening(i, DueAt(k)) \subseteq JobIDs
  <2>1. \A p \in PrimariesDownAt(i.host, DueAt(k)) : Escalation(i, p) \in JobIDs
    BY <1>1 DEF PrimariesDownAt, Escalation, JobIDs, Kinds, StateInv, TypeOK
  <2>2. Job(i, "fallback_opened") \in JobIDs
    BY <1>1 DEF Job, JobIDs, Kinds
  <2>. QED
    BY <2>1, <2>2 DEF FallbackOpening
<1>3. DOMAIN jobs' \subseteq JobIDs /\ \A j \in DOMAIN jobs' : jobs'[j] \in Nat
  <2>1. CASE jobs' = jobs
    BY <2>1 DEF StateInv, TypeOK
  <2>2. ASSUME NEW j \in FallbackOpening(i, DueAt(k)), jobs' = Enqueue({j}, DueAt(k))
        PROVE  DOMAIN jobs' \subseteq JobIDs /\ \A job \in DOMAIN jobs' : jobs'[job] \in Nat
    <3>1. TypeOK /\ {j} \subseteq JobIDs /\ DueAt(k) \in Nat
      BY <1>1, <1>2, <2>2 DEF StateInv
    <3>. QED
      BY <2>2, <3>1, EnqueueType
  <2>. QED
    BY <2>1, <2>2 DEF ActivateFallback
<1>. QED
  BY <1>1, <1>3, ActivateUpdate DEF ActivateFallback

(* Resolving an incident keeps the invariant and cleans its tracker.       *)
LEMMA ResolveState ==
    ASSUME StateInv, NEW k \in Keys, Resolve(k)
    PROVE  StateInv'
<1>. DEFINE i == trackers[k].incident
            x == Resolved(incidents[i], DueAt(k))
            ids == IF incidents[i].notify THEN {Job(i, ResolvedKind(k[2]))} ELSE {}
<1>1. Pending(k) /\ trackers[k].phase = "pending_recovery"
  BY DEF Resolve, NextDue, Due
<1>2. /\ trackers[k] \in Tracker /\ i \in DOMAIN incidents /\ incidents[i] \in Incident
      /\ DueAt(k) \in Nat
      /\ DueAt(k) = incidents[i].recoveryFirstAt + incidents[i].recoveredAfter
  BY <1>1, PendingIsDue
<1>3. /\ x \in Incident /\ x.state = "resolved" /\ x.resolvedAt = DueAt(k)
      /\ x.startedAt = incidents[i].startedAt
      /\ x.activatedAt = incidents[i].activatedAt
      /\ x.recoveryFirstAt = incidents[i].recoveryFirstAt
      /\ x.downAfter = incidents[i].downAfter
      /\ x.recoveredAfter = incidents[i].recoveredAfter
      /\ x.notify = incidents[i].notify
  BY <1>2, ResolvedRecord
<1>4. /\ incidents' = [incidents EXCEPT ![i] = x]
      /\ trackers' = [trackers EXCEPT ![k] = FreshTracker("healthy", trackers[k].lastEvidenceAt)]
      /\ jobs' = Enqueue(ids, DueAt(k))
      /\ UNCHANGED <<cfg, cs, observed, frontier>>
  BY DEF Resolve
<1>5. ids \subseteq JobIDs
  <2>1. Job(i, ResolvedKind(k[2])) \in JobIDs
    BY <1>2 DEF Job, JobIDs, Kinds, ResolvedKind, StateInv, TypeOK
  <2>. QED
    BY <2>1
<1>. HIDE DEF x, ids
<1>6. /\ DOMAIN incidents' = DOMAIN incidents /\ incidents'[i] = x
      /\ \A j \in DOMAIN incidents : j # i => incidents'[j] = incidents[j]
      /\ DOMAIN incidents' \subseteq IncidentIDs
      /\ \A j \in DOMAIN incidents' : incidents'[j] \in Incident
  BY <1>2, <1>3, <1>4, IncidentUpdate
<1>7. trackers[k].lastEvidenceAt \in OptTime
  BY <1>2 DEF Tracker
<1>8. TrackersAgree'
  BY <1>3, <1>4, <1>6, <1>7, CloseUpdate
<1>9. TypeOK'
  <2>1. DOMAIN jobs' \subseteq JobIDs /\ \A j \in DOMAIN jobs' : jobs'[j] \in Nat
    BY <1>2, <1>4, <1>5, EnqueueType DEF StateInv
  <2>2. trackers' \in [Keys -> Tracker]
    <3>1. FreshTracker("healthy", trackers[k].lastEvidenceAt) \in Tracker
      BY <1>7 DEF FreshTracker, Tracker, Phases, OptTime
    <3>. QED
      BY <1>4, <3>1 DEF StateInv, TypeOK
  <2>. QED
    BY <1>4, <1>6, <2>1, <2>2 DEF StateInv, TypeOK
<1>10. TimelineWellFormed'
  <2>1. incidents[i].state = "pending_recovery"
    BY <1>1 DEF StateInv, TrackersAgree, TrackerAgrees, OpenPhases
  <2>. QED
    BY <1>2, <1>3, <1>6, <2>1 DEF StateInv, TimelineWellFormed
<1>11. EvidenceFresh'
  BY <1>4, <1>6 DEF StateInv, EvidenceFresh
<1>. QED
  BY <1>8, <1>9, <1>10, <1>11 DEF StateInv

-----------------------------------------------------------------------------
(* The end of an operation.                                                *)

(* Releasing the mutex after a tick keeps the invariant.                   *)
LEMMA FinishTickState ==
    ASSUME StateInv, FinishTick
    PROVE  StateInv'
<1>1. TypeOK' /\ EvidenceFresh'
  BY DEF StateInv, TypeOK, FinishTick, EvidenceFresh, Idle
<1>. QED
  BY <1>1, SameEngine DEF StateInv, FinishTick

(* A report that a probe overrules changes nothing.                        *)
LEMMA UpOverruledState ==
    ASSUME StateInv, UpOverruled
    PROVE  StateInv'
<1>1. TypeOK' /\ EvidenceFresh'
  BY DEF StateInv, TypeOK, UpOverruled, EvidenceFresh, Idle
<1>. QED
  BY <1>1, SameEngine DEF StateInv, UpOverruled

(* The evidence being observed and its tracker.                            *)
LEMMA EvidenceFacts ==
    ASSUME StateInv, cs.op = "observe"
    PROVE  /\ cs.ev \in Evidence /\ cs.ev.at \in Nat
           /\ EvKey \in Keys /\ trackers[EvKey] \in Tracker /\ TrackerAgrees(EvKey)
<1>1. cs.ev \in Evidence
  BY DEF StateInv, TypeOK
<1>2. EvKey \in Keys /\ cs.ev.at \in Nat
  BY <1>1 DEF EvKey, Keys, Evidence
<1>. QED
  BY <1>1, <1>2 DEF StateInv, TypeOK, TrackersAgree

(* Releasing the mutex keeps the rest of the types.                        *)
LEMMA FinishType ==
    ASSUME StateInv, NEW online, NEW phases, Finish(online, phases),
           trackers' \in [Keys -> Tracker],
           DOMAIN incidents' \subseteq IncidentIDs,
           \A i \in DOMAIN incidents' : incidents'[i] \in Incident,
           jobs' = jobs
    PROVE  TypeOK'
  BY DEF StateInv, TypeOK, Finish, Idle

(* An open tracker and its incident change in place at the end of an       *)
(* observation.                                                            *)
LEMMA FinishOpen ==
    ASSUME StateInv, NEW online, NEW phases, Finish(online, phases),
           trackers[EvKey].phase \in OpenPhases,
           NEW t \in Tracker, NEW x \in Incident,
           trackers' = [trackers EXCEPT ![EvKey] = t],
           incidents' = [incidents EXCEPT ![trackers[EvKey].incident] = x],
           jobs' = jobs,
           t.incident = trackers[EvKey].incident, t.phase \in OpenPhases,
           x.state = t.phase, t.pendingSince = trackers[EvKey].pendingSince,
           x.startedAt = incidents[trackers[EvKey].incident].startedAt,
           x.recoveryFirstAt = t.recoverySince, x.notify = t.notify,
           x.activatedAt = incidents[trackers[EvKey].incident].activatedAt,
           x.resolvedAt = incidents[trackers[EvKey].incident].resolvedAt,
           x.downAfter = incidents[trackers[EvKey].incident].downAfter,
           (x.state = "pending_failure") <=> (trackers[EvKey].phase = "pending_failure"),
           (t.recoverySince # NoTime) <=> (t.phase = "pending_recovery")
    PROVE  StateInv'
<1>. DEFINE i == trackers[EvKey].incident
<1>1. EvKey \in Keys /\ trackers[EvKey] \in Tracker /\ TrackerAgrees(EvKey)
  BY EvidenceFacts DEF Finish
<1>2. /\ i \in DOMAIN incidents /\ incidents[i].state = trackers[EvKey].phase
      /\ incidents[i].startedAt = trackers[EvKey].pendingSince
  BY <1>1 DEF TrackerAgrees
<1>3. TrackersAgree'
  BY <1>1, <1>2, OpenUpdate
<1>4. /\ DOMAIN incidents' = DOMAIN incidents /\ incidents'[i] = x
      /\ \A j \in DOMAIN incidents : j # i => incidents'[j] = incidents[j]
      /\ DOMAIN incidents' \subseteq IncidentIDs
      /\ \A j \in DOMAIN incidents' : incidents'[j] \in Incident
  BY <1>2, IncidentUpdate
<1>5. TypeOK'
  <2>1. trackers' \in [Keys -> Tracker]
    BY <1>1 DEF StateInv, TypeOK
  <2>. QED
    BY <1>4, <2>1, FinishType
<1>6. TimelineWellFormed'
  BY <1>2, <1>4 DEF StateInv, TimelineWellFormed, OpenPhases
<1>7. EvidenceFresh'
  BY <1>4 DEF StateInv, EvidenceFresh, Finish, Idle
<1>. QED
  BY <1>3, <1>5, <1>6, <1>7 DEF StateInv

(* An open incident: what its tracker knows of its recovery.               *)
LEMMA OpenFacts ==
    ASSUME StateInv, NEW k \in Keys, trackers[k].phase \in OpenPhases
    PROVE  LET i == trackers[k].incident IN
           /\ i \in DOMAIN incidents /\ incidents[i] \in Incident
           /\ incidents[i].state = trackers[k].phase
           /\ incidents[i].startedAt = trackers[k].pendingSince
           /\ incidents[i].recoveryFirstAt = trackers[k].recoverySince
           /\ incidents[i].notify = trackers[k].notify
           /\ (trackers[k].recoverySince # NoTime) <=> (trackers[k].phase = "pending_recovery")
<1>. DEFINE i == trackers[k].incident
<1>1. /\ i \in DOMAIN incidents /\ incidents[i].state = trackers[k].phase
      /\ incidents[i].startedAt = trackers[k].pendingSince
      /\ incidents[i].recoveryFirstAt = trackers[k].recoverySince
      /\ incidents[i].notify = trackers[k].notify
  BY DEF StateInv, TrackersAgree, TrackerAgrees
<1>2. incidents[i] \in Incident
  BY <1>1 DEF StateInv, TypeOK
<1>3. (incidents[i].recoveryFirstAt # NoTime) <=>
         (incidents[i].state \in {"pending_recovery", "resolved"})
  BY <1>1 DEF StateInv, TimelineWellFormed
<1>. QED
  BY <1>1, <1>2, <1>3 DEF OpenPhases

(* Tracker and incident of a confirmed failure alert alike.                *)
LEMMA FailureConfirmedState ==
    ASSUME StateInv, FailureConfirmed
    PROVE  StateInv'
<1>. DEFINE i == trackers[EvKey].incident
            notify == trackers[EvKey].notify \/ cs.ev.notify
            r == Recorded(trackers[EvKey], cs.ev)
            t == Alerting(r, notify)
            x == Alerting(incidents[i], notify)
<1>1. /\ Finish(FALSE, {"pending_failure"}) /\ jobs' = jobs
      /\ trackers' = [trackers EXCEPT ![EvKey] = t]
      /\ incidents' = [incidents EXCEPT ![i] = x]
  BY DEF FailureConfirmed
<1>2. notify \in BOOLEAN
  OBVIOUS
<1>. HIDE DEF notify
<1>3. /\ cs.ev \in Evidence /\ EvKey \in Keys /\ trackers[EvKey] \in Tracker
      /\ trackers[EvKey].phase = "pending_failure"
      /\ trackers[EvKey].phase \in OpenPhases
  BY <1>1, EvidenceFacts DEF Finish, OpenPhases
<1>4. /\ i \in DOMAIN incidents /\ incidents[i] \in Incident
      /\ incidents[i].state = trackers[EvKey].phase
      /\ incidents[i].recoveryFirstAt = trackers[EvKey].recoverySince
      /\ (trackers[EvKey].recoverySince # NoTime) <=>
            (trackers[EvKey].phase = "pending_recovery")
  BY <1>3, OpenFacts
<1>5. /\ r \in Tracker /\ r.phase = trackers[EvKey].phase
      /\ r.pendingSince = trackers[EvKey].pendingSince
      /\ r.recoverySince = trackers[EvKey].recoverySince
      /\ r.incident = i
  BY <1>3, RecordedRecord
<1>. HIDE DEF r
<1>6. /\ t \in Tracker /\ t.phase = r.phase /\ t.pendingSince = r.pendingSince
      /\ t.recoverySince = r.recoverySince /\ t.incident = r.incident
      /\ t.notify = notify
  BY <1>2, <1>5, AlertingTracker
<1>7. /\ x \in Incident /\ x.state = incidents[i].state
      /\ x.startedAt = incidents[i].startedAt
      /\ x.activatedAt = incidents[i].activatedAt
      /\ x.recoveryFirstAt = incidents[i].recoveryFirstAt
      /\ x.resolvedAt = incidents[i].resolvedAt
      /\ x.downAfter = incidents[i].downAfter
      /\ x.notify = notify
  BY <1>2, <1>4, AlertingIncident
<1>. HIDE DEF t, x
<1>8. /\ t.incident = trackers[EvKey].incident /\ t.phase \in OpenPhases
      /\ x.state = t.phase /\ t.pendingSince = trackers[EvKey].pendingSince
      /\ x.recoveryFirstAt = t.recoverySince /\ x.notify = t.notify
      /\ (x.state = "pending_failure") <=> (trackers[EvKey].phase = "pending_failure")
      /\ (t.recoverySince # NoTime) <=> (t.phase = "pending_recovery")
  BY <1>3, <1>4, <1>5, <1>6, <1>7
<1>. QED
  BY <1>1, <1>3, <1>6, <1>7, <1>8, FinishOpen

(* A tracker that moves between active and pending recovery.               *)
LEMMA RecoveryMoves ==
    ASSUME StateInv, NEW online, NEW from \in {"active", "pending_recovery"},
           Finish(online, {from}), jobs' = jobs,
           NEW p \in {"active", "pending_recovery"}, NEW since \in OptTime,
           (since # NoTime) <=> (p = "pending_recovery"),
           trackers' = [trackers EXCEPT ![EvKey] = Moved(Recorded(@, cs.ev), p, since)],
           incidents' = [incidents EXCEPT ![trackers[EvKey].incident] = Recovery(@, p, since)]
    PROVE  StateInv'
<1>. DEFINE i == trackers[EvKey].incident
            r == Recorded(trackers[EvKey], cs.ev)
            t == Moved(r, p, since)
            x == Recovery(incidents[i], p, since)
<1>1. trackers' = [trackers EXCEPT ![EvKey] = t] /\ incidents' = [incidents EXCEPT ![i] = x]
  OBVIOUS
<1>2. /\ cs.ev \in Evidence /\ EvKey \in Keys /\ trackers[EvKey] \in Tracker
      /\ trackers[EvKey].phase = from /\ trackers[EvKey].phase \in OpenPhases
      /\ p \in Phases /\ p \in States /\ p \in OpenPhases
  BY EvidenceFacts DEF Finish, OpenPhases, Phases, States
<1>3. /\ i \in DOMAIN incidents /\ incidents[i] \in Incident
      /\ incidents[i].state = trackers[EvKey].phase
      /\ incidents[i].notify = trackers[EvKey].notify
  BY <1>2, OpenFacts
<1>4. /\ r \in Tracker /\ r.pendingSince = trackers[EvKey].pendingSince
      /\ r.incident = i /\ r.notify = trackers[EvKey].notify
  BY <1>2, RecordedRecord
<1>. HIDE DEF r
<1>5. /\ t \in Tracker /\ t.phase = p /\ t.pendingSince = r.pendingSince
      /\ t.recoverySince = since /\ t.incident = r.incident /\ t.notify = r.notify
  BY <1>2, <1>4, MovedRecord
<1>6. /\ x \in Incident /\ x.state = p /\ x.startedAt = incidents[i].startedAt
      /\ x.activatedAt = incidents[i].activatedAt
      /\ x.recoveryFirstAt = since
      /\ x.resolvedAt = incidents[i].resolvedAt
      /\ x.downAfter = incidents[i].downAfter
      /\ x.notify = incidents[i].notify
  BY <1>2, <1>3, RecoveryRecord
<1>. HIDE DEF t, x
<1>7. /\ t.incident = trackers[EvKey].incident /\ t.phase \in OpenPhases
      /\ x.state = t.phase /\ t.pendingSince = trackers[EvKey].pendingSince
      /\ x.recoveryFirstAt = t.recoverySince /\ x.notify = t.notify
      /\ (x.state = "pending_failure") <=> (trackers[EvKey].phase = "pending_failure")
      /\ (t.recoverySince # NoTime) <=> (t.phase = "pending_recovery")
  BY <1>2, <1>3, <1>4, <1>5, <1>6
<1>. QED
  BY <1>1, <1>2, <1>5, <1>6, <1>7, FinishOpen

(* Tracker and incident leave the recovery together.                       *)
LEMMA RecoveryInterruptedState ==
    ASSUME StateInv, RecoveryInterrupted
    PROVE  StateInv'
  BY RecoveryMoves DEF RecoveryInterrupted, OptTime

(* Tracker and incident enter the recovery together.                       *)
LEMMA RecoveryBeginsState ==
    ASSUME StateInv, RecoveryBegins
    PROVE  StateInv'
<1>1. cs.ev.at \in OptTime /\ cs.ev.at # NoTime
  BY EvidenceFacts DEF RecoveryBegins, Finish, OptTime, NoTime
<1>. QED
  BY <1>1, RecoveryMoves DEF RecoveryBegins

(* The tracker changes at the end of an observation, no incident does.     *)
LEMMA FinishQuiet ==
    ASSUME StateInv, NEW online, NEW phases, Finish(online, phases), NEW t \in Tracker,
           trackers' = [trackers EXCEPT ![EvKey] = t],
           UNCHANGED <<incidents, jobs>>, TrackersAgree'
    PROVE  StateInv'
<1>1. trackers' \in [Keys -> Tracker]
  BY EvidenceFacts DEF StateInv, TypeOK, Finish
<1>2. TypeOK'
  BY <1>1, FinishType DEF StateInv, TypeOK
<1>3. TimelineWellFormed' /\ EvidenceFresh'
  BY DEF StateInv, TimelineWellFormed, EvidenceFresh, Finish, Idle
<1>. QED
  BY <1>2, <1>3 DEF StateInv

(* A report that confirms the phase keeps the invariant.                   *)
LEMMA PhaseConfirmedState ==
    ASSUME StateInv, PhaseConfirmed
    PROVE  StateInv'
<1>. DEFINE r == Recorded(trackers[EvKey], cs.ev)
<1>1. /\ trackers' = [trackers EXCEPT ![EvKey] = r] /\ UNCHANGED <<incidents, jobs>>
      /\ \E online \in BOOLEAN, phases \in SUBSET Phases :
            /\ Finish(online, phases)
            /\ online \/ phases = {"active"}
  <2>1. {"active"} \in SUBSET Phases /\ {"healthy", "pending_recovery"} \in SUBSET Phases
    BY DEF Phases
  <2>. QED
    BY <2>1 DEF PhaseConfirmed
<1>2. PICK online \in BOOLEAN, phases \in SUBSET Phases :
         Finish(online, phases) /\ (online \/ phases = {"active"})
  BY <1>1
<1>3. /\ cs.ev \in Evidence /\ EvKey \in Keys /\ trackers[EvKey] \in Tracker
      /\ TrackerAgrees(EvKey)
  BY <1>2, EvidenceFacts DEF Finish
<1>4. /\ r \in Tracker /\ r.phase = trackers[EvKey].phase
      /\ r.pendingSince = trackers[EvKey].pendingSince
      /\ r.recoverySince = trackers[EvKey].recoverySince
      /\ r.incident = trackers[EvKey].incident /\ r.notify = trackers[EvKey].notify
  BY <1>3, RecordedRecord
<1>5. trackers[EvKey].phase \notin OpenPhases => Clean(r)
  <2>1. trackers[EvKey].phase \notin OpenPhases =>
           r.reachabilityDown = trackers[EvKey].reachabilityDown
    BY <1>2, <1>3, RecordedOnline DEF Finish, OpenPhases
  <2>. QED
    BY <1>3, <1>4, <2>1 DEF TrackerAgrees, Clean
<1>. HIDE DEF r
<1>6. TrackersAgree'
  BY <1>1, <1>3, <1>4, <1>5, QuietUpdate
<1>. QED
  BY <1>1, <1>2, <1>4, <1>6, FinishQuiet

(* A fresh tracker is clean.                                               *)
LEMMA FreshIsClean ==
    ASSUME NEW at \in Nat
    PROVE  FreshTracker("healthy", at) \in Tracker
  BY DEF FreshTracker, Tracker, Phases, OptTime

(* A first report that all is well opens nothing.                          *)
LEMMA FirstOnlineState ==
    ASSUME StateInv, FirstOnline
    PROVE  StateInv'
<1>1. /\ EvKey \in Keys /\ cs.ev.at \in Nat /\ cs.ev.at \in OptTime
      /\ TrackerAgrees(EvKey) /\ trackers[EvKey].phase = ""
  BY EvidenceFacts DEF FirstOnline, Finish, OptTime
<1>2. trackers[EvKey].incident \notin DOMAIN incidents
  BY <1>1, NoIncidentIsNone DEF TrackerAgrees, Clean, OpenPhases, StateInv, TypeOK
<1>3. TrackersAgree'
  BY <1>1, <1>2, CloseUpdate DEF FirstOnline
<1>4. FreshTracker("healthy", cs.ev.at) \in Tracker
  BY <1>1, FreshIsClean
<1>. QED
  BY <1>3, <1>4, FinishQuiet DEF FirstOnline

(* A cancelled failure takes its incident with it.                         *)
LEMMA FailureCancelledState ==
    ASSUME StateInv, FailureCancelled
    PROVE  StateInv'
<1>1. /\ EvKey \in Keys /\ cs.ev.at \in Nat /\ cs.ev.at \in OptTime
  BY EvidenceFacts DEF FailureCancelled, Finish, OptTime
<1>2. /\ DOMAIN incidents' = DOMAIN incidents \ {trackers[EvKey].incident}
      /\ \A i \in DOMAIN incidents' : incidents'[i] = incidents[i]
      /\ trackers' = [trackers EXCEPT ![EvKey] = FreshTracker("healthy", cs.ev.at)]
      /\ jobs' = jobs /\ Finish(TRUE, {"pending_failure"})
  BY DEF FailureCancelled
<1>3. TrackersAgree'
  BY <1>1, <1>2, CloseUpdate
<1>4. TypeOK'
  <2>1. trackers' \in [Keys -> Tracker]
    BY <1>1, <1>2, FreshIsClean DEF StateInv, TypeOK
  <2>2. /\ DOMAIN incidents' \subseteq IncidentIDs
        /\ \A i \in DOMAIN incidents' : incidents'[i] \in Incident
    BY <1>2 DEF StateInv, TypeOK
  <2>. QED
    BY <1>2, <2>1, <2>2, FinishType
<1>5. TimelineWellFormed' /\ EvidenceFresh'
  BY <1>2 DEF StateInv, TimelineWellFormed, EvidenceFresh, Finish, Idle
<1>. QED
  BY <1>3, <1>4, <1>5 DEF StateInv

(* A new incident and its tracker agree, and overwrite no other incident.  *)
LEMMA StartIncidentState ==
    ASSUME StateInv, StartIncident
    PROVE  StateInv'
<1>. DEFINE e == cs.ev
            id == [host |-> e.host, iface |-> e.iface, at |-> e.at, msg |-> e.msg]
            new == [state |-> "pending_failure", startedAt |-> e.at,
                    activatedAt |-> NoTime, recoveryFirstAt |-> NoTime,
                    resolvedAt |-> NoTime, downAfter |-> cfg.down,
                    recoveredAfter |-> cfg.recovered, notify |-> e.notify]
            t == [phase |-> "pending_failure", pendingSince |-> e.at,
                  recoverySince |-> NoTime, lastEvidenceAt |-> e.at,
                  incident |-> id, notify |-> e.notify,
                  reachabilityDown |-> e.reachability]
<1>1. /\ Finish(FALSE, {"", "healthy"}) /\ jobs' = jobs
      /\ trackers' = [trackers EXCEPT ![EvKey] = t]
      /\ incidents' = [i \in DOMAIN incidents \cup {id} |->
                           IF i = id THEN new ELSE incidents[i]]
  BY DEF StartIncident
<1>2. /\ cs.op = "observe" /\ e \in Evidence /\ EvKey \in Keys
      /\ TrackerAgrees(EvKey) /\ trackers[EvKey].phase \in {"", "healthy"}
      /\ UNCHANGED <<cfg, observed, frontier>> /\ cs' = Idle
  BY <1>1, EvidenceFacts DEF Finish
<1>3. id \in IncidentIDs /\ id.host = e.host /\ id.iface = e.iface
      /\ id.at = e.at /\ id.msg = e.msg
  BY <1>2 DEF IncidentIDs, Evidence
<1>4. id \notin DOMAIN incidents
  BY <1>2, <1>3 DEF StateInv, EvidenceFresh
<1>5. new \in Incident
  <2>1. cfg.down \in Nat \ {0} /\ cfg.recovered \in Nat \ {0}
    BY ConfigsAssumption DEF StateInv, TypeOK
  <2>. QED
    BY <1>2, <2>1 DEF Incident, Evidence, States, OptTime
<1>6. t \in Tracker
  BY <1>2, <1>3 DEF Tracker, Evidence, Phases, OptTime
<1>7. /\ new.state = "pending_failure" /\ new.startedAt = e.at
      /\ new.activatedAt = NoTime /\ new.recoveryFirstAt = NoTime
      /\ new.resolvedAt = NoTime /\ new.notify = e.notify
      /\ t.phase = "pending_failure" /\ t.pendingSince = e.at
      /\ t.recoverySince = NoTime /\ t.incident = id /\ t.notify = e.notify
  OBVIOUS
<1>. HIDE DEF id, new, t
<1>8. /\ DOMAIN incidents' = DOMAIN incidents \cup {id} /\ incidents'[id] = new
      /\ \A i \in DOMAIN incidents : incidents'[i] = incidents[i]
  BY <1>1, <1>4
<1>9. TypeOK'
  <2>1. trackers' \in [Keys -> Tracker]
    BY <1>1, <1>2, <1>6 DEF StateInv, TypeOK
  <2>2. /\ DOMAIN incidents' \subseteq IncidentIDs
        /\ \A i \in DOMAIN incidents' : incidents'[i] \in Incident
    BY <1>3, <1>5, <1>8 DEF StateInv, TypeOK
  <2>. QED
    BY <1>1, <2>1, <2>2, FinishType
<1>10. TimelineWellFormed' /\ EvidenceFresh'
  <2>1. EvidenceFresh'
    <3>1. \A i \in DOMAIN incidents' : i.msg \in observed'
      BY <1>2, <1>3, <1>8 DEF StateInv, EvidenceFresh
    <3>. QED
      BY <1>2, <3>1 DEF EvidenceFresh, Idle
  <2>2. ASSUME NEW i \in DOMAIN incidents
        PROVE  incidents'[i] = incidents[i]
    BY <1>8
  <2>3. TimelineWellFormed'
    BY <1>3, <1>7, <1>8, <2>2 DEF StateInv, TimelineWellFormed
  <2>. QED
    BY <2>1, <2>3
<1>11. TrackersAgree'
  <2>1. ASSUME NEW k \in Keys
        PROVE  TrackerAgrees(k)'
    <3>1. CASE k = EvKey
      <4>1. trackers'[k] = t /\ k[1] = e.host /\ k[2] = e.iface
        BY <1>1, <1>2, <3>1 DEF EvKey, StateInv, TypeOK
      <4>. QED
        BY <1>3, <1>7, <1>8, <4>1 DEF TrackerAgrees, OpenPhases
    <3>2. CASE k # EvKey
      <4>1. trackers'[k] = trackers[k] /\ TrackerAgrees(k)
        BY <1>1, <1>2, <3>2 DEF StateInv, TypeOK, TrackersAgree
      <4>. QED
        BY <1>8, <4>1 DEF TrackerAgrees
    <3>. QED
      BY <3>1, <3>2
  <2>2. ASSUME NEW i \in DOMAIN incidents', incidents'[i].state # "resolved"
        PROVE  trackers'[<<i.host, i.iface>>].incident = i
    <3>1. CASE i = id
      BY <1>1, <1>2, <1>3, <1>7, <3>1 DEF EvKey, StateInv, TypeOK
    <3>2. CASE i # id
      <4>1. i \in DOMAIN incidents /\ incidents'[i] = incidents[i] /\ i \in IncidentIDs
        BY <1>8, <3>2 DEF StateInv, TypeOK
      <4>2. <<i.host, i.iface>> \in Keys /\ trackers[<<i.host, i.iface>>].incident = i
        BY <2>2, <4>1, IncidentKey DEF StateInv, TrackersAgree
      <4>3. trackers[EvKey].incident # i
        BY <1>2, <4>1, NoIncidentIsNone DEF TrackerAgrees, Clean, OpenPhases
      <4>. QED
        BY <1>1, <1>2, <4>2, <4>3 DEF StateInv, TypeOK
    <3>. QED
      BY <3>1, <3>2
  <2>. QED
    BY <2>1, <2>2 DEF TrackersAgree
<1>. QED
  BY <1>9, <1>10, <1>11 DEF StateInv

-----------------------------------------------------------------------------
(* A step of the operation that holds the mutex.                           *)
LEMMA LockedState ==
    ASSUME StateInv, Locked
    PROVE  StateInv'
  BY ActivatePrimaryState, ActivateFallbackState, ResolveState, FinishTickState,
     UpOverruledState, StartIncidentState, FailureConfirmedState,
     RecoveryInterruptedState, PhaseConfirmedState, FirstOnlineState,
     FailureCancelledState, RecoveryBeginsState
  DEF Locked

(* The invariant is about the variables only.                              *)
LEMMA StutterState ==
    ASSUME StateInv, UNCHANGED vars
    PROVE  StateInv'
<1>1. TypeOK' /\ EvidenceFresh'
  BY DEF StateInv, TypeOK, EvidenceFresh, vars
<1>. QED
  BY <1>1, SameEngine DEF StateInv, vars

(* Every step of the engine keeps the invariant.                           *)
LEMMA NextState ==
    ASSUME StateInv, [Next]_vars
    PROVE  StateInv'
<1>1. CASE \E c \in Configs : Restart(c)
  BY <1>1, RestartState
<1>2. ASSUME NEW id \in NextMsg, NEW m \in Inputs, NEW at \in 0 .. MaxTime,
             \/ ObserveIgnored(m, at, id)
             \/ ObserveSelection(m, at, id)
             \/ \E notify \in BOOLEAN : BeginObserve(m, at, id, notify)
      PROVE  StateInv'
  <2>1. id \in Nat /\ at \in Nat /\ m.host \in Hosts
    BY <1>2, InputsAssumption DEF NextMsg, MsgIDs
  <2>. QED
    BY <1>2, <2>1, ObserveIgnoredState, ObserveSelectionState, BeginObserveState
<1>3. ASSUME NEW now \in 0 .. MaxTime, BeginTick(now)
      PROVE  StateInv'
  BY <1>3, BeginTickState
<1>4. CASE Locked
  BY <1>4, LockedState
<1>5. CASE UNCHANGED vars
  BY <1>5, StutterState
<1>. QED
  BY <1>1, <1>2, <1>3, <1>4, <1>5 DEF Next

(* Everything the engine computes has its type, for any hosts, thresholds, *)
(* messages and order of arrival; in particular every due time is a time.  *)
THEOREM TypeCorrect == Spec => []TypeOK
<1>1. StateInv => TypeOK
  BY DEF StateInv
<1>. QED
  BY <1>1, InitState, NextState, PTL DEF Spec

(* Trackers and incidents agree in every reachable state, so the branches  *)
(* of engine.go for a tracker without incident are dead code, and every    *)
(* unresolved incident has the tracker that will close it.                 *)
THEOREM AgreementHolds == Spec => []TrackersAgree
<1>1. StateInv => TrackersAgree
  BY DEF StateInv
<1>. QED
  BY <1>1, InitState, NextState, PTL DEF Spec

(* Every incident keeps to the thresholds it started under, whatever       *)
(* thresholds the process is restarted with.                               *)
THEOREM TimelineHolds == Spec => []TimelineWellFormed
<1>1. StateInv => TimelineWellFormed
  BY DEF StateInv
<1>. QED
  BY <1>1, InitState, NextState, PTL DEF Spec

-----------------------------------------------------------------------------
(* The second part: the outbox agrees with the incidents, and history is   *)
(* kept.                                                                   *)

(* An incident is announced by its own job or by an escalation that names  *)
(* an activated primary incident, which no step drops.                     *)
AnnouncedFirmly(i) ==
    /\ incidents[i].activatedAt # NoTime =>
          IF i.iface = Primary THEN Job(i, "opened") \in DOMAIN jobs
          ELSE \/ Job(i, "fallback_opened") \in DOMAIN jobs
               \/ \E p \in DOMAIN incidents :
                     incidents[p].activatedAt # NoTime /\ Escalation(i, p) \in DOMAIN jobs
    /\ incidents[i].state = "resolved" => Job(i, ResolvedKind(i.iface)) \in DOMAIN jobs

FirmAlerts == \A i \in DOMAIN incidents : incidents[i].notify => AnnouncedFirmly(i)

JobsJustified == \A j \in DOMAIN jobs : Justified(j)

(* FirmAlerts is inductive relative to the invariant of the state, and so  *)
(* is that every job is justified; the two are kept apart because a        *)
(* rebuild may leave a job that is not.  A job that a step adds is.        *)
AlertInv == StateInv /\ FirmAlerts

AddedJustified == \A j \in DOMAIN jobs' : j \in DOMAIN jobs \/ Justified(j)'

AlertsKept == HistoryStep /\ FirmAlerts' /\ AddedJustified

-----------------------------------------------------------------------------
(* A step that keeps history keeps what justifies a job ...                *)
LEMMA JustifiedKept ==
    ASSUME StateInv, HistoryStep, NEW j \in DOMAIN jobs, Justified(j)
    PROVE  Justified(j)'
<1>. DEFINE i == j.incident
<1>1. /\ i \in DOMAIN incidents /\ incidents[i].activatedAt # NoTime
      /\ i \in DOMAIN incidents'
      /\ incidents'[i].activatedAt = incidents[i].activatedAt
      /\ incidents'[i].notify = incidents[i].notify
      /\ incidents[i].state = "resolved" => incidents'[i] = incidents[i]
  BY DEF Justified, HistoryStep
<1>2. j.primary # NoIncident =>
         /\ j.primary \in DOMAIN incidents'
         /\ incidents'[j.primary].activatedAt # NoTime
  BY DEF Justified, HistoryStep
<1>. QED
  BY <1>1, <1>2 DEF Justified

LEMMA JobsKept ==
    ASSUME StateInv, AlertsKept, JobsJustified
    PROVE  JobsJustified'
<1>1. HistoryStep /\ AddedJustified
  BY DEF AlertsKept
<1>. QED
  BY <1>1, JustifiedKept DEF AddedJustified, JobsJustified

(* ... and what announces an incident.                                     *)
LEMMA AnnouncedKept ==
    ASSUME AlertInv, HistoryStep, NEW i \in DOMAIN incidents, i \in DOMAIN incidents',
           incidents[i].notify,
           incidents'[i].activatedAt = incidents[i].activatedAt,
           incidents'[i].state = "resolved" => incidents[i].state = "resolved"
    PROVE  AnnouncedFirmly(i)'
<1>1. AnnouncedFirmly(i) /\ DOMAIN jobs \subseteq DOMAIN jobs'
  BY DEF AlertInv, FirmAlerts, HistoryStep
<1>2. ASSUME NEW p \in DOMAIN incidents, incidents[p].activatedAt # NoTime
      PROVE  p \in DOMAIN incidents' /\ incidents'[p].activatedAt # NoTime
  BY <1>2 DEF HistoryStep
<1>. QED
  BY <1>1, <1>2 DEF AnnouncedFirmly

(* A step that touches neither incidents nor jobs.                         *)
LEMMA QuietAlerts ==
    ASSUME AlertInv, UNCHANGED <<incidents, jobs>>
    PROVE  AlertsKept
<1>1. HistoryStep
  BY DEF HistoryStep
<1>2. AddedJustified
  BY <1>1 DEF AddedJustified
<1>3. \A i \in DOMAIN incidents' : incidents'[i].notify => AnnouncedFirmly(i)'
  BY <1>1, AnnouncedKept
<1>. QED
  BY <1>1, <1>2, <1>3 DEF AlertsKept, FirmAlerts

(* An unresolved incident changes without being activated or resolved.     *)
LEMMA InPlaceAlerts ==
    ASSUME AlertInv, jobs' = jobs, NEW i \in DOMAIN incidents, NEW x \in Incident,
           incidents' = [incidents EXCEPT ![i] = x],
           incidents[i].state # "resolved", x.state # "resolved",
           x.activatedAt = incidents[i].activatedAt,
           x.activatedAt # NoTime => x.notify = incidents[i].notify
    PROVE  AlertsKept
<1>1. /\ DOMAIN incidents' = DOMAIN incidents /\ incidents'[i] = x
      /\ \A other \in DOMAIN incidents : other # i => incidents'[other] = incidents[other]
  BY IncidentUpdate DEF AlertInv
<1>2. HistoryStep
  BY <1>1 DEF HistoryStep
<1>3. AddedJustified
  BY <1>2 DEF AddedJustified
<1>4. ASSUME NEW other \in DOMAIN incidents', incidents'[other].notify
      PROVE  AnnouncedFirmly(other)'
  <2>1. CASE other # i
    BY <1>1, <1>2, <1>4, <2>1, AnnouncedKept
  <2>2. CASE other = i /\ x.activatedAt # NoTime
    BY <1>1, <1>2, <1>4, <2>2, AnnouncedKept
  <2>3. CASE other = i /\ x.activatedAt = NoTime
    BY <1>1, <2>3 DEF AnnouncedFirmly
  <2>. QED
    BY <2>1, <2>2, <2>3
<1>. QED
  BY <1>2, <1>3, <1>4 DEF AlertsKept, FirmAlerts

(* A confirmed failure is pending, so it has no job that its alerting      *)
(* could contradict.                                                       *)
LEMMA FailureConfirmedAlerts ==
    ASSUME AlertInv, FailureConfirmed
    PROVE  AlertsKept
<1>. DEFINE i == trackers[EvKey].incident
            notify == trackers[EvKey].notify \/ cs.ev.notify
            x == Alerting(incidents[i], notify)
<1>1. jobs' = jobs /\ incidents' = [incidents EXCEPT ![i] = x] /\ notify \in BOOLEAN
  BY DEF FailureConfirmed
<1>. HIDE DEF notify
<1>2. EvKey \in Keys /\ trackers[EvKey].phase = "pending_failure"
  BY EvidenceFacts DEF AlertInv, FailureConfirmed, Finish
<1>3. i \in DOMAIN incidents /\ incidents[i] \in Incident
      /\ incidents[i].state = "pending_failure"
  BY <1>2, OpenFacts DEF AlertInv, OpenPhases
<1>4. incidents[i].activatedAt = NoTime
  BY <1>3 DEF AlertInv, StateInv, TimelineWellFormed
<1>5. x \in Incident /\ x.state = "pending_failure" /\ x.activatedAt = NoTime
  BY <1>1, <1>3, <1>4, AlertingIncident
<1>. HIDE DEF x
<1>. QED
  BY <1>1, <1>3, <1>4, <1>5, InPlaceAlerts

(* The beginning and the interruption of a recovery change neither         *)
(* alerting nor activation.                                                *)
LEMMA RecoveryAlerts ==
    ASSUME AlertInv, RecoveryInterrupted \/ RecoveryBegins
    PROVE  AlertsKept
<1>. DEFINE i == trackers[EvKey].incident
<1>1. /\ EvKey \in Keys /\ cs.ev.at \in Nat
      /\ trackers[EvKey].phase \in {"active", "pending_recovery"}
  BY EvidenceFacts DEF AlertInv, RecoveryInterrupted, RecoveryBegins, Finish
<1>2. PICK p \in {"active", "pending_recovery"}, since \in OptTime :
         incidents' = [incidents EXCEPT ![i] = Recovery(incidents[i], p, since)]
  BY <1>1 DEF RecoveryInterrupted, RecoveryBegins, OptTime
<1>3. i \in DOMAIN incidents /\ incidents[i] \in Incident
      /\ incidents[i].state \in {"active", "pending_recovery"}
  BY <1>1, OpenFacts DEF AlertInv, OpenPhases
<1>. DEFINE x == Recovery(incidents[i], p, since)
<1>4. p \in States
  BY DEF States
<1>5. /\ x \in Incident /\ x.state = p
      /\ x.activatedAt = incidents[i].activatedAt /\ x.notify = incidents[i].notify
  BY <1>3, <1>4, RecoveryRecord
<1>. HIDE DEF x
<1>6. jobs' = jobs
  BY DEF RecoveryInterrupted, RecoveryBegins
<1>7. incidents' = [incidents EXCEPT ![i] = x] /\ x.state # "resolved"
      /\ incidents[i].state # "resolved"
  BY <1>2, <1>3, <1>5 DEF x
<1>. QED
  BY <1>3, <1>5, <1>6, <1>7, InPlaceAlerts

(* A new incident takes no ID that is in use, and is not active yet.       *)
LEMMA StartIncidentAlerts ==
    ASSUME AlertInv, StartIncident
    PROVE  AlertsKept
<1>. DEFINE e == cs.ev
            id == [host |-> e.host, iface |-> e.iface, at |-> e.at, msg |-> e.msg]
<1>1. /\ jobs' = jobs /\ DOMAIN incidents' = DOMAIN incidents \cup {id}
      /\ \A i \in DOMAIN incidents : i # id => incidents'[i] = incidents[i]
      /\ incidents'[id].state = "pending_failure" /\ incidents'[id].activatedAt = NoTime
  BY DEF StartIncident
<1>2. id \notin DOMAIN incidents
  <2>1. id.msg = e.msg /\ cs.op = "observe"
    BY DEF StartIncident, Finish
  <2>. QED
    BY <2>1 DEF AlertInv, StateInv, EvidenceFresh
<1>. HIDE DEF id
<1>3. HistoryStep
  BY <1>1, <1>2 DEF HistoryStep
<1>4. AddedJustified
  BY <1>1, <1>3 DEF AddedJustified
<1>5. ASSUME NEW i \in DOMAIN incidents', incidents'[i].notify
      PROVE  AnnouncedFirmly(i)'
  <2>1. CASE i = id
    BY <1>1, <2>1 DEF AnnouncedFirmly
  <2>2. CASE i # id
    BY <1>1, <1>3, <1>5, <2>2, AnnouncedKept
  <2>. QED
    BY <2>1, <2>2
<1>. QED
  BY <1>3, <1>4, <1>5 DEF AlertsKept, FirmAlerts

(* The incident that is dropped was never activated, so no job is about    *)
(* it.                                                                     *)
LEMMA FailureCancelledAlerts ==
    ASSUME AlertInv, FailureCancelled
    PROVE  AlertsKept
<1>. DEFINE i == trackers[EvKey].incident
<1>1. EvKey \in Keys /\ trackers[EvKey].phase = "pending_failure"
  BY EvidenceFacts DEF AlertInv, FailureCancelled, Finish
<1>2. i \in DOMAIN incidents /\ incidents[i].state = "pending_failure"
  BY <1>1, OpenFacts DEF AlertInv, OpenPhases
<1>3. incidents[i].activatedAt = NoTime
  BY <1>2 DEF AlertInv, StateInv, TimelineWellFormed
<1>4. /\ jobs' = jobs /\ DOMAIN incidents' = DOMAIN incidents \ {i}
      /\ \A other \in DOMAIN incidents' : incidents'[other] = incidents[other]
  BY DEF FailureCancelled
<1>5. HistoryStep
  BY <1>3, <1>4 DEF HistoryStep
<1>6. AddedJustified
  BY <1>4, <1>5 DEF AddedJustified
<1>7. \A other \in DOMAIN incidents' : incidents'[other].notify => AnnouncedFirmly(other)'
  BY <1>4, <1>5, AnnouncedKept
<1>. QED
  BY <1>5, <1>6, <1>7 DEF AlertsKept, FirmAlerts

-----------------------------------------------------------------------------
(* Steps that enqueue jobs.                                                *)

(* An incident i moves on, and the jobs ids are enqueued: it is enough     *)
(* that the new jobs are justified and that i is announced.                *)
LEMMA EnqueueAlerts ==
    ASSUME AlertInv, NEW i \in DOMAIN incidents, NEW x \in Incident,
           incidents' = [incidents EXCEPT ![i] = x],
           incidents[i].activatedAt # NoTime =>
               /\ x.activatedAt = incidents[i].activatedAt
               /\ x.notify = incidents[i].notify,
           incidents[i].state # "resolved",
           NEW ids, ids \subseteq JobIDs, NEW at \in Nat, jobs' = Enqueue(ids, at),
           \A j \in ids : Justified(j)',
           x.notify => AnnouncedFirmly(i)'
    PROVE  AlertsKept
<1>1. /\ DOMAIN incidents' = DOMAIN incidents /\ incidents'[i] = x
      /\ \A other \in DOMAIN incidents : other # i => incidents'[other] = incidents[other]
  BY IncidentUpdate DEF AlertInv
<1>2. /\ DOMAIN jobs' = DOMAIN jobs \cup ids
      /\ \A j \in DOMAIN jobs : jobs'[j] = jobs[j]
  BY EnqueueType DEF AlertInv, StateInv
<1>3. HistoryStep
  BY <1>1, <1>2 DEF HistoryStep
<1>4. AddedJustified
  BY <1>2, <1>3 DEF AddedJustified
<1>5. ASSUME NEW other \in DOMAIN incidents', incidents'[other].notify
      PROVE  AnnouncedFirmly(other)'
  <2>1. CASE other = i
    BY <1>1, <1>5, <2>1
  <2>2. CASE other # i
    BY <1>1, <1>3, <1>5, <2>2, AnnouncedKept
  <2>. QED
    BY <2>1, <2>2
<1>. QED
  BY <1>3, <1>4, <1>5 DEF AlertsKept, FirmAlerts

(* The incident of a tracker that is due to activate.                      *)
LEMMA ActivationFacts ==
    ASSUME StateInv, NEW k \in Keys, Due(k, cs.now), trackers[k].phase = "pending_failure"
    PROVE  LET i == trackers[k].incident
               x == Activated(incidents[i], DueAt(k), trackers[k].notify) IN
           /\ i \in DOMAIN incidents /\ i \in IncidentIDs
           /\ i.host = k[1] /\ i.iface = k[2]
           /\ incidents[i] \in Incident /\ incidents[i].state = "pending_failure"
           /\ incidents[i].activatedAt = NoTime
           /\ DueAt(k) \in Nat /\ DueAt(k) # NoTime
           /\ x \in Incident /\ x.state = "active" /\ x.activatedAt = DueAt(k)
           /\ x.notify = trackers[k].notify
<1>. DEFINE i == trackers[k].incident
<1>1. /\ trackers[k] \in Tracker /\ i \in DOMAIN incidents /\ incidents[i] \in Incident
      /\ DueAt(k) \in Nat
  BY PendingIsDue DEF Due
<1>2. trackers[k].notify \in BOOLEAN
  BY <1>1 DEF Tracker
<1>3. i.host = k[1] /\ i.iface = k[2] /\ incidents[i].state = "pending_failure"
  BY DEF StateInv, TrackersAgree, TrackerAgrees, OpenPhases
<1>4. incidents[i].activatedAt = NoTime /\ i \in IncidentIDs
  BY <1>1, <1>3 DEF StateInv, TimelineWellFormed, TypeOK
<1>5. DueAt(k) # NoTime
  BY <1>1 DEF NoTime
<1>6. LET x == Activated(incidents[i], DueAt(k), trackers[k].notify) IN
      /\ x \in Incident /\ x.state = "active" /\ x.activatedAt = DueAt(k)
      /\ x.notify = trackers[k].notify
  BY <1>1, <1>2, ActivatedRecord
<1>. QED
  BY <1>1, <1>3, <1>4, <1>5, <1>6

(* An activated primary incident is announced, and so is its effect on     *)
(* fallbacks.                                                              *)
LEMMA ActivatePrimaryAlerts ==
    ASSUME AlertInv, NEW k \in Keys, ActivatePrimary(k)
    PROVE  AlertsKept
<1>1. Due(k, cs.now) /\ trackers[k].phase = "pending_failure" /\ k[2] = Primary
  BY DEF ActivatePrimary, NextDue
<1>2. PICK i \in DOMAIN incidents, x \in Incident, at \in Nat :
         /\ i = trackers[k].incident /\ at = DueAt(k)
         /\ x = Activated(incidents[i], at, trackers[k].notify)
  BY <1>1, ActivationFacts DEF AlertInv
<1>3. /\ i \in IncidentIDs /\ i # NoIncident /\ i.iface = Primary
      /\ incidents[i].state = "pending_failure" /\ incidents[i].activatedAt = NoTime
      /\ x.state = "active" /\ x.activatedAt = at /\ x.activatedAt # NoTime
      /\ x.notify = trackers[k].notify
  BY <1>1, <1>2, ActivationFacts, NoIncidentIsNone DEF AlertInv
<1>4. PICK ids :
         /\ ids = (IF trackers[k].notify THEN {Job(i, "opened")} ELSE {})
                     \cup {Escalation(f, i) : f \in EscalatedBy(i)}
         /\ incidents' = [incidents EXCEPT ![i] = x] /\ jobs' = Enqueue(ids, at)
  BY <1>2 DEF ActivatePrimary
<1>5. /\ DOMAIN incidents' = DOMAIN incidents /\ incidents'[i] = x
      /\ \A other \in DOMAIN incidents : other # i => incidents'[other] = incidents[other]
  BY <1>2, <1>4, IncidentUpdate DEF AlertInv
<1>6. ASSUME NEW f \in EscalatedBy(i), NEW j, j = Escalation(f, i)
      PROVE  j \in JobIDs /\ Justified(j)'
  <2>1. /\ f \in DOMAIN incidents /\ f \in IncidentIDs /\ f.host = i.host
        /\ f.iface # Primary /\ incidents[f].notify
        /\ incidents[f].state \in {"active", "pending_recovery"}
    BY DEF EscalatedBy, AlertInv, StateInv, TypeOK
  <2>2. incidents[f] \in Incident /\ incidents[f].activatedAt # NoTime
    BY <2>1 DEF AlertInv, StateInv, TypeOK, TimelineWellFormed, Incident, NoTime
  <2>3. f # i /\ incidents'[f] = incidents[f] /\ f \in DOMAIN incidents'
    BY <1>3, <1>5, <2>1
  <2>4. j.incident = f /\ j.primary = i /\ j.kind = "fallback_escalated"
    BY <1>6 DEF Escalation
  <2>5. j \in JobIDs
    BY <1>3, <1>6, <2>1 DEF Escalation, JobIDs, Kinds
  <2>6. Justified(j)'
    BY <1>3, <1>5, <2>1, <2>2, <2>3, <2>4 DEF Justified
  <2>. QED
    BY <2>5, <2>6
<1>7. ASSUME trackers[k].notify, NEW j, j = Job(i, "opened")
      PROVE  j \in JobIDs /\ Justified(j)'
  <2>1. j.incident = i /\ j.primary = NoIncident /\ j.kind = "opened"
    BY <1>7 DEF Job
  <2>2. j \in JobIDs
    BY <1>3, <1>7 DEF Job, JobIDs, Kinds
  <2>3. Justified(j)'
    BY <1>3, <1>5, <1>7, <2>1 DEF Justified
  <2>. QED
    BY <2>2, <2>3
<1>8. ASSUME NEW j \in ids
      PROVE  j \in JobIDs /\ Justified(j)'
  <2>1. \/ trackers[k].notify /\ j = Job(i, "opened")
        \/ \E f \in EscalatedBy(i) : j = Escalation(f, i)
    BY <1>4
  <2>. QED
    BY <1>6, <1>7, <2>1
<1>9. ids \subseteq JobIDs
  BY <1>8
<1>10. x.notify => AnnouncedFirmly(i)'
  <2>1. ids \subseteq DOMAIN jobs'
    <3>1. jobs' = Enqueue(ids, at)
      BY <1>4
    <3>. QED
      BY <3>1 DEF Enqueue
  <2>2. trackers[k].notify => Job(i, "opened") \in DOMAIN jobs'
    BY <1>4, <2>1
  <2>. QED
    BY <1>3, <1>5, <2>2 DEF AnnouncedFirmly
<1>. QED
  BY <1>2, <1>3, <1>4, <1>8, <1>9, <1>10, EnqueueAlerts

(* An activated fallback incident is announced by a warning or an          *)
(* escalation.                                                             *)
LEMMA ActivateFallbackAlerts ==
    ASSUME AlertInv, NEW k \in Keys, ActivateFallback(k)
    PROVE  AlertsKept
<1>1. Due(k, cs.now) /\ trackers[k].phase = "pending_failure" /\ k[2] # Primary
  BY DEF ActivateFallback, NextDue
<1>2. PICK i \in DOMAIN incidents, x \in Incident, at \in Nat :
         /\ i = trackers[k].incident /\ at = DueAt(k)
         /\ x = Activated(incidents[i], at, trackers[k].notify)
  BY <1>1, ActivationFacts DEF AlertInv
<1>3. /\ i \in IncidentIDs /\ i # NoIncident /\ i.iface # Primary
      /\ incidents[i].state = "pending_failure" /\ incidents[i].activatedAt = NoTime
      /\ x.state = "active" /\ x.activatedAt = at /\ x.activatedAt # NoTime
      /\ x.notify = trackers[k].notify
  BY <1>1, <1>2, ActivationFacts, NoIncidentIsNone DEF AlertInv
<1>4. incidents' = [incidents EXCEPT ![i] = x]
  BY <1>2 DEF ActivateFallback
<1>5. /\ DOMAIN incidents' = DOMAIN incidents /\ incidents'[i] = x
      /\ \A other \in DOMAIN incidents : other # i => incidents'[other] = incidents[other]
  BY <1>2, <1>4, IncidentUpdate DEF AlertInv
<1>6. ASSUME trackers[k].notify, NEW j, j = Job(i, "fallback_opened")
      PROVE  j \in JobIDs /\ Justified(j)' /\ (j \in DOMAIN jobs' => AnnouncedFirmly(i)')
  <2>1. j.incident = i /\ j.primary = NoIncident /\ j.kind = "fallback_opened"
    BY <1>6 DEF Job
  <2>2. j \in JobIDs
    BY <1>3, <1>6 DEF Job, JobIDs, Kinds
  <2>3. Justified(j)'
    BY <1>3, <1>5, <1>6, <2>1 DEF Justified
  <2>4. j \in DOMAIN jobs' => AnnouncedFirmly(i)'
    BY <1>3, <1>5, <1>6 DEF AnnouncedFirmly
  <2>. QED
    BY <2>2, <2>3, <2>4
<1>7. ASSUME trackers[k].notify, NEW p \in PrimariesDownAt(i.host, at),
             NEW j, j = Escalation(i, p)
      PROVE  j \in JobIDs /\ Justified(j)' /\ (j \in DOMAIN jobs' => AnnouncedFirmly(i)')
  <2>1. /\ p \in DOMAIN incidents /\ p \in IncidentIDs /\ p.host = i.host
        /\ p.iface = Primary /\ incidents[p].activatedAt # NoTime
    BY DEF PrimariesDownAt, AlertInv, StateInv, TypeOK
  <2>2. p # i /\ p \in DOMAIN incidents' /\ incidents'[p] = incidents[p] /\ p # NoIncident
    BY <1>3, <1>5, <2>1, NoIncidentIsNone
  <2>3. j.incident = i /\ j.primary = p /\ j.kind = "fallback_escalated"
    BY <1>7 DEF Escalation
  <2>4. j \in JobIDs
    BY <1>3, <1>7, <2>1 DEF Escalation, JobIDs, Kinds
  <2>5. Justified(j)'
    BY <1>3, <1>5, <1>7, <2>1, <2>2, <2>3 DEF Justified
  <2>6. j \in DOMAIN jobs' => AnnouncedFirmly(i)'
    BY <1>3, <1>5, <1>7, <2>1, <2>2 DEF AnnouncedFirmly
  <2>. QED
    BY <2>4, <2>5, <2>6
<1>8. CASE trackers[k].notify
  <2>1. PICK j \in FallbackOpening(i, at) : jobs' = Enqueue({j}, at)
    BY <1>2, <1>8 DEF ActivateFallback
  <2>2. \/ j = Job(i, "fallback_opened")
        \/ \E p \in PrimariesDownAt(i.host, at) : j = Escalation(i, p)
    BY DEF FallbackOpening
  <2>3. j \in JobIDs /\ Justified(j)' /\ (j \in DOMAIN jobs' => AnnouncedFirmly(i)')
    BY <1>6, <1>7, <1>8, <2>2
  <2>4. {j} \subseteq JobIDs
    BY <2>3
  <2>5. j \in DOMAIN jobs'
    BY <2>1 DEF Enqueue
  <2>6. \A job \in {j} : Justified(job)'
    BY <2>3
  <2>7. x.notify => AnnouncedFirmly(i)'
    BY <2>3, <2>5
  <2>8. incidents[i].state # "resolved"
    BY <1>3
  <2>9. PICK ids : ids = {j} /\ ids \subseteq JobIDs /\ jobs' = Enqueue(ids, at)
                   /\ \A job \in ids : Justified(job)'
    BY <2>1, <2>4, <2>6
  <2>. QED
    BY <1>2, <1>3, <1>4, <2>7, <2>8, <2>9, EnqueueAlerts
<1>9. CASE ~trackers[k].notify
  <2>1. jobs' = jobs
    BY <1>9 DEF ActivateFallback
  <2>2. HistoryStep
    BY <1>3, <1>5, <2>1 DEF HistoryStep
  <2>3. AddedJustified
    BY <2>1, <2>2 DEF AddedJustified
  <2>4. \A other \in DOMAIN incidents' : incidents'[other].notify => AnnouncedFirmly(other)'
    BY <1>3, <1>5, <1>9, <2>2, AnnouncedKept
  <2>. QED
    BY <2>2, <2>3, <2>4 DEF AlertsKept, FirmAlerts
<1>. QED
  BY <1>8, <1>9

(* A resolved incident that alerted gets the job that ends it.             *)
LEMMA ResolveAlerts ==
    ASSUME AlertInv, NEW k \in Keys, Resolve(k)
    PROVE  AlertsKept
<1>1. Pending(k) /\ trackers[k].phase = "pending_recovery"
  BY DEF Resolve, NextDue, Due
<1>2. /\ trackers[k].incident \in DOMAIN incidents /\ DueAt(k) \in Nat
      /\ incidents[trackers[k].incident] \in Incident
  BY <1>1, PendingIsDue DEF AlertInv
<1>3. PICK i \in DOMAIN incidents, x \in Incident, at \in Nat :
         /\ i = trackers[k].incident /\ at = DueAt(k)
         /\ x = Resolved(incidents[i], at)
  BY <1>2, ResolvedRecord
<1>4. /\ i \in IncidentIDs /\ i.iface = k[2] /\ incidents[i].state = "pending_recovery"
      /\ incidents[i] \in Incident
  BY <1>1, <1>3 DEF AlertInv, StateInv, TypeOK, TrackersAgree, TrackerAgrees, OpenPhases
<1>5. incidents[i].activatedAt # NoTime
  BY <1>3, <1>4 DEF AlertInv, StateInv, TimelineWellFormed, Incident, NoTime
<1>6. /\ x.state = "resolved" /\ x.activatedAt = incidents[i].activatedAt
      /\ x.notify = incidents[i].notify
  BY <1>3, <1>4, ResolvedRecord
<1>7. PICK ids :
         /\ ids = IF incidents[i].notify THEN {Job(i, ResolvedKind(i.iface))} ELSE {}
         /\ incidents' = [incidents EXCEPT ![i] = x] /\ jobs' = Enqueue(ids, at)
  BY <1>3, <1>4 DEF Resolve
<1>8. DOMAIN incidents' = DOMAIN incidents /\ incidents'[i] = x
  BY <1>3, <1>7, IncidentUpdate DEF AlertInv
<1>9. ASSUME NEW j \in ids
      PROVE  j \in JobIDs /\ Justified(j)'
  <2>1. incidents[i].notify /\ j = Job(i, ResolvedKind(i.iface))
    BY <1>7
  <2>2. j.incident = i /\ j.primary = NoIncident /\ j.kind = ResolvedKind(i.iface)
    BY <2>1 DEF Job
  <2>3. j \in JobIDs
    BY <1>4, <2>1 DEF Job, JobIDs, Kinds, ResolvedKind
  <2>4. Justified(j)'
    BY <1>5, <1>6, <1>8, <2>1, <2>2 DEF Justified, ResolvedKind
  <2>. QED
    BY <2>3, <2>4
<1>10. ids \subseteq JobIDs
  BY <1>9
<1>11. x.notify => AnnouncedFirmly(i)'
  <2>1. DOMAIN jobs' = DOMAIN jobs \cup ids
    BY <1>3, <1>7, <1>10, EnqueueType DEF AlertInv, StateInv
  <2>2. incidents[i].notify => AnnouncedFirmly(i)
    BY <1>3 DEF AlertInv, FirmAlerts
  <2>3. incidents[i].notify => Job(i, ResolvedKind(i.iface)) \in DOMAIN jobs'
    BY <1>7, <2>1
  <2>4. \A p \in DOMAIN incidents : incidents'[p].activatedAt = incidents[p].activatedAt
    <3>1. \A p \in DOMAIN incidents : p # i => incidents'[p] = incidents[p]
      BY <1>3, <1>7, IncidentUpdate DEF AlertInv
    <3>. QED
      BY <1>6, <1>8, <3>1
  <2>. QED
    BY <1>5, <1>6, <1>8, <2>1, <2>2, <2>3, <2>4 DEF AnnouncedFirmly
<1>. QED
  BY <1>3, <1>4, <1>6, <1>7, <1>9, <1>10, <1>11, EnqueueAlerts

-----------------------------------------------------------------------------
(* Every step under the mutex keeps history and the coherence of alerts.   *)
LEMMA LockedAlerts ==
    ASSUME AlertInv, Locked
    PROVE  AlertsKept
<1>1. CASE \E k \in Keys : ActivatePrimary(k) \/ ActivateFallback(k) \/ Resolve(k)
  BY <1>1, ActivatePrimaryAlerts, ActivateFallbackAlerts, ResolveAlerts
<1>2. CASE FinishTick \/ UpOverruled \/ PhaseConfirmed \/ FirstOnline
  BY <1>2, QuietAlerts DEF FinishTick, UpOverruled, PhaseConfirmed, FirstOnline
<1>3. CASE StartIncident
  BY <1>3, StartIncidentAlerts
<1>4. CASE FailureConfirmed
  BY <1>4, FailureConfirmedAlerts
<1>5. CASE FailureCancelled
  BY <1>5, FailureCancelledAlerts
<1>6. CASE RecoveryInterrupted \/ RecoveryBegins
  BY <1>6, RecoveryAlerts
<1>. QED
  BY <1>1, <1>2, <1>3, <1>4, <1>5, <1>6 DEF Locked

(* Every step of the engine does.                                          *)
LEMMA NextAlerts ==
    ASSUME AlertInv, [Next]_vars
    PROVE  StateInv' /\ AlertsKept
<1>1. StateInv'
  BY NextState DEF AlertInv
<1>2. CASE Locked
  BY <1>1, <1>2, LockedAlerts
<1>3. CASE UNCHANGED <<incidents, jobs>>
  BY <1>1, <1>3, QuietAlerts
<1>4. ASSUME NEW c \in Configs, Restart(c) PROVE UNCHANGED <<incidents, jobs>>
  BY <1>4 DEF Restart
<1>5. ASSUME NEW id, NEW m, NEW at, ObserveIgnored(m, at, id)
      PROVE  UNCHANGED <<incidents, jobs>>
  BY <1>5 DEF ObserveIgnored
<1>6. ASSUME NEW id, NEW m, NEW at, ObserveSelection(m, at, id)
      PROVE  UNCHANGED <<incidents, jobs>>
  BY <1>6 DEF ObserveSelection
<1>7. ASSUME NEW id, NEW m, NEW at, NEW notify, BeginObserve(m, at, id, notify)
      PROVE  UNCHANGED <<incidents, jobs>>
  BY <1>7 DEF BeginObserve
<1>8. ASSUME NEW now, BeginTick(now) PROVE UNCHANGED <<incidents, jobs>>
  BY <1>8 DEF BeginTick
<1>9. UNCHANGED vars => UNCHANGED <<incidents, jobs>>
  BY DEF vars
<1>10. Locked \/ UNCHANGED <<incidents, jobs>>
  BY <1>4, <1>5, <1>6, <1>7, <1>8, <1>9 DEF Next
<1>. QED
  BY <1>2, <1>3, <1>10

(* Nothing to alert about at first.                                        *)
LEMMA InitAlerts == Init => AlertInv /\ JobsJustified
<1>. SUFFICES ASSUME Init PROVE AlertInv /\ JobsJustified
  OBVIOUS
<1>1. FirmAlerts /\ JobsJustified
  BY DEF Init, FirmAlerts, JobsJustified
<1>. QED
  BY <1>1, InitState DEF AlertInv

(* An incident that is announced firmly is announced.                      *)
LEMMA FirmIsAnnounced ==
    ASSUME FirmAlerts
    PROVE  \A i \in DOMAIN incidents : incidents[i].notify => Announced(i)
  BY DEF FirmAlerts, AnnouncedFirmly, Announced

(* No alerting incident is activated or resolved without a job in the      *)
(* outbox that says so, and no job is about an incident that was           *)
(* cancelled, is pending or must not alert.                                *)
THEOREM AlertsHold == Spec => []AlertCoherence
<1>1. AlertInv /\ JobsJustified => AlertCoherence
  BY FirmIsAnnounced DEF AlertInv, JobsJustified, AlertCoherence
<1>2. AlertInv /\ JobsJustified /\ [Next]_vars => (AlertInv /\ JobsJustified)'
  BY NextAlerts, JobsKept DEF AlertInv, AlertsKept
<1>. QED
  BY <1>1, <1>2, InitAlerts, PTL DEF Spec

(* No step drops an activated incident, changes a resolved one, or drops   *)
(* or re-dates a job.                                                      *)
THEOREM HistoryHolds == Spec => HistoryKept
<1>1. AlertInv /\ [Next]_vars => [HistoryStep]_vars /\ AlertInv'
  BY NextAlerts DEF AlertInv, AlertsKept
<1>. QED
  BY <1>1, InitAlerts, PTL DEF Spec, HistoryKept

-----------------------------------------------------------------------------
(* Evidence and ticks in the order of their times.                         *)

Waits(x) == x.state \in {"pending_failure", "pending_recovery"}

DueTime(x) ==
    IF x.state = "pending_failure" THEN x.startedAt + x.downAfter
    ELSE x.recoveryFirstAt + x.recoveredAfter

(* What is still to come is not before what has happened; and where the    *)
(* order matters at one instant, a recovery comes before any activation    *)
(* and a primary activation before that of a fallback.                     *)
Passed ==
    \A w, i \in DOMAIN incidents :
        Waits(incidents[w]) =>
            /\ incidents[i].activatedAt <= DueTime(incidents[w])
            /\ incidents[i].resolvedAt <= DueTime(incidents[w])
            /\ (incidents[w].state = "pending_recovery" \/ (w.iface = Primary /\ i.iface # Primary)) =>
                  incidents[i].activatedAt < DueTime(incidents[w])

(* With the order of arrival this makes the incidents' history one of      *)
(* nondecreasing times.                                                    *)
InTime ==
    /\ cs # Idle => cs.now = frontier
    /\ \A i \in DOMAIN incidents :
          incidents[i].activatedAt <= frontier /\ incidents[i].resolvedAt <= frontier
    /\ Passed

OrderInv == AlertInv /\ JobsJustified /\ InTime /\ OutageContinuous /\ EscalationExact

(* An incident that waits is followed by its tracker, and due when that    *)
(* one is.                                                                 *)
LEMMA WaitingTracker ==
    ASSUME StateInv, NEW w \in DOMAIN incidents, Waits(incidents[w])
    PROVE  /\ <<w.host, w.iface>> \in Keys /\ Pending(<<w.host, w.iface>>)
           /\ trackers[<<w.host, w.iface>>].phase = incidents[w].state
           /\ DueAt(<<w.host, w.iface>>) = DueTime(incidents[w])
           /\ DueTime(incidents[w]) \in Nat
<1>. DEFINE k == <<w.host, w.iface>>
<1>1. w \in IncidentIDs /\ k \in Keys
  BY IncidentKey DEF StateInv, TypeOK
<1>2. trackers[k].incident = w /\ TrackerAgrees(k)
  BY <1>1 DEF StateInv, TrackersAgree, Waits
<1>3. trackers[k].phase = incidents[w].state
  BY <1>1, <1>2, NoIncidentIsNone DEF TrackerAgrees, Clean
<1>4. Pending(k)
  BY <1>3 DEF Pending, Waits
<1>. HIDE DEF k
<1>5. DueAt(k) = DueTime(incidents[w]) /\ DueAt(k) \in Nat
  BY <1>1, <1>2, <1>3, <1>4, PendingIsDue DEF DueTime, Waits
<1>. QED
  BY <1>1, <1>3, <1>4, <1>5 DEF k

(* The incident of the tracker that is taken next is the first in line.    *)
LEMMA FirstInLine ==
    ASSUME StateInv, cs \in [op : {"observe", "tick"}, now : Nat, ev : Evidence \cup {NoEvidence}],
           NEW k \in Keys, NextDue(k, cs.now),
           NEW w \in DOMAIN incidents, Waits(incidents[w])
    PROVE  /\ DueAt(k) \in Nat /\ DueAt(k) <= cs.now
           /\ DueAt(k) <= DueTime(incidents[w])
           /\ trackers[k].phase = "pending_failure" =>
                 /\ incidents[w].state = "pending_recovery" => DueAt(k) < DueTime(incidents[w])
                 /\ (k[2] # Primary /\ w.iface = Primary) => DueAt(k) < DueTime(incidents[w])
<1>1. PICK o \in Keys : o = <<w.host, w.iface>>
  BY WaitingTracker
<1>2. /\ Pending(o) /\ trackers[o].phase = incidents[w].state
      /\ DueAt(o) = DueTime(incidents[w]) /\ DueAt(o) \in Nat /\ o[2] = w.iface
  BY <1>1, WaitingTracker
<1>3. DueAt(k) \in Nat /\ DueAt(k) <= cs.now /\ cs.now \in Nat
  BY PendingIsDue DEF NextDue, Due
<1>4. \/ DueAt(o) > cs.now
      \/ DueAt(k) < DueAt(o)
      \/ DueAt(k) = DueAt(o) /\ Priority(k) <= Priority(o)
  BY <1>2, <1>3 DEF NextDue, Due
<1>. QED
  BY <1>2, <1>3, <1>4 DEF Priority, Waits

(* When nothing is due any more, everything that waits is due later.       *)
LEMMA AllLater ==
    ASSUME StateInv, cs.op = "observe", NothingDue(cs.now),
           NEW w \in DOMAIN incidents, Waits(incidents[w])
    PROVE  cs.now < DueTime(incidents[w])
<1>1. PICK o \in Keys : o = <<w.host, w.iface>>
  BY WaitingTracker
<1>2. Pending(o) /\ DueAt(o) = DueTime(incidents[w]) /\ DueAt(o) \in Nat
  BY <1>1, WaitingTracker
<1>3. cs.now \in Nat
  BY EvidenceFacts DEF StateInv, TypeOK
<1>. QED
  BY <1>2, <1>3 DEF NothingDue, Due

(* The times of an incident are numbers.                                   *)
LEMMA IncidentTimes ==
    ASSUME NEW x \in Incident
    PROVE  /\ x.startedAt \in Int /\ x.activatedAt \in Int /\ x.recoveryFirstAt \in Int
           /\ x.resolvedAt \in Int /\ x.downAfter \in Nat \ {0} /\ x.recoveredAfter \in Nat \ {0}
           /\ DueTime(x) \in Int
  BY DEF Incident, OptTime, NoTime, DueTime

(* A turn of the loop takes the first in line: an activation ...           *)
LEMMA ActivationInTime ==
    ASSUME StateInv, InTime, OutageContinuous, cs.op \in {"observe", "tick"},
           NEW k \in Keys, NextDue(k, cs.now), trackers[k].phase = "pending_failure",
           incidents' = [incidents EXCEPT ![trackers[k].incident] =
                            Activated(@, DueAt(k), trackers[k].notify)],
           UNCHANGED <<cs, frontier>>
    PROVE  InTime' /\ OutageContinuous'
<1>1. cs # Idle /\ cs \in [op : {"observe", "tick"}, now : Nat, ev : Evidence \cup {NoEvidence}]
  BY DEF StateInv, TypeOK, Idle
<1>2. PICK i \in DOMAIN incidents, x \in Incident :
         i = trackers[k].incident /\ x = Activated(incidents[i], DueAt(k), trackers[k].notify)
  BY ActivationFacts DEF NextDue
<1>3. /\ i.iface = k[2] /\ incidents[i].state = "pending_failure" /\ incidents[i] \in Incident
      /\ x.state = "active" /\ x.activatedAt = DueAt(k) /\ DueAt(k) \in Nat
  BY <1>2, ActivationFacts DEF NextDue
<1>4. x.recoveryFirstAt = incidents[i].recoveryFirstAt /\ x.resolvedAt = incidents[i].resolvedAt
  <2>1. trackers[k].notify \in BOOLEAN
    BY DEF StateInv, TypeOK, Tracker
  <2>. QED
    BY <1>2, <1>3, <2>1, ActivatedRecord
<1>5. incidents[i].recoveryFirstAt = NoTime /\ incidents[i].resolvedAt = NoTime
  BY <1>3 DEF StateInv, TimelineWellFormed
<1>6. /\ DOMAIN incidents' = DOMAIN incidents /\ incidents'[i] = x
      /\ \A other \in DOMAIN incidents : other # i => incidents'[other] = incidents[other]
      /\ \A other \in DOMAIN incidents : incidents[other] \in Incident
  BY <1>2, IncidentUpdate DEF StateInv, TypeOK
<1>7. DueAt(k) <= frontier /\ frontier \in Nat
  <2>1. Waits(incidents[i])
    BY <1>3 DEF Waits
  <2>. QED
    BY <1>1, <2>1, FirstInLine DEF InTime, StateInv, TypeOK
<1>8. ASSUME NEW other \in DOMAIN incidents
      PROVE  incidents'[other].activatedAt <= frontier /\ incidents'[other].resolvedAt <= frontier
  BY <1>3, <1>4, <1>5, <1>6, <1>7 DEF InTime, NoTime
<1>9. Passed'
  <2>. SUFFICES ASSUME NEW w \in DOMAIN incidents, NEW j \in DOMAIN incidents,
                       Waits(incidents'[w])
                PROVE  /\ incidents'[j].activatedAt <= DueTime(incidents'[w])
                       /\ incidents'[j].resolvedAt <= DueTime(incidents'[w])
                       /\ (incidents'[w].state = "pending_recovery"
                              \/ (w.iface = Primary /\ j.iface # Primary)) =>
                             incidents'[j].activatedAt < DueTime(incidents'[w])
    BY <1>6 DEF Passed
  <2>1. w # i /\ incidents'[w] = incidents[w]
    BY <1>3, <1>6 DEF Waits
  <2>2. DueTime(incidents[w]) \in Int
    BY <1>6, IncidentTimes
  <2>3. CASE j # i
    BY <1>6, <2>1, <2>3 DEF InTime, Passed
  <2>4. CASE j = i
    <3>1. /\ DueAt(k) <= DueTime(incidents[w])
          /\ incidents[w].state = "pending_recovery" => DueAt(k) < DueTime(incidents[w])
          /\ (k[2] # Primary /\ w.iface = Primary) => DueAt(k) < DueTime(incidents[w])
      BY <1>1, <2>1, FirstInLine
    <3>. QED
      BY <1>3, <1>4, <1>5, <1>6, <2>1, <2>2, <2>4, <3>1 DEF NoTime
  <2>. QED
    BY <2>3, <2>4
<1>10. OutageContinuous'
  BY <1>4, <1>5, <1>6 DEF OutageContinuous
<1>. QED
  BY <1>1, <1>6, <1>8, <1>9, <1>10 DEF InTime

(* ... or a resolution.                                                    *)
LEMMA ResolutionInTime ==
    ASSUME StateInv, InTime, OutageContinuous, NEW k \in Keys, Resolve(k)
    PROVE  InTime' /\ OutageContinuous'
<1>1. cs # Idle /\ cs \in [op : {"observe", "tick"}, now : Nat, ev : Evidence \cup {NoEvidence}]
  BY DEF StateInv, TypeOK, Idle, Resolve
<1>2. Pending(k) /\ trackers[k].phase = "pending_recovery" /\ NextDue(k, cs.now)
  BY DEF Resolve, NextDue, Due
<1>3. /\ trackers[k].incident \in DOMAIN incidents /\ DueAt(k) \in Nat
      /\ incidents[trackers[k].incident] \in Incident
  BY <1>2, PendingIsDue
<1>4. PICK i \in DOMAIN incidents, x \in Incident :
         i = trackers[k].incident /\ x = Resolved(incidents[i], DueAt(k))
  BY <1>3, ResolvedRecord
<1>5. incidents[i].state = "pending_recovery" /\ incidents[i] \in Incident
  BY <1>2, <1>3, <1>4 DEF StateInv, TrackersAgree, TrackerAgrees, OpenPhases
<1>6. /\ x.state = "resolved" /\ x.activatedAt = incidents[i].activatedAt
      /\ x.resolvedAt = DueAt(k) /\ x.recoveryFirstAt = incidents[i].recoveryFirstAt
  BY <1>3, <1>4, <1>5, ResolvedRecord
<1>7. incidents' = [incidents EXCEPT ![i] = x] /\ UNCHANGED <<cs, frontier>>
  BY <1>4 DEF Resolve
<1>8. /\ DOMAIN incidents' = DOMAIN incidents /\ incidents'[i] = x
      /\ \A other \in DOMAIN incidents : other # i => incidents'[other] = incidents[other]
      /\ \A other \in DOMAIN incidents : incidents[other] \in Incident
  BY <1>4, <1>7, IncidentUpdate DEF StateInv, TypeOK
<1>9. DueAt(k) <= frontier /\ frontier \in Nat
  <2>1. Waits(incidents[i])
    BY <1>5 DEF Waits
  <2>. QED
    BY <1>1, <1>2, <2>1, FirstInLine DEF InTime, StateInv, TypeOK
<1>10. ASSUME NEW other \in DOMAIN incidents
       PROVE  incidents'[other].activatedAt <= frontier /\ incidents'[other].resolvedAt <= frontier
  BY <1>6, <1>8, <1>9 DEF InTime
<1>11. Passed'
  <2>. SUFFICES ASSUME NEW w \in DOMAIN incidents, NEW j \in DOMAIN incidents,
                       Waits(incidents'[w])
                PROVE  /\ incidents'[j].activatedAt <= DueTime(incidents'[w])
                       /\ incidents'[j].resolvedAt <= DueTime(incidents'[w])
                       /\ (incidents'[w].state = "pending_recovery"
                              \/ (w.iface = Primary /\ j.iface # Primary)) =>
                             incidents'[j].activatedAt < DueTime(incidents'[w])
    BY <1>8 DEF Passed
  <2>1. w # i /\ incidents'[w] = incidents[w]
    BY <1>6, <1>8 DEF Waits
  <2>2. DueAt(k) <= DueTime(incidents[w])
    BY <1>1, <1>2, <2>1, FirstInLine
  <2>. QED
    BY <1>6, <1>8, <2>1, <2>2 DEF InTime, Passed
<1>12. OutageContinuous'
  BY <1>6, <1>8 DEF OutageContinuous
<1>. QED
  BY <1>1, <1>7, <1>8, <1>10, <1>11, <1>12 DEF InTime

(* The end of an observation: what changes then is due later than all that *)
(* has happened, since nothing else is due any more.                       *)
LEMMA FinishInTime ==
    ASSUME StateInv, InTime, OutageContinuous, cs.op = "observe", NothingDue(cs.now),
           cs' = Idle, frontier' = frontier,
           \A i \in DOMAIN incidents' :
              /\ incidents'[i] \in Incident
              /\ incidents'[i].activatedAt # NoTime =>
                    /\ i \in DOMAIN incidents
                    /\ incidents'[i].activatedAt = incidents[i].activatedAt
              /\ incidents'[i].resolvedAt # NoTime =>
                    i \in DOMAIN incidents /\ incidents'[i].resolvedAt = incidents[i].resolvedAt
              /\ incidents'[i].recoveryFirstAt # NoTime =>
                    \/ incidents'[i].recoveryFirstAt = cs.now
                    \/ i \in DOMAIN incidents
                          /\ incidents'[i].recoveryFirstAt = incidents[i].recoveryFirstAt
              /\ Waits(incidents'[i]) =>
                    \/ cs.now < DueTime(incidents'[i])
                    \/ /\ i \in DOMAIN incidents /\ Waits(incidents[i])
                       /\ DueTime(incidents'[i]) = DueTime(incidents[i])
    PROVE  InTime' /\ OutageContinuous'
<1>1. cs.now = frontier /\ frontier \in Nat
  BY DEF InTime, Idle, StateInv, TypeOK
<1>2. \A i \in DOMAIN incidents : incidents[i] \in Incident
  BY DEF StateInv, TypeOK
<1>3. ASSUME NEW i \in DOMAIN incidents'
      PROVE  incidents'[i].activatedAt <= frontier /\ incidents'[i].resolvedAt <= frontier
  BY <1>1 DEF InTime, NoTime
<1>4. ASSUME NEW w \in DOMAIN incidents', Waits(incidents'[w])
      PROVE  frontier < DueTime(incidents'[w])
  BY <1>1, <1>4, AllLater
<1>5. Passed'
  <2>1. ASSUME NEW w \in DOMAIN incidents', NEW j \in DOMAIN incidents', Waits(incidents'[w])
        PROVE  /\ incidents'[j].activatedAt < DueTime(incidents'[w])
               /\ incidents'[j].resolvedAt <= DueTime(incidents'[w])
               /\ incidents'[j].activatedAt <= DueTime(incidents'[w])
    <3>1. incidents'[w] \in Incident /\ incidents'[j] \in Incident
      OBVIOUS
    <3>2. /\ DueTime(incidents'[w]) \in Int /\ incidents'[j].activatedAt \in Int
          /\ incidents'[j].resolvedAt \in Int
      BY <3>1, IncidentTimes
    <3>. QED
      BY <1>1, <1>3, <1>4, <2>1, <3>2
  <2>. QED
    BY <2>1 DEF Passed
<1>6. OutageContinuous'
  <2>. SUFFICES ASSUME NEW i \in DOMAIN incidents', incidents'[i].recoveryFirstAt # NoTime
                PROVE  incidents'[i].activatedAt <= incidents'[i].recoveryFirstAt
    BY DEF OutageContinuous
  <2>1. CASE incidents'[i].recoveryFirstAt = cs.now
    BY <1>1, <1>3, <2>1
  <2>2. CASE /\ i \in DOMAIN incidents
             /\ incidents'[i].recoveryFirstAt = incidents[i].recoveryFirstAt
    <3>1. incidents'[i].recoveryFirstAt \in Nat
      BY DEF Incident, OptTime
    <3>. QED
      BY <2>2, <3>1 DEF OutageContinuous, NoTime
  <2>. QED
    BY <2>1, <2>2
<1>. QED
  BY <1>1, <1>3, <1>5, <1>6 DEF InTime

(* A step that neither activates nor resolves keeps the order.             *)
LEMMA QuietInTime ==
    ASSUME OrderInv, UNCHANGED incidents, frontier' \in Nat, frontier <= frontier',
           cs' # Idle => cs'.now = frontier'
    PROVE  InTime' /\ OutageContinuous'
<1>1. \A i \in DOMAIN incidents :
         incidents[i].activatedAt <= frontier' /\ incidents[i].resolvedAt <= frontier'
  <2>1. ASSUME NEW i \in DOMAIN incidents
        PROVE  incidents[i].activatedAt <= frontier' /\ incidents[i].resolvedAt <= frontier'
    <3>1. incidents[i] \in Incident /\ frontier \in Nat
      BY DEF OrderInv, AlertInv, StateInv, TypeOK
    <3>2. incidents[i].activatedAt \in Int /\ incidents[i].resolvedAt \in Int
      BY <3>1, IncidentTimes
    <3>. QED
      BY <3>1, <3>2 DEF OrderInv, InTime
  <2>. QED
    BY <2>1
<1>2. Passed'
  BY DEF OrderInv, InTime, Passed
<1>3. OutageContinuous'
  BY DEF OrderInv, OutageContinuous
<1>. QED
  BY <1>1, <1>2, <1>3 DEF InTime

(* The end of an observation, whatever it does to the incident.            *)
LEMMA ObservedInTime ==
    ASSUME OrderInv,
           \/ UpOverruled \/ StartIncident \/ FailureConfirmed \/ RecoveryInterrupted
           \/ PhaseConfirmed \/ FirstOnline \/ FailureCancelled \/ RecoveryBegins
    PROVE  InTime' /\ OutageContinuous'
<1>1. StateInv /\ InTime /\ OutageContinuous
  BY DEF OrderInv, AlertInv
<1>2. cs.op = "observe" /\ NothingDue(cs.now) /\ cs' = Idle /\ frontier' = frontier
  BY DEF UpOverruled, StartIncident, FailureConfirmed, RecoveryInterrupted, PhaseConfirmed,
         FirstOnline, FailureCancelled, RecoveryBegins, Finish
<1>3. EvKey \in Keys /\ cs.ev.at \in Nat /\ cs.now = cs.ev.at
  BY <1>1, <1>2, EvidenceFacts DEF StateInv, TypeOK
<1>4. \A i \in DOMAIN incidents : incidents[i] \in Incident
  BY <1>1 DEF StateInv, TypeOK
<1>5. CASE UNCHANGED incidents
  BY <1>1, <1>2, <1>4, <1>5, FinishInTime
<1>6. CASE FailureCancelled
  <2>1. \A i \in DOMAIN incidents' : i \in DOMAIN incidents /\ incidents'[i] = incidents[i]
    BY <1>6 DEF FailureCancelled
  <2>. QED
    BY <1>1, <1>2, <1>4, <2>1, FinishInTime
<1>7. CASE StartIncident
  <2>. DEFINE id == [host |-> cs.ev.host, iface |-> cs.ev.iface, at |-> cs.ev.at, msg |-> cs.ev.msg]
              new == [state |-> "pending_failure", startedAt |-> cs.ev.at,
                      activatedAt |-> NoTime, recoveryFirstAt |-> NoTime,
                      resolvedAt |-> NoTime, downAfter |-> cfg.down,
                      recoveredAfter |-> cfg.recovered, notify |-> cs.ev.notify]
  <2>1. /\ DOMAIN incidents' = DOMAIN incidents \cup {id} /\ incidents'[id] = new
        /\ \A i \in DOMAIN incidents : i # id => incidents'[i] = incidents[i]
    BY <1>7 DEF StartIncident
  <2>2. cfg.down \in Nat \ {0} /\ cfg.recovered \in Nat \ {0} /\ cs.ev.notify \in BOOLEAN
    BY <1>1, <1>2, EvidenceFacts, ConfigsAssumption DEF StateInv, TypeOK, Evidence
  <2>3. new \in Incident /\ cs.now < DueTime(new)
    BY <1>3, <2>2 DEF Incident, DueTime, States, OptTime
  <2>. HIDE DEF id
  <2>. QED
    BY <1>1, <1>2, <1>4, <2>1, <2>3, FinishInTime
<1>8. ASSUME NEW i \in DOMAIN incidents, NEW x \in Incident,
             incidents' = [incidents EXCEPT ![i] = x],
             x.activatedAt = incidents[i].activatedAt, x.resolvedAt = incidents[i].resolvedAt,
             \/ x.recoveryFirstAt \in {cs.now, NoTime}
             \/ x.recoveryFirstAt = incidents[i].recoveryFirstAt,
             Waits(x) => \/ cs.now < DueTime(x)
                         \/ Waits(incidents[i]) /\ DueTime(x) = DueTime(incidents[i])
      PROVE  InTime' /\ OutageContinuous'
  <2>1. /\ DOMAIN incidents' = DOMAIN incidents /\ incidents'[i] = x
        /\ \A other \in DOMAIN incidents : other # i => incidents'[other] = incidents[other]
    BY <1>1, <1>8, IncidentUpdate
  <2>. QED
    BY <1>1, <1>2, <1>4, <1>8, <2>1, FinishInTime
<1>9. CASE FailureConfirmed
  <2>. DEFINE i == trackers[EvKey].incident
              notify == trackers[EvKey].notify \/ cs.ev.notify
              x == Alerting(incidents[i], notify)
  <2>1. trackers[EvKey].phase = "pending_failure" /\ notify \in BOOLEAN
        /\ incidents' = [incidents EXCEPT ![i] = x]
    BY <1>9 DEF FailureConfirmed, Finish
  <2>. HIDE DEF notify
  <2>2. i \in DOMAIN incidents /\ incidents[i] \in Incident
    BY <1>1, <1>3, <2>1, OpenFacts DEF OpenPhases
  <2>3. /\ x \in Incident /\ x.state = incidents[i].state
        /\ x.startedAt = incidents[i].startedAt /\ x.activatedAt = incidents[i].activatedAt
        /\ x.recoveryFirstAt = incidents[i].recoveryFirstAt
        /\ x.resolvedAt = incidents[i].resolvedAt /\ x.downAfter = incidents[i].downAfter
        /\ x.recoveredAfter = incidents[i].recoveredAfter
    BY <2>1, <2>2, AlertingIncident
  <2>. HIDE DEF x
  <2>4. Waits(x) => Waits(incidents[i]) /\ DueTime(x) = DueTime(incidents[i])
    BY <2>3 DEF Waits, DueTime
  <2>. QED
    BY <1>8, <2>1, <2>2, <2>3, <2>4
<1>10. CASE RecoveryInterrupted \/ RecoveryBegins
  <2>. DEFINE i == trackers[EvKey].incident
  <2>1. trackers[EvKey].phase \in {"active", "pending_recovery"}
    BY <1>10 DEF RecoveryInterrupted, RecoveryBegins, Finish
  <2>2. i \in DOMAIN incidents /\ incidents[i] \in Incident
    BY <1>1, <1>3, <2>1, OpenFacts DEF OpenPhases
  <2>3. PICK p \in States, since \in OptTime :
           /\ incidents' = [incidents EXCEPT ![i] = Recovery(incidents[i], p, since)]
           /\ \/ p = "active" /\ since = NoTime
              \/ p = "pending_recovery" /\ since = cs.now
    BY <1>3, <1>10 DEF RecoveryInterrupted, RecoveryBegins, OptTime, States
  <2>. DEFINE x == Recovery(incidents[i], p, since)
  <2>4. /\ x \in Incident /\ x.state = p /\ x.recoveryFirstAt = since
        /\ x.activatedAt = incidents[i].activatedAt
        /\ x.resolvedAt = incidents[i].resolvedAt
    BY <2>2, <2>3, RecoveryRecord
  <2>. HIDE DEF x
  <2>5. x.recoveredAfter \in Nat \ {0}
    BY <2>4, IncidentTimes
  <2>6. Waits(x) => cs.now < DueTime(x)
    BY <1>3, <2>3, <2>4, <2>5 DEF Waits, DueTime
  <2>7. incidents' = [incidents EXCEPT ![i] = x] /\ x.recoveryFirstAt \in {cs.now, NoTime}
    BY <2>3, <2>4 DEF x
  <2>. QED
    BY <1>8, <2>2, <2>4, <2>6, <2>7
<1>. QED
  BY <1>5, <1>6, <1>7, <1>9, <1>10 DEF UpOverruled, PhaseConfirmed, FirstOnline

-----------------------------------------------------------------------------
(* The alerts of fallbacks, incident by incident.                          *)

Alarmed(f) == f.iface # Primary /\ incidents[f].notify /\ incidents[f].activatedAt # NoTime

(* p is a primary incident of the host of f that was activated.            *)
Shadows(p, f) == p.iface = Primary /\ p.host = f.host /\ incidents[p].activatedAt # NoTime

PairExact(f, p) ==
    LET both == LaterOf(incidents[f].activatedAt, incidents[p].activatedAt)
        e == Escalation(f, p)
    IN  /\ e \in DOMAIN jobs <=> Covers(f, both) /\ Covers(p, both)
        /\ e \in DOMAIN jobs => jobs[e] = both

WarningExact(f) ==
    Job(f, "fallback_opened") \in DOMAIN jobs <=>
        \A p \in DOMAIN incidents : Shadows(p, f) => ~Covers(p, incidents[f].activatedAt)

AllExact ==
    \A f \in DOMAIN incidents : Alarmed(f) =>
        WarningExact(f) /\ \A p \in DOMAIN incidents : Shadows(p, f) => PairExact(f, p)

LEMMA ExactParts == (EscalationExact <=> AllExact) /\ (EscalationExact' <=> AllExact')
<1>1. \A p, at : Covers(p, at) => incidents[p].activatedAt # NoTime
  BY DEF Covers
<1>2. \A p, at : Covers(p, at)' => incidents'[p].activatedAt # NoTime
  BY DEF Covers
<1>3. EscalationExact <=> AllExact
  BY <1>1 DEF EscalationExact, AllExact, Alarmed, Shadows, PairExact, WarningExact
<1>4. EscalationExact' <=> AllExact'
  BY <1>2 DEF EscalationExact, AllExact, Alarmed, Shadows, PairExact, WarningExact
<1>. QED
  BY <1>3, <1>4

(* No job is about an incident before it is activated, and no escalation   *)
(* names a primary incident before that is.                                *)
LEMMA NotYet ==
    ASSUME JobsJustified, NEW i \in DOMAIN incidents, incidents[i].activatedAt = NoTime
    PROVE  /\ \A kind : Job(i, kind) \notin DOMAIN jobs
           /\ \A p : Escalation(i, p) \notin DOMAIN jobs
           /\ i \in IncidentIDs => \A f : Escalation(f, i) \notin DOMAIN jobs
<1>1. \A kind : Job(i, kind).incident = i
  BY DEF Job
<1>2. \A p : Escalation(i, p).incident = i
  BY DEF Escalation
<1>3. \A f : Escalation(f, i).primary = i
  BY DEF Escalation
<1>. QED
  BY <1>1, <1>2, <1>3, NoIncidentIsNone DEF JobsJustified, Justified

(* Different incidents and kinds have different jobs.                      *)
LEMMA JobsDiffer ==
    /\ \A f, p, i, kind : kind # "fallback_escalated" => Escalation(f, p) # Job(i, kind)
    /\ \A f, p, g, q : Escalation(f, p) = Escalation(g, q) => f = g /\ p = q
    /\ \A i, j, kind, sort : Job(i, kind) = Job(j, sort) => i = j /\ kind = sort
<1>1. \A f, p : /\ Escalation(f, p).incident = f /\ Escalation(f, p).primary = p
               /\ Escalation(f, p).kind = "fallback_escalated"
  BY DEF Escalation
<1>2. \A i, kind : Job(i, kind).incident = i /\ Job(i, kind).kind = kind
  BY DEF Job
<1>3. \A f, p, i, kind : kind # "fallback_escalated" => Escalation(f, p) # Job(i, kind)
  BY <1>1, <1>2
<1>4. \A f, p, g, q : Escalation(f, p) = Escalation(g, q) => f = g /\ p = q
  BY <1>1
<1>5. \A i, j, kind, sort : Job(i, kind) = Job(j, sort) => i = j /\ kind = sort
  BY <1>2
<1>. QED
  BY <1>3, <1>4, <1>5

(* A step that leaves the outbox and every activated incident's period     *)
(* and alerting alone.                                                     *)
LEMMA QuietExact ==
    ASSUME EscalationExact, jobs' = jobs,
           \A i \in DOMAIN incidents' : incidents'[i].activatedAt # NoTime =>
               /\ i \in DOMAIN incidents
               /\ incidents'[i].activatedAt = incidents[i].activatedAt
               /\ incidents'[i].resolvedAt = incidents[i].resolvedAt
               /\ incidents'[i].notify = incidents[i].notify,
           \A i \in DOMAIN incidents : incidents[i].activatedAt # NoTime =>
               i \in DOMAIN incidents' /\ incidents'[i].activatedAt = incidents[i].activatedAt
    PROVE  EscalationExact'
<1>1. ASSUME NEW i \in DOMAIN incidents', incidents'[i].activatedAt # NoTime
      PROVE  \A at : Covers(i, at)' <=> Covers(i, at)
  BY <1>1 DEF Covers
<1>2. ASSUME NEW f \in DOMAIN incidents', Alarmed(f)',
             NEW p \in DOMAIN incidents', Shadows(p, f)'
      PROVE  PairExact(f, p)'
  <2>1. f \in DOMAIN incidents /\ Alarmed(f) /\ p \in DOMAIN incidents /\ Shadows(p, f)
    BY <1>2 DEF Alarmed, Shadows
  <2>2. PairExact(f, p)
    BY <2>1, ExactParts DEF AllExact
  <2>. QED
    BY <1>1, <1>2, <2>1, <2>2 DEF PairExact, Alarmed, Shadows
<1>3. ASSUME NEW f \in DOMAIN incidents', Alarmed(f)'
      PROVE  WarningExact(f)'
  <2>1. f \in DOMAIN incidents /\ Alarmed(f) /\ incidents'[f].activatedAt = incidents[f].activatedAt
    BY <1>3 DEF Alarmed
  <2>2. WarningExact(f)
    BY <2>1, ExactParts DEF AllExact
  <2>3. ASSUME NEW p \in DOMAIN incidents', Shadows(p, f)'
        PROVE  p \in DOMAIN incidents /\ Shadows(p, f) /\ \A at : Covers(p, at)' <=> Covers(p, at)
    BY <1>1, <2>3 DEF Shadows
  <2>4. ASSUME NEW p \in DOMAIN incidents, Shadows(p, f)
        PROVE  p \in DOMAIN incidents' /\ Shadows(p, f)'
    BY <2>4 DEF Shadows
  <2>. QED
    BY <2>1, <2>2, <2>3, <2>4 DEF WarningExact
<1>4. AllExact'
  BY <1>2, <1>3 DEF AllExact
<1>. QED
  BY <1>4, ExactParts

(* The end of an observation activates and resolves nothing.               *)
LEMMA ObservedExact ==
    ASSUME OrderInv,
           \/ UpOverruled \/ StartIncident \/ FailureConfirmed \/ RecoveryInterrupted
           \/ PhaseConfirmed \/ FirstOnline \/ FailureCancelled \/ RecoveryBegins
    PROVE  EscalationExact'
<1>1. StateInv /\ EscalationExact
  BY DEF OrderInv, AlertInv
<1>2. jobs' = jobs /\ cs.op = "observe"
  BY DEF UpOverruled, StartIncident, FailureConfirmed, RecoveryInterrupted, PhaseConfirmed,
         FirstOnline, FailureCancelled, RecoveryBegins, Finish
<1>3. EvKey \in Keys /\ cs.ev.at \in Nat
  BY <1>1, <1>2, EvidenceFacts
<1>4. CASE UNCHANGED incidents
  BY <1>1, <1>2, <1>4, QuietExact
<1>5. CASE FailureCancelled
  <2>1. trackers[EvKey].phase = "pending_failure"
    BY <1>5 DEF FailureCancelled, Finish
  <2>2. incidents[trackers[EvKey].incident].activatedAt = NoTime
    BY <1>1, <1>3, <2>1, OpenFacts DEF OpenPhases, StateInv, TimelineWellFormed
  <2>3. /\ DOMAIN incidents' = DOMAIN incidents \ {trackers[EvKey].incident}
        /\ \A i \in DOMAIN incidents' : incidents'[i] = incidents[i]
    BY <1>5 DEF FailureCancelled
  <2>. QED
    BY <1>1, <1>2, <2>2, <2>3, QuietExact
<1>6. CASE StartIncident
  <2>. DEFINE id == [host |-> cs.ev.host, iface |-> cs.ev.iface, at |-> cs.ev.at, msg |-> cs.ev.msg]
  <2>1. /\ DOMAIN incidents' = DOMAIN incidents \cup {id} /\ incidents'[id].activatedAt = NoTime
        /\ \A i \in DOMAIN incidents : i # id => incidents'[i] = incidents[i]
    BY <1>6 DEF StartIncident
  <2>2. id \notin DOMAIN incidents
    <3>1. id.msg = cs.ev.msg
      OBVIOUS
    <3>. QED
      BY <1>1, <1>2, <3>1 DEF StateInv, EvidenceFresh
  <2>. HIDE DEF id
  <2>. QED
    BY <1>1, <1>2, <2>1, <2>2, QuietExact
<1>7. ASSUME NEW i \in DOMAIN incidents, NEW x \in Incident,
             incidents' = [incidents EXCEPT ![i] = x],
             x.activatedAt = incidents[i].activatedAt, x.resolvedAt = incidents[i].resolvedAt,
             x.activatedAt # NoTime => x.notify = incidents[i].notify
      PROVE  EscalationExact'
  <2>1. /\ DOMAIN incidents' = DOMAIN incidents /\ incidents'[i] = x
        /\ \A other \in DOMAIN incidents : other # i => incidents'[other] = incidents[other]
    BY <1>1, <1>7, IncidentUpdate
  <2>. QED
    BY <1>1, <1>2, <1>7, <2>1, QuietExact
<1>8. CASE FailureConfirmed
  <2>. DEFINE i == trackers[EvKey].incident
              notify == trackers[EvKey].notify \/ cs.ev.notify
              x == Alerting(incidents[i], notify)
  <2>1. trackers[EvKey].phase = "pending_failure" /\ notify \in BOOLEAN
        /\ incidents' = [incidents EXCEPT ![i] = x]
    BY <1>8 DEF FailureConfirmed, Finish
  <2>. HIDE DEF notify
  <2>2. i \in DOMAIN incidents /\ incidents[i] \in Incident /\ incidents[i].activatedAt = NoTime
    BY <1>1, <1>3, <2>1, OpenFacts DEF OpenPhases, StateInv, TimelineWellFormed
  <2>3. /\ x \in Incident /\ x.activatedAt = incidents[i].activatedAt
        /\ x.resolvedAt = incidents[i].resolvedAt
    BY <2>1, <2>2, AlertingIncident
  <2>. HIDE DEF x
  <2>. QED
    BY <1>7, <2>1, <2>2, <2>3
<1>9. CASE RecoveryInterrupted \/ RecoveryBegins
  <2>. DEFINE i == trackers[EvKey].incident
  <2>1. trackers[EvKey].phase \in {"active", "pending_recovery"}
    BY <1>9 DEF RecoveryInterrupted, RecoveryBegins, Finish
  <2>2. i \in DOMAIN incidents /\ incidents[i] \in Incident
    BY <1>1, <1>3, <2>1, OpenFacts DEF OpenPhases
  <2>3. PICK p \in States, since \in OptTime :
           incidents' = [incidents EXCEPT ![i] = Recovery(incidents[i], p, since)]
    BY <1>3, <1>9 DEF RecoveryInterrupted, RecoveryBegins, OptTime, States
  <2>. DEFINE x == Recovery(incidents[i], p, since)
  <2>4. /\ x \in Incident /\ x.activatedAt = incidents[i].activatedAt
        /\ x.resolvedAt = incidents[i].resolvedAt /\ x.notify = incidents[i].notify
    BY <2>2, RecoveryRecord
  <2>5. incidents' = [incidents EXCEPT ![i] = x]
    BY <2>3
  <2>. HIDE DEF x
  <2>. QED
    BY <1>7, <2>2, <2>4, <2>5
<1>. QED
  BY <1>4, <1>5, <1>6, <1>8, <1>9 DEF UpOverruled, PhaseConfirmed, FirstOnline

(* A resolution comes after every activation so far, so it takes no outage *)
(* out of an overlap.                                                      *)
LEMMA ResolveExact ==
    ASSUME OrderInv, NEW k \in Keys, Resolve(k)
    PROVE  EscalationExact'
<1>1. StateInv /\ EscalationExact /\ Passed
  BY DEF OrderInv, AlertInv, InTime
<1>2. Pending(k) /\ trackers[k].phase = "pending_recovery"
  BY DEF Resolve, NextDue, Due
<1>3. PICK i \in DOMAIN incidents, at \in Nat :
         i = trackers[k].incident /\ at = DueAt(k) /\ incidents[i] \in Incident
  BY <1>1, <1>2, PendingIsDue
<1>4. /\ incidents[i].state = "pending_recovery" /\ incidents[i].resolvedAt = NoTime
      /\ DueTime(incidents[i]) = at /\ Waits(incidents[i]) /\ i \in IncidentIDs
  BY <1>1, <1>2, <1>3, OpenFacts, PendingIsDue DEF OpenPhases, StateInv, TimelineWellFormed,
     DueTime, Waits, TypeOK
<1>5. PICK x \in Incident : x = Resolved(incidents[i], at)
  BY <1>3, ResolvedRecord
<1>6. /\ x.activatedAt = incidents[i].activatedAt /\ x.resolvedAt = at
      /\ x.notify = incidents[i].notify
  BY <1>3, <1>5, ResolvedRecord
<1>7. PICK ids :
         /\ ids = IF incidents[i].notify THEN {Job(i, ResolvedKind(k[2]))} ELSE {}
         /\ incidents' = [incidents EXCEPT ![i] = x] /\ jobs' = Enqueue(ids, at)
  BY <1>3, <1>5 DEF Resolve
<1>8. /\ DOMAIN incidents' = DOMAIN incidents /\ incidents'[i] = x
      /\ \A other \in DOMAIN incidents : other # i => incidents'[other] = incidents[other]
  BY <1>1, <1>3, <1>7, IncidentUpdate
<1>9. /\ DOMAIN jobs' = DOMAIN jobs \cup ids
      /\ \A j \in DOMAIN jobs : jobs'[j] = jobs[j]
  BY <1>7 DEF Enqueue
<1>10. /\ \A f, p : Escalation(f, p) \notin ids
       /\ \A f : Job(f, "fallback_opened") \notin ids
  BY <1>7, JobsDiffer DEF ResolvedKind
<1>11. \A j \in DOMAIN incidents : incidents'[j].activatedAt = incidents[j].activatedAt
                                     /\ incidents'[j].notify = incidents[j].notify
  BY <1>6, <1>8
<1>12. ASSUME NEW p \in DOMAIN incidents, NEW j \in DOMAIN incidents
       PROVE  Covers(p, incidents[j].activatedAt)' <=> Covers(p, incidents[j].activatedAt)
  <2>1. incidents[j].activatedAt < at
    BY <1>1, <1>3, <1>4 DEF Passed
  <2>2. CASE p # i
    BY <1>8, <1>11, <2>2 DEF Covers
  <2>3. CASE p = i
    <3>1. Covers(p, incidents[j].activatedAt) <=>
             x.activatedAt # NoTime /\ x.activatedAt <= incidents[j].activatedAt
      BY <1>4, <1>6, <2>3 DEF Covers
    <3>2. Covers(p, incidents[j].activatedAt)' <=>
             x.activatedAt # NoTime /\ x.activatedAt <= incidents[j].activatedAt
      BY <1>6, <1>8, <1>11, <2>1, <2>3 DEF Covers
    <3>. QED
      BY <3>1, <3>2
  <2>. QED
    BY <2>2, <2>3
<1>13. ASSUME NEW f \in DOMAIN incidents', Alarmed(f)',
              NEW p \in DOMAIN incidents', Shadows(p, f)'
       PROVE  PairExact(f, p)'
  <2>1. f \in DOMAIN incidents /\ Alarmed(f) /\ p \in DOMAIN incidents /\ Shadows(p, f)
    BY <1>8, <1>11, <1>13 DEF Alarmed, Shadows
  <2>2. PairExact(f, p)
    BY <1>1, <2>1, ExactParts DEF AllExact
  <2>3. PICK j \in DOMAIN incidents :
           LaterOf(incidents[f].activatedAt, incidents[p].activatedAt) = incidents[j].activatedAt
    BY <2>1 DEF LaterOf
  <2>4. LaterOf(incidents'[f].activatedAt, incidents'[p].activatedAt) = incidents[j].activatedAt
    BY <1>11, <2>1, <2>3
  <2>. QED
    BY <1>9, <1>10, <1>11, <1>12, <2>1, <2>2, <2>3, <2>4 DEF PairExact
<1>14. ASSUME NEW f \in DOMAIN incidents', Alarmed(f)'
       PROVE  WarningExact(f)'
  <2>1. f \in DOMAIN incidents /\ Alarmed(f)
    BY <1>8, <1>11, <1>14 DEF Alarmed
  <2>2. WarningExact(f)
    BY <1>1, <2>1, ExactParts DEF AllExact
  <2>3. \A p \in DOMAIN incidents : Shadows(p, f)' <=> Shadows(p, f)
    BY <1>11 DEF Shadows
  <2>. QED
    BY <1>8, <1>9, <1>10, <1>11, <1>12, <2>1, <2>2, <2>3 DEF WarningExact
<1>15. AllExact'
  BY <1>13, <1>14 DEF AllExact
<1>. QED
  BY <1>15, ExactParts

(* A primary incident is activated after all fallbacks so far: those that  *)
(* are down then are escalated, and none of the warnings was wrong.        *)
LEMMA ActivatePrimaryExact ==
    ASSUME OrderInv, NEW k \in Keys, ActivatePrimary(k)
    PROVE  EscalationExact'
<1>1. StateInv /\ EscalationExact /\ Passed /\ JobsJustified
  BY DEF OrderInv, AlertInv, InTime
<1>2. Due(k, cs.now) /\ trackers[k].phase = "pending_failure" /\ k[2] = Primary
  BY DEF ActivatePrimary, NextDue
<1>3. PICK i \in DOMAIN incidents, x \in Incident, at \in Nat :
         /\ i = trackers[k].incident /\ at = DueAt(k)
         /\ x = Activated(incidents[i], at, trackers[k].notify)
  BY <1>1, <1>2, ActivationFacts
<1>4. /\ i \in IncidentIDs /\ i.iface = Primary /\ incidents[i] \in Incident
      /\ incidents[i].state = "pending_failure" /\ incidents[i].activatedAt = NoTime
      /\ x.activatedAt = at /\ at # NoTime /\ incidents[i].resolvedAt = NoTime
  BY <1>1, <1>2, <1>3, ActivationFacts DEF StateInv, TimelineWellFormed
<1>5. x.resolvedAt = NoTime /\ DueTime(incidents[i]) = at /\ Waits(incidents[i])
  <2>1. trackers[k].notify \in BOOLEAN
    BY <1>1 DEF StateInv, TypeOK, Tracker
  <2>2. DueAt(k) = incidents[i].startedAt + incidents[i].downAfter
    BY <1>1, <1>2, <1>3, PendingIsDue DEF Due
  <2>. QED
    BY <1>3, <1>4, <2>1, <2>2, ActivatedRecord DEF DueTime, Waits
<1>6. PICK ids :
         /\ ids = (IF trackers[k].notify THEN {Job(i, "opened")} ELSE {})
                     \cup {Escalation(f, i) : f \in EscalatedBy(i)}
         /\ incidents' = [incidents EXCEPT ![i] = x] /\ jobs' = Enqueue(ids, at)
  BY <1>3 DEF ActivatePrimary
<1>7. /\ DOMAIN incidents' = DOMAIN incidents /\ incidents'[i] = x
      /\ \A other \in DOMAIN incidents : other # i => incidents'[other] = incidents[other]
      /\ \A other \in DOMAIN incidents : incidents[other] \in Incident
  BY <1>1, <1>3, <1>6, IncidentUpdate DEF StateInv, TypeOK
<1>8. /\ DOMAIN jobs' = DOMAIN jobs \cup ids
      /\ \A j \in DOMAIN jobs' : jobs'[j] = IF j \in DOMAIN jobs THEN jobs[j] ELSE at
  BY <1>6 DEF Enqueue
<1>9. ASSUME NEW f, NEW p, p # i PROVE Escalation(f, p) \notin ids
  BY <1>6, <1>9, JobsDiffer
<1>10. ASSUME NEW f PROVE Job(f, "fallback_opened") \notin ids
  BY <1>6, JobsDiffer
<1>11. ASSUME NEW f PROVE Escalation(f, i) \in ids <=> f \in EscalatedBy(i)
  BY <1>6, JobsDiffer
<1>12. ASSUME NEW f \in DOMAIN incidents', Alarmed(f)'
       PROVE  /\ f \in DOMAIN incidents /\ Alarmed(f) /\ f # i
              /\ incidents'[f] = incidents[f] /\ incidents[f].activatedAt < at
  <2>1. f # i /\ f \in DOMAIN incidents /\ incidents'[f] = incidents[f] /\ Alarmed(f)
    BY <1>4, <1>7, <1>12 DEF Alarmed
  <2>2. incidents[f].activatedAt < at
    BY <1>1, <1>4, <1>5, <1>12, <2>1 DEF Passed, Alarmed
  <2>. QED
    BY <2>1, <2>2
<1>13. ASSUME NEW f \in DOMAIN incidents', Alarmed(f)',
              NEW p \in DOMAIN incidents', Shadows(p, f)'
       PROVE  PairExact(f, p)'
  <2>1. CASE p # i
    <3>1. incidents'[p] = incidents[p] /\ p \in DOMAIN incidents /\ Shadows(p, f)
      BY <1>7, <1>13, <2>1 DEF Shadows
    <3>2. PairExact(f, p)
      BY <1>1, <1>12, <1>13, <3>1, ExactParts DEF AllExact
    <3>3. \A t : (Covers(f, t)' <=> Covers(f, t)) /\ (Covers(p, t)' <=> Covers(p, t))
      BY <1>12, <1>13, <3>1 DEF Covers
    <3>4. Escalation(f, p) \in DOMAIN jobs' <=> Escalation(f, p) \in DOMAIN jobs
      BY <1>8, <1>9, <2>1
    <3>5. LaterOf(incidents'[f].activatedAt, incidents'[p].activatedAt)
             = LaterOf(incidents[f].activatedAt, incidents[p].activatedAt)
      BY <1>12, <1>13, <3>1
    <3>. QED
      BY <1>8, <3>2, <3>3, <3>4, <3>5 DEF PairExact
  <2>2. CASE p = i
    <3>1. /\ f \in DOMAIN incidents /\ Alarmed(f) /\ incidents'[f] = incidents[f]
          /\ incidents[f].activatedAt < at /\ incidents[f] \in Incident
      BY <1>7, <1>12, <1>13
    <3>2. LaterOf(incidents'[f].activatedAt, incidents'[p].activatedAt) = at
      BY <1>4, <1>7, <2>2, <3>1 DEF LaterOf
    <3>3. Covers(p, at)'
      BY <1>4, <1>5, <1>7, <2>2 DEF Covers
    <3>4. Covers(f, at)' <=> incidents[f].state \in {"active", "pending_recovery"}
      <4>1. incidents[f].resolvedAt <= at
        BY <1>1, <1>3, <1>5, <3>1 DEF Passed
      <4>2. incidents[f].resolvedAt = NoTime <=> incidents[f].state # "resolved"
        BY <3>1 DEF StateInv, TimelineWellFormed, Incident, OptTime, NoTime, OrderInv, AlertInv
      <4>3. incidents[f].state # "pending_failure"
        BY <1>1, <3>1 DEF StateInv, TimelineWellFormed, Alarmed
      <4>4. incidents[f].state \in States /\ incidents[f].resolvedAt \in Int
            /\ incidents[f].activatedAt \in Int
        BY <3>1, IncidentTimes DEF Incident
      <4>5. Covers(f, at)' <=> incidents[f].resolvedAt = NoTime
        BY <3>1, <4>1, <4>4 DEF Covers, Alarmed
      <4>. QED
        BY <4>2, <4>3, <4>4, <4>5 DEF States
    <3>5. f \in EscalatedBy(i) <=> incidents[f].state \in {"active", "pending_recovery"}
      BY <1>13, <2>2, <3>1 DEF EscalatedBy, Alarmed, Shadows
    <3>6. Escalation(f, i) \notin DOMAIN jobs
      BY <1>1, <1>4, NotYet
    <3>7. Escalation(f, i) \in DOMAIN jobs' <=> f \in EscalatedBy(i)
      BY <1>8, <1>11, <3>6
    <3>8. Escalation(f, i) \in DOMAIN jobs' => jobs'[Escalation(f, i)] = at
      BY <1>8, <3>6
    <3>. QED
      BY <2>2, <3>2, <3>3, <3>4, <3>5, <3>7, <3>8 DEF PairExact
  <2>. QED
    BY <2>1, <2>2
<1>14. ASSUME NEW f \in DOMAIN incidents', Alarmed(f)'
       PROVE  WarningExact(f)'
  <2>1. WarningExact(f)
    BY <1>1, <1>12, <1>14, ExactParts DEF AllExact
  <2>2. Job(f, "fallback_opened") \in DOMAIN jobs' <=> Job(f, "fallback_opened") \in DOMAIN jobs
    BY <1>8, <1>10
  <2>3. incidents'[f] = incidents[f] /\ incidents[f].activatedAt < at
        /\ incidents[f].activatedAt \in Int
    BY <1>7, <1>12, <1>14, IncidentTimes
  <2>4. ~Covers(i, incidents[f].activatedAt)'
    BY <1>4, <1>7, <2>3 DEF Covers
  <2>5. ~Shadows(i, f)
    BY <1>4 DEF Shadows
  <2>6. ASSUME NEW p \in DOMAIN incidents, p # i
        PROVE  /\ Shadows(p, f)' <=> Shadows(p, f)
               /\ Covers(p, incidents[f].activatedAt)' <=> Covers(p, incidents[f].activatedAt)
    BY <1>7, <2>3, <2>6 DEF Shadows, Covers
  <2>. QED
    BY <1>7, <2>1, <2>2, <2>3, <2>4, <2>5, <2>6 DEF WarningExact
<1>15. AllExact'
  BY <1>13, <1>14 DEF AllExact
<1>. QED
  BY <1>15, ExactParts

(* A host has one primary incident that is not resolved, so after all      *)
(* resolutions so far at most one is down.                                 *)
LEMMA OnePrimaryDown ==
    ASSUME StateInv, NEW host, NEW at \in Nat,
           \A i \in DOMAIN incidents : incidents[i].resolvedAt <= at,
           NEW p \in PrimariesDownAt(host, at), NEW q \in PrimariesDownAt(host, at)
    PROVE  p = q
<1>1. ASSUME NEW i \in PrimariesDownAt(host, at)
      PROVE  i = trackers[<<host, Primary>>].incident
  <2>1. i \in DOMAIN incidents /\ i.host = host /\ i.iface = Primary /\ incidents[i] \in Incident
    BY DEF PrimariesDownAt, StateInv, TypeOK
  <2>2. incidents[i].resolvedAt \in Int /\ incidents[i].resolvedAt <= at
    BY <2>1, IncidentTimes
  <2>3. incidents[i].resolvedAt = NoTime
    BY <2>2 DEF PrimariesDownAt
  <2>4. incidents[i].state # "resolved"
    BY <2>1, <2>3 DEF StateInv, TimelineWellFormed, Incident, OptTime, NoTime
  <2>. QED
    BY <2>1, <2>4 DEF StateInv, TrackersAgree
<1>. QED
  BY <1>1

(* A fallback is activated after all primaries so far, with an escalation  *)
(* for the one that is down or else with a warning.                        *)
LEMMA ActivateFallbackExact ==
    ASSUME OrderInv, NEW k \in Keys, ActivateFallback(k)
    PROVE  EscalationExact'
<1>1. StateInv /\ EscalationExact /\ Passed /\ JobsJustified
  BY DEF OrderInv, AlertInv, InTime
<1>2. Due(k, cs.now) /\ trackers[k].phase = "pending_failure" /\ k[2] # Primary
  BY DEF ActivateFallback, NextDue
<1>3. PICK i \in DOMAIN incidents, x \in Incident, at \in Nat :
         /\ i = trackers[k].incident /\ at = DueAt(k)
         /\ x = Activated(incidents[i], at, trackers[k].notify)
  BY <1>1, <1>2, ActivationFacts
<1>4. /\ i \in IncidentIDs /\ i.iface # Primary /\ incidents[i] \in Incident
      /\ incidents[i].state = "pending_failure" /\ incidents[i].activatedAt = NoTime
      /\ x.activatedAt = at /\ at # NoTime /\ x.notify = trackers[k].notify
  BY <1>1, <1>2, <1>3, ActivationFacts
<1>5. x.resolvedAt = NoTime /\ DueTime(incidents[i]) = at /\ Waits(incidents[i])
  <2>1. trackers[k].notify \in BOOLEAN
    BY <1>1 DEF StateInv, TypeOK, Tracker
  <2>2. DueAt(k) = incidents[i].startedAt + incidents[i].downAfter
    BY <1>1, <1>2, <1>3, PendingIsDue DEF Due
  <2>3. incidents[i].resolvedAt = NoTime
    BY <1>1, <1>4 DEF StateInv, TimelineWellFormed
  <2>. QED
    BY <1>3, <1>4, <2>1, <2>2, <2>3, ActivatedRecord DEF DueTime, Waits
<1>6. incidents' = [incidents EXCEPT ![i] = x]
  BY <1>3 DEF ActivateFallback
<1>7. /\ DOMAIN incidents' = DOMAIN incidents /\ incidents'[i] = x
      /\ \A other \in DOMAIN incidents : other # i => incidents'[other] = incidents[other]
      /\ \A other \in DOMAIN incidents : incidents[other] \in Incident
  BY <1>1, <1>3, <1>6, IncidentUpdate DEF StateInv, TypeOK
<1>8. PICK ids :
         /\ DOMAIN jobs' = DOMAIN jobs \cup ids
         /\ \A j \in DOMAIN jobs' : jobs'[j] = IF j \in DOMAIN jobs THEN jobs[j] ELSE at
         /\ IF x.notify THEN \E j \in FallbackOpening(i, at) : ids = {j} ELSE ids = {}
  <2>1. CASE x.notify
    <3>1. PICK j \in FallbackOpening(i, at) : jobs' = Enqueue({j}, at)
      BY <1>3, <1>4, <2>1 DEF ActivateFallback
    <3>. QED
      BY <2>1, <3>1 DEF Enqueue
  <2>2. CASE ~x.notify
    <3>1. jobs' = jobs
      BY <1>4, <2>2 DEF ActivateFallback
    <3>. QED
      BY <2>2, <3>1
  <2>. QED
    BY <2>1, <2>2
<1>9. ASSUME NEW j \in ids PROVE j.incident = i
  <2>1. j \in FallbackOpening(i, at)
    BY <1>8
  <2>2. \A p : Escalation(i, p).incident = i
    BY DEF Escalation
  <2>3. \A kind : Job(i, kind).incident = i
    BY DEF Job
  <2>. QED
    BY <2>1, <2>2, <2>3 DEF FallbackOpening
<1>10. \A j \in DOMAIN incidents : incidents[j].activatedAt <= at /\ incidents[j].resolvedAt <= at
  BY <1>1, <1>3, <1>5 DEF Passed
<1>11. ASSUME NEW f \in DOMAIN incidents', Alarmed(f)', f # i
       PROVE  WarningExact(f)' /\ \A p \in DOMAIN incidents' : Shadows(p, f)' => PairExact(f, p)'
  <2>1. incidents'[f] = incidents[f] /\ f \in DOMAIN incidents /\ Alarmed(f)
    BY <1>7, <1>11 DEF Alarmed
  <2>2. WarningExact(f) /\ \A p \in DOMAIN incidents : Shadows(p, f) => PairExact(f, p)
    BY <1>1, <2>1, ExactParts DEF AllExact
  <2>3. ASSUME NEW j, j.incident = f PROVE j \in DOMAIN jobs' <=> j \in DOMAIN jobs
    BY <1>8, <1>9, <1>11, <2>3
  <2>4. /\ Job(f, "fallback_opened") \in DOMAIN jobs' <=> Job(f, "fallback_opened") \in DOMAIN jobs
        /\ \A p : Escalation(f, p) \in DOMAIN jobs' <=> Escalation(f, p) \in DOMAIN jobs
    <3>1. Job(f, "fallback_opened").incident = f
      BY DEF Job
    <3>2. \A p : Escalation(f, p).incident = f
      BY DEF Escalation
    <3>. QED
      BY <2>3, <3>1, <3>2
  <2>5. ASSUME NEW p \in DOMAIN incidents', Shadows(p, f)' \/ Shadows(p, f)
        PROVE  incidents'[p] = incidents[p] /\ (Shadows(p, f)' <=> Shadows(p, f))
    BY <1>4, <1>7, <2>5 DEF Shadows
  <2>6. ASSUME NEW p \in DOMAIN incidents', Shadows(p, f)'
        PROVE  PairExact(f, p)'
    <3>1. incidents'[p] = incidents[p] /\ PairExact(f, p)
      BY <1>7, <2>2, <2>5, <2>6
    <3>2. \A t : (Covers(f, t)' <=> Covers(f, t)) /\ (Covers(p, t)' <=> Covers(p, t))
      BY <2>1, <3>1 DEF Covers
    <3>. QED
      BY <1>8, <2>1, <2>4, <3>1, <3>2 DEF PairExact
  <2>7. WarningExact(f)'
    <3>1. ASSUME NEW p \in DOMAIN incidents, Shadows(p, f)
          PROVE  Covers(p, incidents[f].activatedAt)' <=> Covers(p, incidents[f].activatedAt)
      BY <1>7, <2>1, <2>5, <3>1 DEF Covers
    <3>. QED
      BY <1>7, <2>1, <2>2, <2>4, <2>5, <3>1 DEF WarningExact
  <2>. QED
    BY <2>6, <2>7
<1>12. ASSUME Alarmed(i)'
       PROVE  WarningExact(i)' /\ \A p \in DOMAIN incidents' : Shadows(p, i)' => PairExact(i, p)'
  <2>1. x.notify
    BY <1>7, <1>12 DEF Alarmed
  <2>2. PICK j \in FallbackOpening(i, at) : ids = {j}
    BY <1>8, <2>1
  <2>. DEFINE down == PrimariesDownAt(i.host, at)
  <2>3. /\ Job(i, "fallback_opened") \in DOMAIN jobs' <=> j = Job(i, "fallback_opened")
        /\ \A p : Escalation(i, p) \in DOMAIN jobs' <=> j = Escalation(i, p)
        /\ jobs'[j] = at
    <3>1. Job(i, "fallback_opened") \notin DOMAIN jobs /\ \A p : Escalation(i, p) \notin DOMAIN jobs
      BY <1>1, <1>3, <1>4, NotYet
    <3>2. j \notin DOMAIN jobs
      BY <3>1 DEF FallbackOpening
    <3>. QED
      BY <1>8, <2>2, <3>1, <3>2
  <2>4. ASSUME NEW p \in DOMAIN incidents', Shadows(p, i)'
        PROVE  /\ p \in DOMAIN incidents /\ incidents'[p] = incidents[p] /\ p # i
               /\ Covers(p, at)' <=> p \in down
               /\ LaterOf(incidents'[i].activatedAt, incidents'[p].activatedAt) = at
    <3>1. p \in DOMAIN incidents /\ incidents'[p] = incidents[p] /\ p # i
      BY <1>4, <1>7, <2>4 DEF Shadows
    <3>2. incidents[p].activatedAt \in Int /\ incidents[p].activatedAt <= at
      BY <1>7, <1>10, <3>1, IncidentTimes
    <3>3. LaterOf(incidents'[i].activatedAt, incidents'[p].activatedAt) = at
      BY <1>4, <1>7, <3>1, <3>2 DEF LaterOf
    <3>4. Covers(p, at)' <=> p \in down
      BY <2>4, <3>1 DEF Covers, PrimariesDownAt, Shadows
    <3>. QED
      BY <3>1, <3>3, <3>4
  <2>5. ASSUME NEW p \in down PROVE p \in DOMAIN incidents' /\ Shadows(p, i)'
    BY <1>4, <1>7 DEF PrimariesDownAt, Shadows
  <2>6. \A p, q \in down : p = q
    BY <1>1, <1>10, OnePrimaryDown
  <2>7. IF down = {} THEN j = Job(i, "fallback_opened")
        ELSE \E p \in down : j = Escalation(i, p)
    BY DEF FallbackOpening
  <2>8. Covers(i, at)'
    BY <1>4, <1>5, <1>7 DEF Covers
  <2>. HIDE DEF down
  <2>9. ASSUME NEW p \in DOMAIN incidents', Shadows(p, i)'
        PROVE  PairExact(i, p)'
    <3>1. j = Escalation(i, p) <=> p \in down
      BY <2>6, <2>7, JobsDiffer
    <3>2. Escalation(i, p) \in DOMAIN jobs' <=> Covers(i, at)' /\ Covers(p, at)'
      BY <2>3, <2>4, <2>8, <2>9, <3>1
    <3>3. Escalation(i, p) \in DOMAIN jobs' => jobs'[Escalation(i, p)] = at
      BY <2>3
    <3>. QED
      BY <2>4, <2>9, <3>2, <3>3 DEF PairExact
  <2>10. WarningExact(i)'
    <3>1. j = Job(i, "fallback_opened") <=> down = {}
      BY <2>7, JobsDiffer
    <3>2. down = {} <=> \A p \in DOMAIN incidents' : Shadows(p, i)' => ~Covers(p, at)'
      BY <2>4, <2>5
    <3>3. incidents'[i].activatedAt = at
      BY <1>4, <1>7
    <3>. QED
      BY <2>3, <3>1, <3>2, <3>3 DEF WarningExact
  <2>. QED
    BY <2>9, <2>10
<1>13. AllExact'
  BY <1>11, <1>12 DEF AllExact
<1>. QED
  BY <1>13, ExactParts

-----------------------------------------------------------------------------
(* Every step keeps the order if evidence and ticks arrive in order.       *)
LEMMA OrderNext ==
    ASSUME InOrder, OrderInv, [Next]_vars
    PROVE  OrderInv'
<1>1. AlertInv' /\ JobsJustified'
  BY NextAlerts, JobsKept DEF OrderInv, AlertInv, AlertsKept
<1>2. StateInv /\ InTime /\ OutageContinuous /\ EscalationExact
  BY DEF OrderInv, AlertInv
<1>3. CASE UNCHANGED <<incidents, jobs>> /\ frontier' \in Nat /\ frontier <= frontier'
           /\ (cs' # Idle => cs'.now = frontier')
  <2>1. InTime' /\ OutageContinuous'
    BY <1>3, QuietInTime
  <2>2. EscalationExact'
    BY <1>2, <1>3, QuietExact
  <2>. QED
    BY <1>1, <2>1, <2>2 DEF OrderInv
<1>4. CASE \E k \in Keys : ActivatePrimary(k) \/ ActivateFallback(k) \/ Resolve(k)
  <2>1. PICK k \in Keys : ActivatePrimary(k) \/ ActivateFallback(k) \/ Resolve(k)
    BY <1>4
  <2>2. EscalationExact'
    BY <2>1, ActivatePrimaryExact, ActivateFallbackExact, ResolveExact
  <2>3. CASE Resolve(k)
    BY <1>1, <1>2, <2>2, <2>3, ResolutionInTime DEF OrderInv
  <2>4. CASE ActivatePrimary(k) \/ ActivateFallback(k)
    <3>1. InTime' /\ OutageContinuous'
      BY <1>2, <2>4, ActivationInTime DEF ActivatePrimary, ActivateFallback
    <3>. QED
      BY <1>1, <2>2, <3>1 DEF OrderInv
  <2>. QED
    BY <2>1, <2>3, <2>4
<1>5. CASE \/ UpOverruled \/ StartIncident \/ FailureConfirmed \/ RecoveryInterrupted
           \/ PhaseConfirmed \/ FirstOnline \/ FailureCancelled \/ RecoveryBegins
  BY <1>1, <1>5, ObservedInTime, ObservedExact DEF OrderInv
<1>6. cs' = cs => (cs' # Idle => cs'.now = frontier)
  BY <1>2 DEF InTime
<1>7. frontier \in Nat
  BY <1>2 DEF StateInv, TypeOK
<1>8. CASE FinishTick \/ UNCHANGED vars \/ \E c \in Configs : Restart(c)
  BY <1>3, <1>6, <1>7, <1>8 DEF FinishTick, vars, Restart
<1>9. ASSUME NEW id, NEW m, NEW at \in 0 .. MaxTime,
             \/ ObserveIgnored(m, at, id) \/ ObserveSelection(m, at, id)
             \/ \E notify \in BOOLEAN : BeginObserve(m, at, id, notify)
      PROVE  OrderInv'
  <2>1. at \in Nat /\ at >= frontier /\ cs = Idle
    <3>1. Receive(id, at)
      BY <1>9 DEF ObserveIgnored, ObserveSelection, BeginObserve
    <3>. QED
      BY <3>1 DEF Receive
  <2>2. CASE ObserveIgnored(m, at, id)
    BY <1>3, <1>6, <1>7, <2>2 DEF ObserveIgnored
  <2>3. CASE ObserveSelection(m, at, id)
    BY <1>3, <1>7, <2>1, <2>3 DEF ObserveSelection, Reach, LaterOf
  <2>4. CASE \E notify \in BOOLEAN : BeginObserve(m, at, id, notify)
    BY <1>3, <1>7, <2>1, <2>4 DEF BeginObserve, Reach, LaterOf
  <2>. QED
    BY <1>9, <2>2, <2>3, <2>4
<1>10. ASSUME NEW now \in 0 .. MaxTime, BeginTick(now) PROVE OrderInv'
  <2>1. now \in Nat /\ now >= frontier
    BY <1>10 DEF BeginTick
  <2>. QED
    BY <1>3, <1>7, <1>10, <2>1 DEF BeginTick, Reach, LaterOf
<1>. QED
  BY <1>4, <1>5, <1>8, <1>9, <1>10 DEF Next, Locked

LEMMA OrderAlways ==
    ASSUME InOrder
    PROVE  Spec => []OrderInv
<1>1. Init => OrderInv
  <2>. SUFFICES ASSUME Init PROVE OrderInv
    OBVIOUS
  <2>1. InTime /\ OutageContinuous /\ EscalationExact
    BY DEF Init, InTime, Passed, OutageContinuous, EscalationExact
  <2>. QED
    BY <2>1, InitAlerts DEF OrderInv
<1>2. OrderInv /\ [Next]_vars => OrderInv'
  BY OrderNext
<1>. QED
  BY <1>1, <1>2, PTL DEF Spec

(* If evidence and ticks arrive in the order of their times, the fallback  *)
(* alerts are exactly those the overlaps of the outages call for, although *)
(* nextDueTrackerLocked and primaryDownAtLocked decide them one activation *)
(* at a time.                                                              *)
THEOREM EscalationsExact ==
    ASSUME InOrder
    PROVE  Spec => []EscalationExact
<1>1. OrderInv => EscalationExact
  BY DEF OrderInv
<1>. QED
  BY <1>1, OrderAlways, PTL

(* If evidence and ticks arrive in the order of their times, an incident   *)
(* is activated only by a period without a report of its recovery.         *)
THEOREM OutagesContinuous ==
    ASSUME InOrder
    PROVE  Spec => []OutageContinuous
<1>1. OrderInv => OutageContinuous
  BY DEF OrderInv
<1>. QED
  BY <1>1, OrderAlways, PTL
=============================================================================
