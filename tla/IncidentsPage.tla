---------------------------- MODULE IncidentsPage ----------------------------
(***************************************************************************)
(* The incidents as the page shows them, frontend/src/App.tsx: the page    *)
(* polls four resources of internal/api/router.go in parallel, the lists   *)
(* of pending, active and resolved incidents and the health of the worker, *)
(* and fills its summary and its incident tables when all have answered.   *)
(* Meanwhile incidents move on and their notifications are delivered.      *)
(*                                                                         *)
(* The server is the sequence of its states since the page was opened.     *)
(* Each request of a poll is handled at a moment of its own between the    *)
(* start of the poll and its end; which one, is chosen when the poll       *)
(* ends.  A slot is a call of refreshIncidents under way: polls have no    *)
(* timeout, so that one may still wait when the interval starts the next.  *)
(*                                                                         *)
(* Incidents are numbered in the order in which they started; a list is    *)
(* the set of its rows, since its order is that of the numbers.  What      *)
(* incidents do is that part of IncidentEngine which the page can see.     *)
(* The wording of labels, evidence and times are left out.                 *)
(***************************************************************************)
EXTENDS Naturals, FiniteSets, Sequences

CONSTANTS
    MaxIncidents, \* bound: number of incidents
    Limit,        \* the limit that listIncidents asks for
    MaxPolls,     \* bound: polls under way at a time
    MaxMoves,     \* bound: changes of incidents, deliveries and health
    MaxFailures   \* bound: failing polls

ASSUME PageAssumption ==
    MaxIncidents \in Nat /\ Limit \in Nat \ {0} /\ MaxPolls \in Nat \ {0, 1}

VARIABLES
    history,   \* the states of the server, the present one last
    poll,      \* slot -> idle, running, or aborted
    since,     \* slot -> length of the history when its poll began
    rows,      \* the page: list -> rows
    status,    \* the page: health of the worker
    loadError, \* the page: incidentLoadError is set
    window,    \* history: the moments of the poll that filled the page
    failures   \* failures so far

pageVars == <<rows, status, loadError, window>>

vars == <<history, poll, since, pageVars, failures>>

-----------------------------------------------------------------------------
Incidents == 1 .. MaxIncidents

Slots == 1 .. MaxPolls

States == {"none", "pending_failure", "active", "pending_recovery", "resolved", "gone"}

Lists == {"pending_failure", "active", "resolved"}

Jobs == {"none", "pending", "failed", "sent"}

(* Health: the analysis runs, or it has failed, is stale or has stopped.   *)
Reports == {"healthy", "unhealthy"}

(* Per incident its state, "none" before it exists and "gone" after it was *)
(* cancelled, and its notifications; and what the worker reports.          *)
Server == [state : [Incidents -> States], opened : [Incidents -> Jobs],
           resolved : [Incidents -> Jobs], health : Reports]

Now == history[Len(history)]

(* Mutant: a recovery that is being confirmed is in no list.               *)
ListedStrictly(list) == {list}

(* handleIncidents: the states that a list asks for.                       *)
ListedStates(list) == IF list = "active" THEN {"active", "pending_recovery"} ELSE {list}

(* The newest incidents of a list, as many as the limit allows.            *)
Page(list, server) ==
    LET listed == {i \in Incidents : server.state[i] \in ListedStates(list)}
    IN  {i \in listed : Cardinality({j \in listed : j > i}) < Limit}

Labels == {"none", "pending", "failed", "delivered"}

(* deliveryLabel, of NotificationsFor the incident.                        *)
Label(i, server) ==
    LET jobs == {server.opened[i], server.resolved[i]}
    IN  IF "failed" \in jobs THEN "failed" ELSE IF "pending" \in jobs THEN "pending"
        ELSE IF "sent" \in jobs THEN "delivered" ELSE "none"

Row == [id : Incidents, state : States, label : Labels]

(* handleIncidents lists the incidents and then, under the mutex again,    *)
(* reads their deliveries.                                                 *)
Answer(list, listed, labelled) ==
    {[id |-> i, state |-> listed.state[i], label |-> Label(i, labelled)] : i \in Page(list, listed)}

(* What a request for a list may have been answered, if handled between    *)
(* two moments.                                                            *)
Answers(list, from, to) ==
    {Answer(list, history[p[1]], history[p[2]]) :
        p \in {p \in (from .. to) \X (from .. to) : p[1] <= p[2]}}

NoRows == [l \in Lists |-> {}]

-----------------------------------------------------------------------------
(* The page is opened at any time.  In a development build StrictMode runs *)
(* the effect twice, and its cleanup aborts the first poll.                *)
Init ==
    /\ \E state \in [Incidents -> States \ {"gone"}] :
          /\ \A i, j \in Incidents : i < j /\ state[i] = "none" => state[j] = "none"
          /\ history = <<[state |-> state,
                opened |-> [i \in Incidents |-> IF state[i] \in {"active", "pending_recovery", "resolved"}
                                                THEN "sent" ELSE "none"],
                resolved |-> [i \in Incidents |-> IF state[i] = "resolved" THEN "sent" ELSE "none"],
                health |-> "healthy"]>>
    /\ poll = [s \in Slots |-> IF s = 1 THEN "aborted" ELSE IF s = 2 THEN "running" ELSE "idle"]
    /\ since = [s \in Slots |-> 1]
    /\ rows = NoRows
    /\ status = "none"
    /\ loadError = FALSE
    /\ window = <<>>
    /\ failures = 0

-----------------------------------------------------------------------------
(* The server.                                                             *)

Moves(next) ==
    /\ Len(history) <= MaxMoves
    /\ history' = Append(history, next)
    /\ UNCHANGED <<poll, since, pageVars, failures>>

(* A failure is reported.                                                  *)
Detected(i) ==
    /\ Now.state[i] = "none"
    /\ \A j \in Incidents : j < i => Now.state[j] # "none"
    /\ Moves([Now EXCEPT !.state[i] = "pending_failure"])

(* It ends before it is confirmed.                                         *)
Cancelled(i) ==
    /\ Now.state[i] = "pending_failure"
    /\ Moves([Now EXCEPT !.state[i] = "gone"])

(* It is confirmed, and announced unless it is about the past.             *)
Activated(i) ==
    /\ Now.state[i] = "pending_failure"
    /\ \E job \in {"none", "pending"} :
          Moves([Now EXCEPT !.state[i] = "active", !.opened[i] = job])

(* A recovery begins, or is interrupted.                                   *)
RecoveryBegins(i) ==
    /\ Now.state[i] = "active"
    /\ Moves([Now EXCEPT !.state[i] = "pending_recovery"])

RecoveryInterrupted(i) ==
    /\ Now.state[i] = "pending_recovery"
    /\ Moves([Now EXCEPT !.state[i] = "active"])

(* The recovery is confirmed, and announced if the outage was.             *)
Resolved(i) ==
    /\ Now.state[i] = "pending_recovery"
    /\ Moves([Now EXCEPT !.state[i] = "resolved",
                         !.resolved[i] = IF Now.opened[i] = "none" THEN "none" ELSE "pending"])

(* Mutant: a failed delivery is in a state of its own.                     *)
MarkedRetrying(job) == IF job = "pending" THEN {"sent", "retrying"} ELSE {}

(* MarkNotificationSent and MarkNotificationFailed.                        *)
Marked(job) == IF job = "pending" THEN {"sent", "failed"}
               ELSE IF job = "failed" THEN {"sent"} ELSE {}

Delivered(i) ==
    \/ \E job \in Marked(Now.opened[i]) : Moves([Now EXCEPT !.opened[i] = job])
    \/ \E job \in Marked(Now.resolved[i]) : Moves([Now EXCEPT !.resolved[i] = job])

(* The worker's reconcile fails or is late, or succeeds again.             *)
WorkerReports ==
    \E report \in Reports \ {Now.health} : Moves([Now EXCEPT !.health = report])

-----------------------------------------------------------------------------
(* refreshIncidents.                                                       *)

Idle(s) == poll' = [poll EXCEPT ![s] = "idle"] /\ since' = [since EXCEPT ![s] = 1]

(* The interval starts a poll, whatever has become of the last one.        *)
Interval(s) ==
    /\ poll[s] = "idle"
    /\ \A other \in Slots : other < s => poll[other] # "idle"
    /\ poll' = [poll EXCEPT ![s] = "running"]
    /\ since' = [since EXCEPT ![s] = Len(history)]
    /\ UNCHANGED <<history, pageVars, failures>>

(* Mutant: what the page shows already is kept.                            *)
FilledAdding(list, answer) == rows[list] \cup answer

(* setIncidents replaces what was shown.                                   *)
Filled(list, answer) == answer

(* Mutant: the error of an earlier poll stays.                             *)
ErrorKept == loadError

ErrorCleared == FALSE

(* All four have answered.                                                 *)
Settle(s) ==
    LET moments == since[s] .. Len(history)
    IN  /\ poll[s] = "running"
        /\ \E pending \in Answers("pending_failure", since[s], Len(history)),
              active \in Answers("active", since[s], Len(history)),
              resolved \in Answers("resolved", since[s], Len(history)) :
              rows' = [l \in Lists |-> Filled(l, IF l = "active" THEN active
                          ELSE IF l = "resolved" THEN resolved ELSE pending)]
        /\ status' \in {history[m].health : m \in moments}
        /\ loadError' = ErrorCleared
        /\ window' = <<since[s], Len(history)>>
        /\ Idle(s)
        /\ UNCHANGED <<history, failures>>

(* A request fails or is answered with an error: Promise.all rejects, the  *)
(* error is shown, and what was shown stays.                               *)
Fails(s) ==
    /\ poll[s] = "running"
    /\ failures < MaxFailures
    /\ failures' = failures + 1
    /\ loadError' = TRUE
    /\ Idle(s)
    /\ UNCHANGED <<history, rows, status, window>>

(* The rejection of an aborted poll is no error.                           *)
Aborted(s) ==
    /\ poll[s] = "aborted"
    /\ Idle(s)
    /\ UNCHANGED <<history, pageVars, failures>>

-----------------------------------------------------------------------------
Next ==
    \/ \E i \in Incidents :
          \/ Detected(i) \/ Cancelled(i) \/ Activated(i) \/ RecoveryBegins(i)
          \/ RecoveryInterrupted(i) \/ Resolved(i) \/ Delivered(i)
    \/ WorkerReports
    \/ \E s \in Slots : Interval(s) \/ Settle(s) \/ Fails(s) \/ Aborted(s)

(* The interval goes on, and requests are handled and answered.            *)
Spec ==
    /\ Init
    /\ [][Next]_vars
    /\ \A s \in Slots : WF_vars(Interval(s)) /\ WF_vars(Settle(s)) /\ WF_vars(Aborted(s))

-----------------------------------------------------------------------------
(* What the page makes of its rows.                                        *)

AllRows == UNION {rows[l] : l \in Lists}

(* pendingIncidents, activeIncidents and resolvedIncidents: the states of  *)
(* the three sections.                                                     *)
Section(list) == IF list = "active" THEN {"active", "pending_recovery"} ELSE {list}

(* Mutant: an incident that is still to be confirmed is not current.       *)
ConfirmedStates == Section("active")

CurrentStates == Section("active") \cup Section("pending_failure")

(* currentIncidents: rows of any list, by their state.                     *)
CurrentRows == {r \in AllRows : r.state \in CurrentStates}

(* The summary of the start page.                                          *)
Summary ==
    IF loadError THEN "unavailable" ELSE IF CurrentRows # {} THEN "current" ELSE "healthy"

(* The heading of the incidents page.                                      *)
AnalysisStatus == IF loadError THEN "unavailable" ELSE status

-----------------------------------------------------------------------------
(* The type of the state.                                                  *)
TypeOK ==
    /\ history \in Seq(Server)
    /\ poll \in [Slots -> {"idle", "running", "aborted"}]
    /\ since \in [Slots -> 1 .. Len(history)]
    /\ rows \in [Lists -> SUBSET Row]
    /\ status \in Reports \cup {"none"}
    /\ loadError \in BOOLEAN
    /\ window = <<>> \/ window \in (1 .. Len(history)) \X (1 .. Len(history))
    /\ failures \in Nat

(* The moments of the poll that filled the page.                           *)
Window == {history[n] : n \in window[1] .. window[2]}

(* Nothing is shown that is out of date by more than one poll: the state   *)
(* and the delivery of every row, and the health of the worker, were true  *)
(* at a moment of the poll that filled the page, although incidents,       *)
(* deliveries and health are read one after the other, polls overtake each *)
(* other, and some fail.                                                   *)
RowsWereTrue ==
    IF window = <<>> THEN AllRows = {}
    ELSE /\ \A r \in AllRows : /\ \E server \in Window : server.state[r.id] = r.state
                               /\ \E server \in Window : Label(r.id, server) = r.label
         /\ \E server \in Window : server.health = status

(* Incident i belongs to a section that shows it.                          *)
Belongs(i, list, server) ==
    /\ server.state[i] \in Section(list)
    /\ Cardinality({j \in Incidents : j > i /\ server.state[j] \in Section(list)}) < Limit

(* An incident that stays in one section during the poll, moving between   *)
(* "active" and "pending_recovery" perhaps, is shown in that section and   *)
(* in no other, unless there are more than the limit.                      *)
SteadyShownOnce ==
    window # <<>> =>
        \A i \in Incidents, list \in Lists :
            (\A server \in Window : Belongs(i, list, server)) =>
                /\ {l \in Lists : \E r \in rows[l] : r.id = i} = {list}
                /\ \A r \in rows[list] : r.state \in Section(list)

(* The summary does not say that all is well over an incident that stayed  *)
(* in one section of current incidents, still to be confirmed or           *)
(* confirmed, during the whole of the poll, even if more than the limit    *)
(* are listed there.  Only an incident that moves from one section to the  *)
(* other meanwhile may be missed, see SummaryHonest.                       *)
SteadyNoticed ==
    Summary = "healthy" /\ window # <<>> =>
        \A i \in Incidents, list \in {"active", "pending_failure"} :
            \E server \in Window : server.state[i] \notin Section(list)

(* The page and the server say the same.                                   *)
UpToDate ==
    /\ \A l \in Lists : rows[l] = Answer(l, Now, Now)
    /\ AnalysisStatus = Now.health

(* When nothing changes any more and requests no longer fail, the page     *)
(* shows the state of the server and keeps showing it: a failed poll does  *)
(* not end the polling, its error goes away, and no poll from before       *)
(* brings the past back for good.                                          *)
CatchesUp == <>[]UpToDate

(* README.md: the summary polls derived incident state every 15 seconds    *)
(* and shows whether any connectivity incident is current.  So when it     *)
(* says that all is well after a poll, no incident was current during the  *)
(* whole of that poll.                                                     *)
SummaryHonest ==
    Summary = "healthy" /\ window # <<>> =>
        \A i \in Incidents : \E server \in Window : server.state[i] \notin CurrentStates
=============================================================================
