------------------------ MODULE IncidentsPageProofs ------------------------
(***************************************************************************)
(* Proofs about IncidentsPage, for any number of incidents, polls, changes *)
(* and failures and any limit: what the page shows was true during the     *)
(* poll that filled it, what stayed in one section is shown there, and the *)
(* summary does not overlook it.                                           *)
(***************************************************************************)
EXTENDS IncidentsPage, FiniteSetTheorems, WellFoundedInduction, TLAPS

(* The invariant: besides the properties only that there is a present.     *)
PageInv ==
    /\ TypeOK
    /\ Len(history) > 0
    /\ RowsWereTrue
    /\ SteadyShownOnce
    /\ SteadyNoticed

-----------------------------------------------------------------------------
(* A change of the server leaves the past, and so the window of the poll   *)
(* that filled the page, as it was.                                        *)
LEMMA MovesKeepPage ==
    ASSUME PageInv, NEW next \in Server, Moves(next)
    PROVE  PageInv'
<1>1. /\ history \in Seq(Server) /\ history' \in Seq(Server)
      /\ Len(history') = Len(history) + 1
      /\ \A n \in 1 .. Len(history) : history'[n] = history[n]
  BY DEF PageInv, TypeOK, Moves
<1>2. UNCHANGED <<poll, since, rows, status, loadError, window, failures>>
  BY DEF Moves, pageVars
<1>3. TypeOK' /\ Len(history') > 0
  BY <1>1, <1>2 DEF PageInv, TypeOK
<1>4. window # <<>> => Window' = Window
  <2>. SUFFICES ASSUME window # <<>>
                PROVE  Window' = Window
    OBVIOUS
  <2>1. window[1] \in 1 .. Len(history) /\ window[2] \in 1 .. Len(history)
    BY DEF PageInv, TypeOK
  <2>2. \A n \in window[1] .. window[2] : history'[n] = history[n]
    BY <1>1, <2>1
  <2>. QED
    BY <1>2, <2>2 DEF Window
<1>5. RowsWereTrue'
  BY <1>2, <1>4 DEF PageInv, RowsWereTrue, AllRows
<1>6. SteadyShownOnce'
  BY <1>2, <1>4 DEF PageInv, SteadyShownOnce
<1>7. SteadyNoticed'
  BY <1>2, <1>4 DEF PageInv, SteadyNoticed, Summary, CurrentRows, AllRows
<1>. QED
  BY <1>3, <1>5, <1>6, <1>7 DEF PageInv

(* Every change of an incident, a delivery or the health is a state of the *)
(* server.                                                                 *)
LEMMA ServerKeepsPage ==
    ASSUME PageInv,
           \/ \E i \in Incidents :
                 \/ Detected(i) \/ Cancelled(i) \/ Activated(i) \/ RecoveryBegins(i)
                 \/ RecoveryInterrupted(i) \/ Resolved(i) \/ Delivered(i)
           \/ WorkerReports
    PROVE  PageInv'
<1>1. Now \in Server
  BY DEF PageInv, TypeOK, Now
<1>2. ASSUME NEW i \in Incidents, NEW state \in States
      PROVE  [Now EXCEPT !.state[i] = state] \in Server
  BY <1>1 DEF Server
<1>3. ASSUME NEW i \in Incidents, NEW state \in States, NEW job \in Jobs
      PROVE  /\ [Now EXCEPT !.state[i] = state, !.opened[i] = job] \in Server
             /\ [Now EXCEPT !.state[i] = state, !.resolved[i] = job] \in Server
  BY <1>1 DEF Server
<1>4. ASSUME NEW i \in Incidents, NEW job \in Jobs
      PROVE  /\ [Now EXCEPT !.opened[i] = job] \in Server
             /\ [Now EXCEPT !.resolved[i] = job] \in Server
  BY <1>1 DEF Server
<1>5. ASSUME NEW report \in Reports
      PROVE  [Now EXCEPT !.health = report] \in Server
  BY <1>1 DEF Server
<1>6. ASSUME NEW i \in Incidents,
             Detected(i) \/ Cancelled(i) \/ RecoveryBegins(i) \/ RecoveryInterrupted(i)
      PROVE  PageInv'
  BY <1>6, <1>2, MovesKeepPage
  DEF Detected, Cancelled, RecoveryBegins, RecoveryInterrupted, States
<1>7. ASSUME NEW i \in Incidents, Activated(i)
      PROVE  PageInv'
  BY <1>7, <1>3, MovesKeepPage DEF Activated, States, Jobs
<1>8. ASSUME NEW i \in Incidents, Resolved(i)
      PROVE  PageInv'
  BY <1>8, <1>3, MovesKeepPage DEF Resolved, States, Jobs
<1>9. ASSUME NEW i \in Incidents, Delivered(i)
      PROVE  PageInv'
  BY <1>9, <1>4, MovesKeepPage DEF Delivered, Marked, Jobs
<1>10. CASE WorkerReports
  BY <1>10, <1>5, MovesKeepPage DEF WorkerReports
<1>. QED
  BY <1>6, <1>7, <1>8, <1>9, <1>10

-----------------------------------------------------------------------------
(* A poll that begins, fails or was aborted changes no row.                *)
LEMMA IdlePollKeepsPage ==
    ASSUME PageInv, NEW s \in Slots, Interval(s) \/ Fails(s) \/ Aborted(s)
    PROVE  PageInv'
<1>1. UNCHANGED <<history, rows, status, window>>
  BY DEF Interval, Fails, Aborted, pageVars
<1>2. TypeOK'
  <2>1. CASE Interval(s)
    BY <2>1 DEF Interval, PageInv, TypeOK, pageVars
  <2>2. CASE Fails(s)
    BY <2>2 DEF Fails, Idle, PageInv, TypeOK
  <2>3. CASE Aborted(s)
    BY <2>3 DEF Aborted, Idle, PageInv, TypeOK, pageVars
  <2>. QED
    BY <2>1, <2>2, <2>3
<1>3. RowsWereTrue'
  BY <1>1 DEF PageInv, RowsWereTrue, AllRows, Window
<1>4. SteadyShownOnce'
  BY <1>1 DEF PageInv, SteadyShownOnce, Window
<1>5. SteadyNoticed'
  <2>1. loadError' => Summary' # "healthy"
    BY DEF Summary
  <2>2. loadError => loadError'
    BY DEF Interval, Fails, Aborted, pageVars
  <2>. QED
    BY <1>1, <2>1, <2>2 DEF PageInv, SteadyNoticed, Summary, CurrentRows, AllRows, Window
<1>. QED
  BY <1>1, <1>2, <1>3, <1>4, <1>5 DEF PageInv

-----------------------------------------------------------------------------
(* The rows of an answer: their state is that of one moment, their         *)
(* delivery that of another.                                               *)
LEMMA AnswerRows ==
    ASSUME NEW list \in Lists, NEW listed \in Server, NEW labelled \in Server,
           NEW r \in Answer(list, listed, labelled)
    PROVE  /\ r \in Row
           /\ r.state = listed.state[r.id]
           /\ r.state \in ListedStates(list)
           /\ r.label = Label(r.id, labelled)
<1>1. PICK i \in Page(list, listed) :
         r = [id |-> i, state |-> listed.state[i], label |-> Label(i, labelled)]
  BY DEF Answer
<1>2. i \in Incidents /\ listed.state[i] \in ListedStates(list)
  BY <1>1 DEF Page
<1>3. Label(i, labelled) \in Labels
  BY DEF Label, Labels
<1>4. listed.state[i] \in States
  BY <1>2 DEF Server
<1>. QED
  BY <1>1, <1>2, <1>3, <1>4 DEF Row

(* An incident that belongs to a section is in the answer for its list.    *)
LEMMA AnswerComplete ==
    ASSUME NEW list \in Lists, NEW listed \in Server, NEW labelled \in Server,
           NEW i \in Incidents, Belongs(i, list, listed)
    PROVE  \E r \in Answer(list, listed, labelled) : r.id = i
<1>1. ListedStates(list) = Section(list)
  BY DEF ListedStates, Section
<1>2. {j \in {k \in Incidents : listed.state[k] \in ListedStates(list)} : j > i}
         = {j \in Incidents : j > i /\ listed.state[j] \in Section(list)}
  BY <1>1
<1>3. i \in Page(list, listed)
  BY <1>1, <1>2 DEF Page, Belongs
<1>. DEFINE row == [id |-> i, state |-> listed.state[i], label |-> Label(i, labelled)]
<1>4. row \in Answer(list, listed, labelled)
  BY <1>3 DEF Answer
<1>5. row.id = i
  OBVIOUS
<1>. HIDE DEF row
<1>. QED
  BY <1>4, <1>5

(* A set of incidents has a newest one.                                    *)
LEMMA NewestIncident ==
    ASSUME NEW S, S \subseteq Incidents, S # {}
    PROVE  \E i \in S : \A j \in S : j <= i
<1>. DEFINE Before == OpToRel(<, Nat)
            Ages == {MaxIncidents - i : i \in S}
<1>1. MaxIncidents \in Nat /\ \A i \in S : i \in 1 .. MaxIncidents
  BY PageAssumption DEF Incidents
<1>2. Ages \subseteq Nat /\ Ages # {}
  BY <1>1
<1>3. IsWellFoundedOn(Before, Nat)
  BY NatLessThanWellFounded
<1>. HIDE DEF Before
<1>4. PICK age \in Ages : \A other \in Ages : ~ (<<other, age>> \in Before)
  <2>. HIDE DEF Ages
  <2>. QED
    BY <1>2, <1>3, WFMin
<1>5. \A m, n \in Nat : m < n => <<m, n>> \in Before
  BY DEF Before, OpToRel
<1>6. PICK i \in S : age = MaxIncidents - i
  BY <1>4
<1>7. \A j \in S : MaxIncidents - j \in Ages /\ MaxIncidents - j \in Nat
  BY <1>1
<1>8. \A j \in S : ~ (MaxIncidents - j < MaxIncidents - i)
  BY <1>1, <1>2, <1>4, <1>5, <1>6, <1>7
<1>. QED
  BY <1>1, <1>8

(* A list of which any incident is asked for is not empty.                 *)
LEMMA AnswerNotEmpty ==
    ASSUME NEW list \in Lists, NEW listed \in Server, NEW labelled \in Server,
           NEW i \in Incidents, listed.state[i] \in Section(list)
    PROVE  Answer(list, listed, labelled) # {}
<1>. DEFINE S == {j \in Incidents : listed.state[j] \in Section(list)}
<1>1. PICK newest \in S : \A j \in S : j <= newest
  <2>1. S \subseteq Incidents /\ S # {}
    OBVIOUS
  <2>. HIDE DEF S
  <2>. QED
    BY <2>1, NewestIncident
<1>2. {j \in Incidents : j > newest /\ listed.state[j] \in Section(list)} = {}
  BY <1>1 DEF Incidents
<1>3. Cardinality({j \in Incidents : j > newest /\ listed.state[j] \in Section(list)}) < Limit
  BY <1>2, FS_EmptySet, PageAssumption
<1>4. Belongs(newest, list, listed) /\ newest \in Incidents
  BY <1>1, <1>3 DEF Belongs
<1>. QED
  BY <1>4, AnswerComplete

(* A poll that ends fills the page with answers from its own window.       *)
LEMMA SettleKeepsPage ==
    ASSUME PageInv, NEW s \in Slots, Settle(s)
    PROVE  PageInv'
<1>. DEFINE moments == since[s] .. Len(history)
<1>1. /\ history \in Seq(Server) /\ Len(history) \in Nat \ {0}
      /\ since[s] \in 1 .. Len(history)
      /\ moments \subseteq 1 .. Len(history)
      /\ \A m \in moments : history[m] \in Server
  BY DEF PageInv, TypeOK
<1>2. /\ UNCHANGED <<history, failures>>
      /\ window' = <<since[s], Len(history)>>
      /\ loadError' = FALSE
      /\ status' \in {history[m].health : m \in moments}
  BY DEF Settle, ErrorCleared
<1>3. Window' = {history[m] : m \in moments}
  BY <1>1, <1>2 DEF Window
<1>4. DOMAIN rows' = Lists /\ \A l \in Lists : \E m, n \in moments :
         rows'[l] = Answer(l, history[m], history[n])
  <2>1. PICK pending \in Answers("pending_failure", since[s], Len(history)),
             active \in Answers("active", since[s], Len(history)),
             resolved \in Answers("resolved", since[s], Len(history)) :
           rows' = [l \in Lists |-> Filled(l, IF l = "active" THEN active
                       ELSE IF l = "resolved" THEN resolved ELSE pending)]
    BY DEF Settle
  <2>2. ASSUME NEW l, NEW answer \in Answers(l, since[s], Len(history))
        PROVE  \E m, n \in moments : answer = Answer(l, history[m], history[n])
    BY DEF Answers
  <2>. QED
    BY <2>1, <2>2 DEF Filled, Lists
<1>5. ASSUME NEW l \in Lists, NEW r \in rows'[l]
      PROVE  /\ r \in Row
             /\ r.state \in ListedStates(l)
             /\ \E server \in Window' : server.state[r.id] = r.state
             /\ \E server \in Window' : Label(r.id, server) = r.label
  BY <1>1, <1>3, <1>4, AnswerRows
<1>6. TypeOK'
  <2>1. rows' \in [Lists -> SUBSET Row]
    <3>1. \E f : rows' = [l \in Lists |-> f[l]]
      BY DEF Settle
    <3>. QED
      BY <3>1, <1>4, <1>5
  <2>2. status' \in Reports
    BY <1>1, <1>2 DEF Server
  <2>3. poll' \in [Slots -> {"idle", "running", "aborted"}] /\ since' \in [Slots -> 1 .. Len(history)]
    BY <1>1 DEF Settle, Idle, PageInv, TypeOK
  <2>4. window' \in (1 .. Len(history)) \X (1 .. Len(history))
    BY <1>1, <1>2
  <2>5. history \in Seq(Server) /\ failures \in Nat
    BY DEF PageInv, TypeOK
  <2>. QED
    BY <1>2, <2>1, <2>2, <2>3, <2>4, <2>5 DEF TypeOK
<1>7. RowsWereTrue'
  <2>1. \E server \in Window' : server.health = status'
    BY <1>2, <1>3
  <2>. QED
    BY <1>2, <1>5, <2>1 DEF RowsWereTrue, AllRows
<1>8. SteadyShownOnce'
  <2>. SUFFICES ASSUME NEW i \in Incidents, NEW list \in Lists,
                       \A server \in Window' : Belongs(i, list, server)
                PROVE  /\ {l \in Lists : \E r \in rows'[l] : r.id = i} = {list}
                       /\ \A r \in rows'[list] : r.state \in Section(list)
    BY DEF SteadyShownOnce
  <2>1. \E r \in rows'[list] : r.id = i
    BY <1>1, <1>3, <1>4, AnswerComplete
  <2>2. ASSUME NEW l \in Lists, NEW r \in rows'[l], r.id = i
        PROVE  l = list
    <3>1. PICK m \in moments, n \in moments : rows'[l] = Answer(l, history[m], history[n])
      BY <1>4
    <3>2. r.state = history[m].state[i] /\ r.state \in ListedStates(l)
      BY <1>1, <2>2, <3>1, AnswerRows
    <3>3. history[m].state[i] \in Section(list)
      BY <1>3 DEF Belongs
    <3>. QED
      BY <3>2, <3>3 DEF ListedStates, Section, Lists
  <2>3. \A r \in rows'[list] : r.state \in Section(list)
    BY <1>5 DEF ListedStates, Section
  <2>. QED
    BY <2>1, <2>2, <2>3
<1>9. SteadyNoticed'
  <2>. SUFFICES ASSUME Summary' = "healthy",
                       NEW i \in Incidents, NEW list \in {"active", "pending_failure"},
                       \A server \in Window' : server.state[i] \in Section(list)
                PROVE  FALSE
    BY DEF SteadyNoticed
  <2>1. CurrentRows' = {}
    BY <1>2 DEF Summary
  <2>2. list \in Lists
    BY DEF Lists
  <2>3. PICK m \in moments, n \in moments : rows'[list] = Answer(list, history[m], history[n])
    BY <1>4, <2>2
  <2>4. history[m].state[i] \in Section(list)
    BY <1>3
  <2>5. PICK r \in rows'[list] : TRUE
    BY <1>1, <2>2, <2>3, <2>4, AnswerNotEmpty
  <2>6. r.state \in CurrentStates
    BY <1>5, <2>2, <2>5 DEF ListedStates, Section, CurrentStates
  <2>7. r \in AllRows'
    BY <2>2, <2>5 DEF AllRows
  <2>. QED
    BY <2>1, <2>6, <2>7 DEF CurrentRows
<1>. QED
  BY <1>1, <1>2, <1>6, <1>7, <1>8, <1>9 DEF PageInv

-----------------------------------------------------------------------------
(* Every step keeps the page as promised.                                  *)
LEMMA NextKeepsPage ==
    ASSUME PageInv, [Next]_vars
    PROVE  PageInv'
<1>1. CASE UNCHANGED vars
  <2>. USE <1>1 DEF vars, pageVars, PageInv
  <2>1. TypeOK' /\ Len(history') > 0
    BY DEF TypeOK
  <2>2. RowsWereTrue'
    BY DEF RowsWereTrue, AllRows, Window
  <2>3. SteadyShownOnce'
    BY DEF SteadyShownOnce, Window
  <2>4. SteadyNoticed'
    BY DEF SteadyNoticed, Summary, CurrentRows, AllRows, Window
  <2>. QED
    BY <2>1, <2>2, <2>3, <2>4
<1>2. CASE Next
  BY <1>2, ServerKeepsPage, IdlePollKeepsPage, SettleKeepsPage DEF Next
<1>. QED
  BY <1>1, <1>2

(* The page starts without rows.                                           *)
LEMMA InitPage == Init => PageInv
<1>. SUFFICES ASSUME Init PROVE PageInv
  OBVIOUS
<1>1. history \in Seq(Server) /\ Len(history) = 1
  BY DEF Init, Server, States, Jobs, Reports
<1>2. TypeOK
  <2>1. poll \in [Slots -> {"idle", "running", "aborted"}]
    BY DEF Init
  <2>2. since \in [Slots -> 1 .. Len(history)]
    BY <1>1 DEF Init
  <2>3. rows \in [Lists -> SUBSET Row]
    BY DEF Init, NoRows
  <2>4. status = "none" /\ loadError = FALSE /\ window = <<>> /\ failures = 0
    BY DEF Init
  <2>. QED
    BY <1>1, <2>1, <2>2, <2>3, <2>4 DEF TypeOK
<1>3. RowsWereTrue /\ SteadyShownOnce /\ SteadyNoticed
  BY DEF Init, NoRows, RowsWereTrue, SteadyShownOnce, SteadyNoticed, AllRows
<1>. QED
  BY <1>1, <1>2, <1>3 DEF PageInv

(* The state has its type.                                                 *)
THEOREM PageTypeCorrect == Spec => []TypeOK
<1>1. PageInv => TypeOK
  BY DEF PageInv
<1>. QED
  BY <1>1, InitPage, NextKeepsPage, PTL DEF Spec

(* What the page shows of an incident, of its delivery and of the worker   *)
(* was true at a moment of the poll that filled it, however polls overtake *)
(* each other and whatever changes between their requests.                 *)
THEOREM ShownWasTrue == Spec => []RowsWereTrue
<1>1. PageInv => RowsWereTrue
  BY DEF PageInv
<1>. QED
  BY <1>1, InitPage, NextKeepsPage, PTL DEF Spec

(* An incident that stays in a section during a poll is shown there, and   *)
(* nowhere else.                                                           *)
THEOREM SteadyIsShown == Spec => []SteadyShownOnce
<1>1. PageInv => SteadyShownOnce
  BY DEF PageInv
<1>. QED
  BY <1>1, InitPage, NextKeepsPage, PTL DEF Spec

(* When the summary says that all is well, no incident was to be confirmed *)
(* or confirmed during the whole of the poll that filled the page, however *)
(* many incidents there are and whatever the limit of a list.              *)
THEOREM SteadyIsNoticed == Spec => []SteadyNoticed
<1>1. PageInv => SteadyNoticed
  BY DEF PageInv
<1>. QED
  BY <1>1, InitPage, NextKeepsPage, PTL DEF Spec
=============================================================================
