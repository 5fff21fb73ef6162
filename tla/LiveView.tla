------------------------------ MODULE LiveView ------------------------------
(***************************************************************************)
(* The message list of the page, frontend/src/App.tsx: what the user       *)
(* chooses is fetched from GET /messages and kept up to date from GET      *)
(* /messages/stream, while messages are stored.                            *)
(*                                                                         *)
(* A handler of the page, the rendering it causes and the effects of that  *)
(* rendering are one step, Rerender: React runs them before the next       *)
(* event.  Requests, their answers and the events of the stream travel     *)
(* between such steps.  Request 0 is the one of the effect on refresh,     *)
(* which is aborted when another takes its place; the others are those of  *)
(* the Refresh button and of imports, which are not.                       *)
(*                                                                         *)
(* Abstracted: a message is its number in order of storage, with its time, *)
(* its host and the filters that match it; banners, the host menu and the  *)
(* spinner are left out.  The hub loses no message here: see LiveStream.   *)
(***************************************************************************)
EXTENDS Integers, FiniteSets, Sequences, SequencesExt, Sorting

CONSTANTS
    Hosts,        \* host names of messages
    Filters,      \* what may be typed into the filter box, "" included
    Accepted,     \* the filters that the server can compile
    Limits,       \* page sizes
    Shapes,       \* messages the listener may receive, [host, match]
    ImportShapes, \* messages an import may bring
    MaxMessages,  \* bound: number of messages
    MaxActions,   \* bound: number of actions of the user
    MaxManual,    \* bound: how many of them are refreshes and imports
    MaxFailures   \* bound: failing requests and connections

(* "none" stands for the null of validatedFilter, which nobody can type.   *)
ASSUME FiltersAssumption ==
    "" \in Accepted /\ Accepted \subseteq Filters /\ "none" \notin Filters

ASSUME LimitsAssumption == Limits \subseteq Nat \ {0}

ASSUME BoundsAssumption == MaxMessages \in Nat /\ MaxManual \in Nat

VARIABLES
    stored,    \* the messages of the archive, in order of storage
    input,     \* the filter box
    typing,    \* its timer runs
    view,      \* the other state of the page
    messages,  \* the list, as numbers of messages
    requests,  \* requests on their way, by number
    stream,    \* the EventSource: closed, connecting or open
    events,    \* its messages on their way
    actions,   \* actions of the user so far
    manual,    \* refreshes and imports so far
    failures,  \* failures so far
    given,     \* history: messages stored when the list of the page was answered
    opened,    \* history: messages stored when the stream last opened
    lost,      \* history: messages the stream brought while the answer that is
               \* now the list was on its way without them
    late       \* history: the list was last replaced by that of a selection
               \* which the page no longer had

history == <<given, opened, lost, late>>

vars == <<stored, input, typing, view, messages, requests, stream, events, actions,
          manual, failures, history>>

-----------------------------------------------------------------------------
Times == 0 .. MaxMessages

At(n) == stored[n].at

Selected(n, filter, hosts) ==
    /\ filter \in stored[n].match
    /\ hosts = {} \/ stored[n].host \in hosts

(* What the server lists, newest first; QueryIndex shows that it does.     *)
Listing(filter, hosts) == {n \in 1 .. Len(stored) : Selected(n, filter, hosts)}

Latest(S) == {p \in S \X S : \/ At(p[1]) > At(p[2])
                             \/ At(p[1]) = At(p[2]) /\ p[1] > p[2]}

Listed(filter, hosts) == Sorted(Listing(filter, hosts), Latest(Listing(filter, hosts)))

LesserOf(a, b) == IF a < b THEN a ELSE b

(* A request and its answer, with the history of the answer: how many      *)
(* messages were stored when it was given, and which of the others the     *)
(* stream has brought since.                                               *)
NoRequest == [stage |-> "none", filter |-> "", hosts |-> {}, page |-> 0, limit |-> 0,
              data |-> <<>>, hasMore |-> FALSE, given |-> 0, passed |-> {}]

(* listMessages with what the page shows.                                  *)
Request(stage, v) ==
    [NoRequest EXCEPT !.stage = stage, !.filter = v.filter, !.hosts = v.hosts,
                      !.page = v.page, !.limit = v.limit]

-----------------------------------------------------------------------------
(* Rendering and effects.                                                  *)

(* Mutant: the stream does not wait for the filter to be accepted.         *)
StreamedUnvalidated(v) == v.auto /\ v.page = 0 /\ ~v.unavailable

(* The condition under which the stream is open.                           *)
Streamed(v) == v.auto /\ v.page = 0 /\ ~v.unavailable /\ v.validated = v.filter

(* liveDisabled switches live updates off for good.                        *)
Settled(v) == [v EXCEPT !.auto = v.auto /\ v.page = 0 /\ ~v.unavailable]

(* The effect on refresh: the cleanup aborts, the effect asks again.       *)
Refetched(rs, w) == [rs EXCEPT ![0] = Request("sent", w)]

(* The page becomes v, with requests rs; again says that its hosts were    *)
(* set, to the same ones perhaps.                                          *)
Rerender(v, rs, again) ==
    LET w == Settled(v)
        resized == again \/ w.limit # view.limit
        refetch == resized \/ w.filter # view.filter \/ w.page # view.page
        kept == Streamed(view) /\ Streamed(w) /\ ~resized
    IN  /\ view' = w
        /\ requests' = IF refetch THEN Refetched(rs, w) ELSE rs
        /\ stream' = IF ~Streamed(w) THEN "closed" ELSE IF kept THEN stream ELSE "connecting"
        /\ events' = IF kept THEN events ELSE <<>>

Init ==
    /\ stored = <<>>
    /\ input = ""
    /\ typing = TRUE
    /\ \E l \in Limits :
          view = [filter |-> "", hosts |-> {}, page |-> 0, limit |-> l, validated |-> "none",
                  auto |-> TRUE, unavailable |-> FALSE, hasMore |-> FALSE]
    /\ messages = <<>>
    /\ requests = [r \in 0 .. MaxManual |-> IF r = 0 THEN Request("sent", view) ELSE NoRequest]
    /\ stream = "closed"
    /\ events = <<>>
    /\ actions = 0
    /\ manual = 0
    /\ failures = 0
    /\ given = 0
    /\ opened = 0
    /\ lost = {}
    /\ late = FALSE

-----------------------------------------------------------------------------
(* The user.                                                               *)

UserActs ==
    /\ actions < MaxActions
    /\ actions' = actions + 1

Type(f) ==
    /\ UserActs
    /\ f # input
    /\ input' = f
    /\ typing' = TRUE
    /\ UNCHANGED <<stored, view, messages, requests, stream, events, manual, failures, history>>

(* A link from an incident to its evidence; what is in the box already     *)
(* starts no timer.                                                        *)
ShowEvidence(f) ==
    /\ UserActs
    /\ input' = f
    /\ typing' = (typing \/ f # input)
    /\ Rerender([view EXCEPT !.page = 0], requests, FALSE)
    /\ UNCHANGED <<stored, messages, manual, failures, history>>

(* 250 milliseconds after the last change of the filter box.               *)
FilterApplies ==
    /\ typing
    /\ typing' = FALSE
    /\ Rerender([view EXCEPT !.filter = input, !.page = 0], requests, FALSE)
    /\ UNCHANGED <<stored, input, messages, actions, manual, failures, history>>

(* Mutant: the hosts are no dependency of refresh.                         *)
ChooseHostsUnfetched(hosts) ==
    /\ UserActs
    /\ Rerender([view EXCEPT !.page = 0, !.hosts = hosts], requests, FALSE)
    /\ UNCHANGED <<stored, input, typing, messages, manual, failures, history>>

(* clearHosts and toggleHost.                                              *)
ChooseHosts(hosts) ==
    /\ UserActs
    /\ Rerender([view EXCEPT !.page = 0, !.hosts = hosts], requests, TRUE)
    /\ UNCHANGED <<stored, input, typing, messages, manual, failures, history>>

ChooseSize(l) ==
    /\ UserActs
    /\ l # view.limit
    /\ Rerender([view EXCEPT !.page = 0, !.limit = l], requests, FALSE)
    /\ UNCHANGED <<stored, input, typing, messages, manual, failures, history>>

(* With the size "auto" the window decides, and the page number stays.     *)
FitSize(l) ==
    /\ UserActs
    /\ l # view.limit
    /\ Rerender([view EXCEPT !.limit = l], requests, FALSE)
    /\ UNCHANGED <<stored, input, typing, messages, manual, failures, history>>

TurnPage(page) ==
    /\ UserActs
    /\ \/ page = view.page + 1 /\ view.hasMore
       \/ page = view.page - 1 /\ page >= 0
    /\ Rerender([view EXCEPT !.page = page], requests, FALSE)
    /\ UNCHANGED <<stored, input, typing, messages, manual, failures, history>>

(* The switch and the button, disabled unless live updates can be had.     *)
SwitchLive ==
    /\ UserActs
    /\ view.page = 0 /\ ~view.unavailable
    /\ Rerender([view EXCEPT !.auto = ~@], requests, FALSE)
    /\ UNCHANGED <<stored, input, typing, messages, manual, failures, history>>

(* The Refresh button, or the beginning of an import; both hold on to the  *)
(* refresh of the rendering they were called from.                         *)
Manually(stage) ==
    /\ UserActs
    /\ manual < MaxManual
    /\ manual' = manual + 1
    /\ requests' = [requests EXCEPT ![manual + 1] = Request(stage, view)]
    /\ UNCHANGED <<stored, input, typing, view, messages, stream, events, failures, history>>

-----------------------------------------------------------------------------
(* The server.                                                             *)

(* A message is stored and, if the stream is open, sent to the page.       *)
StoreMessage(host, match, at) ==
    /\ Len(stored) < MaxMessages
    /\ stored' = Append(stored, [at |-> at, host |-> host, match |-> match])
    /\ events' = IF stream = "open" /\ view.filter \in match
                 THEN Append(events, Len(stored) + 1) ELSE events
    /\ UNCHANGED <<input, typing, view, messages, requests, stream, actions, manual,
                   failures, history>>

(* Received messages are stamped with the clock.                           *)
Receive(m) == StoreMessage(m.host, m.match, Len(stored) + 1)

(* Imported ones have a time of their own.                                 *)
Import(m, at) ==
    /\ \E r \in DOMAIN requests : requests[r].stage = "upload"
    /\ StoreMessage(m.host, m.match, at)

(* GET /messages; a filter that does not compile is answered with 400.     *)
Answer(r) ==
    LET q == requests[r]
        all == Listed(q.filter, q.hosts)
        first == q.page * q.limit
    IN  /\ q.stage = "sent"
        /\ requests' = [requests EXCEPT ![r] =
              IF q.filter \in Accepted
              THEN [q EXCEPT !.stage = "answered",
                             !.data = SubSeq(all, first + 1, LesserOf(first + q.limit, Len(all))),
                             !.hasMore = Len(all) > first + q.limit,
                             !.given = Len(stored)]
              ELSE [q EXCEPT !.stage = "failed"]]
        /\ UNCHANGED <<stored, input, typing, view, messages, stream, events, actions,
                       manual, failures, history>>

(* GET /messages/stream.                                                   *)
Connect ==
    /\ stream = "connecting"
    /\ view.filter \in Accepted
    /\ stream' = "open"
    /\ opened' = Len(stored)
    /\ UNCHANGED <<stored, input, typing, view, messages, requests, events, actions,
                   manual, failures, given, lost, late>>

-----------------------------------------------------------------------------
(* What reaches the page.                                                  *)

(* The answer q is about what the page shows now.                          *)
Fits(q) ==
    /\ q.filter = view.filter /\ q.hosts = view.hosts
    /\ q.page = view.page /\ q.limit = view.limit

(* Mutant: the answer does not count as accepting its filter.              *)
ArriveUnvalidated(r) ==
    LET q == requests[r]
    IN  /\ q.stage = "answered"
        /\ messages' = q.data
        /\ Rerender([view EXCEPT !.hasMore = q.hasMore],
                    [requests EXCEPT ![r] = NoRequest], FALSE)
        /\ given' = q.given
        /\ lost' = q.passed
        /\ late' = ~Fits(q)
        /\ UNCHANGED <<stored, input, typing, actions, manual, failures, opened>>

(* refresh goes on with the answer.                                        *)
Arrive(r) ==
    LET q == requests[r]
    IN  /\ q.stage = "answered"
        /\ messages' = q.data
        /\ Rerender([view EXCEPT !.validated = q.filter, !.hasMore = q.hasMore],
                    [requests EXCEPT ![r] = NoRequest], FALSE)
        /\ given' = q.given
        /\ lost' = q.passed
        /\ late' = ~Fits(q)
        /\ UNCHANGED <<stored, input, typing, actions, manual, failures, opened>>

(* refresh, or the import, goes on with an error, which is shown.          *)
ArriveError(r) ==
    /\ requests[r].stage = "failed"
    /\ requests' = [requests EXCEPT ![r] = NoRequest]
    /\ UNCHANGED <<stored, input, typing, view, messages, stream, events, actions, manual,
                   failures, history>>

(* The network fails a request.                                            *)
Fail(r) ==
    /\ requests[r].stage \in {"sent", "upload"}
    /\ failures < MaxFailures
    /\ failures' = failures + 1
    /\ requests' = [requests EXCEPT ![r].stage = "failed"]
    /\ UNCHANGED <<stored, input, typing, view, messages, stream, events, actions, manual, history>>

(* The import is answered; it refreshes the page it began on, or goes to   *)
(* the first page.                                                         *)
ImportDone(r) ==
    /\ requests[r].stage = "upload"
    /\ IF requests[r].page = 0
       THEN /\ requests' = [requests EXCEPT ![r].stage = "sent"]
            /\ UNCHANGED <<view, stream, events>>
       ELSE Rerender([view EXCEPT !.page = 0], [requests EXCEPT ![r] = NoRequest], FALSE)
    /\ UNCHANGED <<stored, input, typing, messages, actions, manual, failures, history>>

(* Mutant: a message that is listed already is listed again.               *)
MergedTwice(n) ==
    LET newer(x) == At(x) > At(n)
        older(x) == At(x) <= At(n)
        merged == SelectSeq(messages, newer) \o <<n>> \o SelectSeq(messages, older)
    IN  [list |-> SubSeq(merged, 1, LesserOf(view.limit, Len(merged))),
         hasMore |-> view.hasMore \/ Len(merged) > view.limit]

(* Mutant: the list is cut before the new message is added to it.          *)
MergedLast(n) ==
    LET other(x) == x # n
        merged == SelectSeq(messages, other) \o <<n>>
    IN  [list |-> SubSeq(merged, 1, LesserOf(view.limit, Len(merged))),
         hasMore |-> view.hasMore \/ Len(merged) > view.limit]

(* The list with message n: n is put in front and filtered out of the      *)
(* rest, and the array is sorted by a stable sort and cut.                 *)
Kept(all) == {i \in 1 .. Len(all) : i = 1 \/ all[i] # all[1]}

Stably(all) == {p \in Kept(all) \X Kept(all) :
    \/ At(all[p[1]]) > At(all[p[2]])
    \/ At(all[p[1]]) = At(all[p[2]]) /\ p[1] < p[2]}

Merged(n) ==
    LET all == <<n>> \o messages
        order == Sorted(Kept(all), Stably(all))
        cut == LesserOf(view.limit, Len(order))
    IN  [list |-> [k \in 1 .. cut |-> all[order[k]]],
         hasMore |-> view.hasMore \/ Len(order) > view.limit]

(* The answers that are on their way without n have been passed by it.     *)
Passed(n) ==
    [r \in DOMAIN requests |->
        IF requests[r].stage = "answered" /\ n > requests[r].given
        THEN [requests[r] EXCEPT !.passed = @ \cup {n}]
        ELSE requests[r]]

(* handleMessage.                                                          *)
HandleMessage ==
    /\ events # <<>>
    /\ LET n == Head(events)
           wanted == view.hosts = {} \/ stored[n].host \in view.hosts
       IN  /\ messages' = IF wanted THEN Merged(n).list ELSE messages
           /\ view' = [view EXCEPT !.hasMore = IF wanted THEN Merged(n).hasMore ELSE @]
           /\ requests' = Passed(n)
    /\ events' = Tail(events)
    /\ UNCHANGED <<stored, input, typing, stream, actions, manual, failures, history>>

(* handleError: the connection fails, or the server refuses the filter.    *)
HandleError ==
    /\ stream # "closed"
    /\ view.filter \in Accepted => failures < MaxFailures
    /\ failures' = IF view.filter \in Accepted THEN failures + 1 ELSE failures
    /\ Rerender([view EXCEPT !.auto = FALSE, !.unavailable = TRUE], requests, FALSE)
    /\ UNCHANGED <<stored, input, typing, messages, actions, manual, history>>

-----------------------------------------------------------------------------
Next ==
    \/ \E f \in Filters : Type(f) \/ ShowEvidence(f)
    \/ FilterApplies
    \/ \E hosts \in SUBSET Hosts : ChooseHosts(hosts)
    \/ \E l \in Limits : ChooseSize(l) \/ FitSize(l)
    \/ \E page \in 0 .. MaxMessages : TurnPage(page)
    \/ SwitchLive
    \/ \E stage \in {"sent", "upload"} : Manually(stage)
    \/ \E m \in Shapes : Receive(m)
    \/ \E m \in ImportShapes, at \in Times : Import(m, at)
    \/ \E r \in DOMAIN requests :
          Answer(r) \/ Arrive(r) \/ ArriveError(r) \/ Fail(r) \/ ImportDone(r)
    \/ Connect
    \/ HandleMessage
    \/ HandleError

(* The server answers what it is asked, and the browser hands answers to   *)
(* the page; nothing is assumed of the user.                               *)
Spec ==
    /\ Init
    /\ [][Next]_vars
    /\ WF_vars(Connect)
    /\ WF_vars(Answer(0))
    /\ WF_vars(Arrive(0))

-----------------------------------------------------------------------------
(* The list shows no message twice, and the newest first, although answers *)
(* and events overtake each other.                                         *)
ListOrdered ==
    \A a, b \in 1 .. Len(messages) :
        a < b => messages[a] # messages[b] /\ At(messages[a]) >= At(messages[b])

(* What is typed never costs the user the live updates: only a failing     *)
(* connection disables them, and no filter on its way to being valid.      *)
TypingKeepsLive == view.unavailable => failures > 0

(* Nothing is on its way, nothing failed, and the filter is a valid one.   *)
Current ==
    /\ \A r \in DOMAIN requests : requests[r].stage = "none"
    /\ failures = 0
    /\ view.filter \in Accepted

(* The list is about the hosts and the filter that the page shows, and no  *)
(* longer than a page: requests of the effect are aborted in time.  Only a *)
(* manual refresh, which nothing aborts, can come too late.                *)
ShownSelected ==
    (Current /\ ~late) =>
        /\ \A i \in 1 .. Len(messages) : Selected(messages[i], view.filter, view.hosts)
        /\ Len(messages) <= view.limit

(* Message n is selected and, with all selected messages that are not      *)
(* older, fits on the first page.                                          *)
OnFirstPage(n) ==
    /\ Selected(n, view.filter, view.hosts)
    /\ Cardinality({o \in 1 .. Len(stored) :
          Selected(o, view.filter, view.hosts) /\ At(o) >= At(n)}) <= view.limit

Caught == Current /\ stream = "open" /\ events = <<>>

(* Every message that belongs on the first page is in the list, although   *)
(* answers and events overtake each other and the list is cut, but for two *)
(* kinds that stay away until the next refresh: those stored after the     *)
(* answer was given and before the stream opened, which nobody sent; and   *)
(* those the stream brought after the answer was given and before it       *)
(* arrived, which handleMessage listed and refresh replaced away.          *)
LiveFresh ==
    (Caught /\ ~late) => \A n \in 1 .. Len(stored) :
        OnFirstPage(n) => n \in ToSet(messages) \cup lost \cup (given + 1 .. opened)

(* With live updates on the stream comes up again after every change of    *)
(* the filter, the hosts and the page size, unless something fails, or a   *)
(* manual refresh came too late: that one has put validatedFilter back to  *)
(* a filter that is no longer the page's, and the stream stays closed,     *)
(* while the switch says Live, until something is fetched again.           *)
LiveResumes ==
    view.auto ~> \/ stream = "open" \/ ~view.auto
                 \/ view.filter \notin Accepted \/ failures > 0 \/ late
=============================================================================
