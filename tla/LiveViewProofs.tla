--------------------------- MODULE LiveViewProofs ---------------------------
(***************************************************************************)
(* Proofs about LiveView, for any messages, filters, page sizes and        *)
(* number of requests: the list is in order, about what the page shows and *)
(* misses nothing, and typing never costs the user the live updates.       *)
(***************************************************************************)
EXTENDS LiveView, SortingProofs, SequenceTheorems

-----------------------------------------------------------------------------
(* The state of the page.                                                  *)

Stages == {"none", "sent", "upload", "answered", "failed"}

ViewType ==
    [filter : Filters, hosts : SUBSET Hosts, page : Nat, limit : Nat \ {0},
     validated : Accepted \cup {"none"}, auto : BOOLEAN, unavailable : BOOLEAN, hasMore : BOOLEAN]

RequestType ==
    [stage : Stages, filter : Filters, hosts : SUBSET Hosts, page : Nat, limit : Nat,
     data : Seq(Nat), hasMore : BOOLEAN, given : Nat, passed : SUBSET Nat]

AnyShape == Shapes \cup ImportShapes

Message == [at : Nat, host : {m.host : m \in AnyShape}, match : {m.match : m \in AnyShape}]

Numbers == 1 .. Len(stored)

TypeInv ==
    /\ stored \in Seq(Message)
    /\ input \in Filters
    /\ view \in ViewType
    /\ messages \in Seq(Numbers)
    /\ requests \in [0 .. MaxManual -> RequestType]
    /\ stream \in {"closed", "connecting", "open"}
    /\ events \in Seq(Numbers)
    /\ manual \in 0 .. MaxManual
    /\ failures \in Nat
    /\ given \in Nat /\ given <= Len(stored) /\ opened \in Nat
    /\ late \in BOOLEAN

(* The order, the selection and the first page, of any archive st.         *)
OrderedIn(st, s) ==
    \A a, b \in 1 .. Len(s) : a < b => s[a] # s[b] /\ st[s[a]].at >= st[s[b]].at

SelectedIn(st, n, filter, hosts) ==
    filter \in st[n].match /\ (hosts = {} \/ st[n].host \in hosts)

ChosenIn(st, s, filter, hosts, limit) ==
    /\ \A i \in 1 .. Len(s) : SelectedIn(st, s[i], filter, hosts)
    /\ Len(s) <= limit

NotOlder(st, n, filter, hosts) ==
    {o \in 1 .. Len(st) : SelectedIn(st, o, filter, hosts) /\ st[o].at >= st[n].at}

FirstPageOf(st, n, filter, hosts, limit) ==
    SelectedIn(st, n, filter, hosts) /\ Cardinality(NotOlder(st, n, filter, hosts)) <= limit

(* The sequence s has all of the first g messages that belong on the page. *)
HoldsFirst(st, s, g, filter, hosts, limit) ==
    \A n \in 1 .. Len(st) :
        n <= g /\ FirstPageOf(st, n, filter, hosts, limit) => n \in ToSet(s)

(* What an answer brings is a page of what was asked for, and if it is the *)
(* first page, all that belonged on it when it was given.                  *)
Brings(st, q) ==
    /\ q.filter \in Accepted
    /\ q.data \in Seq(1 .. Len(st))
    /\ OrderedIn(st, q.data)
    /\ ChosenIn(st, q.data, q.filter, q.hosts, q.limit)
    /\ q.given <= Len(st)
    /\ q.page = 0 => HoldsFirst(st, q.data, q.given, q.filter, q.hosts, q.limit)

(* What matches and was stored since the stream opened and the answer q    *)
(* was given is on its way to the page, or has passed the answer.          *)
Passing(st, q) ==
    \A n \in 1 .. Len(st) :
        n > opened /\ n > q.given /\ view.filter \in st[n].match
            => n \in ToSet(events) \cup q.passed

(* The request of the effect is about what the page shows, since every     *)
(* change of that sends another one.                                       *)
RequestsInv ==
    /\ requests[0].stage # "upload"
    /\ requests[0].stage # "none" => Fits(requests[0])
    /\ requests[0].stage = "failed" => failures > 0 \/ requests[0].filter \notin Accepted
    /\ \A r \in 0 .. MaxManual : requests[r].stage = "answered" => Brings(stored, requests[r])

(* The stream is there only while the filter is known to be valid, and     *)
(* brings what matches it.                                                 *)
LiveInv ==
    /\ stream # "closed" => Streamed(view)
    /\ \A i \in 1 .. Len(events) : view.filter \in stored[events[i]].match
    /\ TypingKeepsLive

(* The request of the effect has been served, and the list is of no other  *)
(* selection.                                                              *)
Quiet ==
    /\ requests[0].stage = "none"
    /\ failures = 0
    /\ view.filter \in Accepted
    /\ ~late

ShownInv == Quiet => ChosenIn(stored, messages, view.filter, view.hosts, view.limit)

PassedInv ==
    stream = "open" =>
        \A r \in 0 .. MaxManual :
            requests[r].stage = "answered" => Passing(stored, requests[r])

(* What the answer had is still in the list; what the stream has brought   *)
(* since is in the list, on its way to it, or was lost to the answer.      *)
FreshInv ==
    Quiet /\ view.page = 0 =>
        /\ HoldsFirst(stored, messages, given, view.filter, view.hosts, view.limit)
        /\ stream = "open" => \A n \in Numbers :
              n > given /\ n > opened /\ FirstPageOf(stored, n, view.filter, view.hosts, view.limit)
                  => n \in ToSet(messages) \cup ToSet(events) \cup lost

PageInv ==
    /\ TypeInv
    /\ RequestsInv
    /\ LiveInv
    /\ PassedInv
    /\ OrderedIn(stored, messages)
    /\ ShownInv
    /\ FreshInv

(* The invariant implies what the runs check.                              *)
LEMMA PageInvImplies == PageInv => TypingKeepsLive /\ ListOrdered /\ ShownSelected /\ LiveFresh
<1>. SUFFICES ASSUME PageInv PROVE TypingKeepsLive /\ ListOrdered /\ ShownSelected /\ LiveFresh
  OBVIOUS
<1>. USE DEF PageInv
<1>1. TypingKeepsLive /\ ListOrdered
  BY DEF LiveInv, OrderedIn, ListOrdered, At
<1>2. Current /\ ~late => Quiet
  BY BoundsAssumption DEF Current, Quiet, TypeInv
<1>3. ShownSelected
  BY <1>2 DEF ShownSelected, ShownInv, ChosenIn, SelectedIn, Selected
<1>4. LiveFresh
  <2>1. events = <<>> => ToSet(events) = {}
    BY DEF ToSet
  <2>2. \A n : OnFirstPage(n) => FirstPageOf(stored, n, view.filter, view.hosts, view.limit)
    BY DEF OnFirstPage, FirstPageOf, NotOlder, SelectedIn, Selected, At
  <2>. SUFFICES ASSUME Caught, ~late, NEW n \in 1 .. Len(stored), OnFirstPage(n)
                PROVE  n \in ToSet(messages) \cup lost \cup (given + 1 .. opened)
    BY DEF LiveFresh
  <2>3. Quiet /\ stream = "open" /\ view.page = 0 /\ n \in Numbers
    BY <1>2 DEF Caught, LiveInv, Streamed, Numbers
  <2>4. n \in Nat /\ given \in Nat /\ opened \in Nat
    BY DEF TypeInv
  <2>5. n <= given \/ (n > given /\ n > opened) \/ n \in given + 1 .. opened
    BY <2>4
  <2>. QED
    BY <2>1, <2>2, <2>3, <2>5 DEF Caught, FreshInv, HoldsFirst, Numbers
<1>. QED
  BY <1>1, <1>3, <1>4

(* The page starts with its request under way.                             *)
LEMMA InitPage == Init => PageInv
<1>. SUFFICES ASSUME Init PROVE PageInv
  OBVIOUS
<1>0. <<>> \in Seq(Message) /\ <<>> \in Seq(Numbers) /\ <<>> \in Seq(Nat)
  OBVIOUS
<1>1. PICK l \in Limits :
         view = [filter |-> "", hosts |-> {}, page |-> 0, limit |-> l, validated |-> "none",
                 auto |-> TRUE, unavailable |-> FALSE, hasMore |-> FALSE]
  BY DEF Init
<1>2. view \in ViewType /\ ~view.unavailable
  BY <1>1, FiltersAssumption, LimitsAssumption DEF ViewType
<1>3. /\ stored = <<>> /\ messages = <<>> /\ events = <<>> /\ input = "" /\ stream = "closed"
      /\ manual = 0 /\ failures = 0 /\ given = 0 /\ opened = 0 /\ late = FALSE
  BY DEF Init
<1>empty. Len(stored) = 0 /\ Len(messages) = 0 /\ Len(events) = 0
  BY <1>3
<1>4. Request("sent", view) \in RequestType /\ NoRequest \in RequestType
  BY <1>0, <1>1, FiltersAssumption, LimitsAssumption
  DEF Request, NoRequest, RequestType, Stages
<1>5. /\ requests \in [0 .. MaxManual -> RequestType]
      /\ requests[0] = Request("sent", view)
      /\ \A r \in 0 .. MaxManual : requests[r] \in {Request("sent", view), NoRequest}
  <2>1. requests = [r \in 0 .. MaxManual |-> IF r = 0 THEN Request("sent", view) ELSE NoRequest]
    BY DEF Init
  <2>2. 0 \in 0 .. MaxManual
    BY BoundsAssumption
  <2>. QED
    BY <1>4, <2>1, <2>2
<1>6. TypeInv
  <2>1. /\ manual \in 0 .. MaxManual /\ failures \in Nat
        /\ given \in Nat /\ given <= Len(stored) /\ opened \in Nat
    <3>1. manual = 0 /\ failures = 0 /\ given = 0 /\ opened = 0
      BY <1>3
    <3>. QED
      BY <1>empty, <3>1, BoundsAssumption
  <2>2. input \in Filters
    BY <1>3, FiltersAssumption
  <2>3. stored \in Seq(Message) /\ messages \in Seq(Numbers) /\ events \in Seq(Numbers)
    BY <1>0, <1>3
  <2>. QED
    BY <1>2, <1>3, <1>5, <2>1, <2>2, <2>3 DEF TypeInv
<1>7. /\ requests[0].stage = "sent" /\ Fits(requests[0])
      /\ \A r \in 0 .. MaxManual : requests[r].stage # "answered"
  <2>1. Request("sent", view).stage = "sent" /\ Fits(Request("sent", view))
    BY DEF Request, NoRequest, Fits
  <2>2. NoRequest.stage = "none"
    BY DEF NoRequest
  <2>. QED
    BY <1>5, <2>1, <2>2
<1>8. RequestsInv
  BY <1>7 DEF RequestsInv
<1>9. LiveInv
  <2>1. 1 .. Len(events) = {}
    BY <1>empty
  <2>. QED
    BY <1>2, <1>3, <2>1 DEF LiveInv, TypingKeepsLive
<1>10. OrderedIn(stored, messages)
  <2>1. 1 .. Len(messages) = {}
    BY <1>empty
  <2>. QED
    BY <2>1 DEF OrderedIn
<1>11. ~Quiet
  BY <1>7 DEF Quiet
<1>12. PassedInv
  BY <1>3 DEF PassedInv
<1>. QED
  BY <1>6, <1>8, <1>9, <1>10, <1>11, <1>12 DEF PageInv, ShownInv, FreshInv

-----------------------------------------------------------------------------
(* The archive grows: what is listed stays in order and selected.          *)
LEMMA GrowthKeeps ==
    ASSUME NEW X, NEW st \in Seq(X), NEW x \in X, NEW s \in Seq(1 .. Len(st))
    PROVE  /\ s \in Seq(1 .. Len(Append(st, x)))
           /\ OrderedIn(st, s) => OrderedIn(Append(st, x), s)
           /\ \A f, h, l : ChosenIn(st, s, f, h, l) => ChosenIn(Append(st, x), s, f, h, l)
<1>. DEFINE t == Append(st, x)
<1>1. /\ Len(st) \in Nat /\ Len(t) = Len(st) + 1
      /\ \A n \in 1 .. Len(st) : t[n] = st[n]
  OBVIOUS
<1>. HIDE DEF t
<1>2. \A i \in 1 .. Len(s) : s[i] \in 1 .. Len(st) /\ t[s[i]] = st[s[i]]
  BY <1>1
<1>3. s \in Seq(1 .. Len(t))
  <2>1. \A i \in 1 .. Len(s) : s[i] \in 1 .. Len(t)
    BY <1>1, <1>2
  <2>2. s \in [1 .. Len(s) -> 1 .. Len(t)] /\ Len(s) \in Nat
    BY <2>1
  <2>. QED
    BY <2>2
<1>4. OrderedIn(st, s) => OrderedIn(t, s)
  BY <1>2 DEF OrderedIn
<1>5. \A f, h, l : ChosenIn(st, s, f, h, l) => ChosenIn(t, s, f, h, l)
  BY <1>2 DEF ChosenIn, SelectedIn
<1>. QED
  BY <1>3, <1>4, <1>5 DEF t

(* The more is stored, the fewer of the old ones are on the first page.    *)
LEMMA GrowthCounts ==
    ASSUME NEW X, NEW st \in Seq(X), NEW x \in X, NEW n \in 1 .. Len(st), NEW f, NEW h,
           NEW l \in Nat, FirstPageOf(Append(st, x), n, f, h, l)
    PROVE  FirstPageOf(st, n, f, h, l)
<1>. DEFINE t == Append(st, x)
            A == NotOlder(st, n, f, h)
            B == NotOlder(t, n, f, h)
<1>1. /\ Len(st) \in Nat /\ Len(t) = Len(st) + 1
      /\ \A o \in 1 .. Len(st) : t[o] = st[o]
  OBVIOUS
<1>2. FirstPageOf(t, n, f, h, l)
  OBVIOUS
<1>. HIDE DEF t
<1>3. A \subseteq B /\ B \subseteq 1 .. Len(t) /\ SelectedIn(st, n, f, h)
  BY <1>1, <1>2 DEF NotOlder, SelectedIn, FirstPageOf
<1>4. Cardinality(B) <= l
  BY <1>2 DEF FirstPageOf
<1>. HIDE DEF A, B
<1>5. IsFiniteSet(1 .. Len(t))
  BY <1>1, FS_Interval
<1>6. IsFiniteSet(B) /\ Cardinality(B) \in Nat
  BY <1>3, <1>5, FS_Subset, FS_CardinalityType
<1>7. Cardinality(A) \in Nat /\ Cardinality(A) <= Cardinality(B)
  BY <1>3, <1>6, FS_Subset, FS_CardinalityType
<1>8. Cardinality(A) <= l
  BY <1>4, <1>6, <1>7
<1>. QED
  BY <1>3, <1>8 DEF FirstPageOf, A

LEMMA GrowthHolds ==
    ASSUME NEW X, NEW st \in Seq(X), NEW x \in X, NEW s, NEW g \in Nat, g <= Len(st),
           NEW f, NEW h, NEW l \in Nat, HoldsFirst(st, s, g, f, h, l)
    PROVE  HoldsFirst(Append(st, x), s, g, f, h, l)
<1>. SUFFICES ASSUME NEW n \in 1 .. Len(Append(st, x)), n <= g,
                     FirstPageOf(Append(st, x), n, f, h, l)
              PROVE  n \in ToSet(s)
  BY DEF HoldsFirst
<1>1. n \in 1 .. Len(st)
  OBVIOUS
<1>2. FirstPageOf(st, n, f, h, l)
  BY <1>1, GrowthCounts
<1>. QED
  BY <1>1, <1>2 DEF HoldsFirst

(* A message that is stored while the stream is open is on its way to the  *)
(* page.                                                                   *)
LEMMA StoreKeeps ==
    ASSUME PageInv, NEW m \in AnyShape, NEW at \in Nat, StoreMessage(m.host, m.match, at)
    PROVE  PageInv'
<1>. USE DEF PageInv
<1>. DEFINE x == [at |-> at, host |-> m.host, match |-> m.match]
            sent == stream = "open" /\ view.filter \in m.match
            new == Len(stored) + 1
<1>1. /\ stored' = Append(stored, x)
      /\ events' = IF sent THEN Append(events, new) ELSE events
      /\ UNCHANGED <<input, view, messages, requests, stream, manual, failures, history>>
  BY DEF StoreMessage
<1>2. x \in Message
  BY DEF Message
<1>3. /\ stored \in Seq(Message) /\ messages \in Seq(Numbers) /\ events \in Seq(Numbers)
      /\ view \in ViewType /\ requests \in [0 .. MaxManual -> RequestType]
      /\ given \in Nat /\ given <= Len(stored) /\ opened \in Nat
  BY DEF TypeInv
<1>4. x.match = m.match
  OBVIOUS
<1>. HIDE DEF x
<1>5. /\ stored' \in Seq(Message) /\ Len(stored) \in Nat /\ Len(stored') = Len(stored) + 1
      /\ stored'[new] = x /\ \A n \in Numbers : stored'[n] = stored[n]
  BY <1>1, <1>2, <1>3 DEF Numbers
<1>6. messages' \in Seq(Numbers') /\ OrderedIn(stored', messages')
  BY <1>1, <1>2, <1>3, GrowthKeeps DEF Numbers
<1>7. /\ events' \in Seq(Numbers')
      /\ \A i \in 1 .. Len(events') : view.filter \in stored'[events'[i]].match
      /\ ToSet(events) \subseteq ToSet(events')
      /\ sent => new \in ToSet(events')
  <2>1. events \in Seq(Numbers')
    BY <1>1, <1>2, <1>3, GrowthKeeps DEF Numbers
  <2>2. new \in Numbers' /\ Len(events) \in Nat
    BY <1>3, <1>5 DEF Numbers
  <2>3. \A i \in 1 .. Len(events) : view.filter \in stored'[events[i]].match
    <3>1. \A i \in 1 .. Len(events) : events[i] \in Numbers
      BY <1>3
    <3>. QED
      BY <1>5, <3>1 DEF LiveInv
  <2>4. CASE ~sent
    BY <1>1, <2>1, <2>3, <2>4
  <2>5. CASE sent
    <3>1. events' = Append(events, new) /\ view.filter \in stored'[new].match
      BY <1>1, <1>4, <1>5, <2>5
    <3>2. /\ events' \in Seq(Numbers') /\ Len(events') = Len(events) + 1
          /\ events'[Len(events) + 1] = new
          /\ \A i \in 1 .. Len(events) : events'[i] = events[i]
      BY <2>1, <2>2, <3>1
    <3>3. \A i \in 1 .. Len(events') : i \in 1 .. Len(events) \/ i = Len(events) + 1
      BY <2>2, <3>2
    <3>4. DOMAIN events = 1 .. Len(events) /\ DOMAIN events' = 1 .. Len(events')
      BY <1>3, <3>2
    <3>5. Len(events) + 1 \in 1 .. Len(events') /\ 1 .. Len(events) \subseteq 1 .. Len(events')
      BY <2>2, <3>2
    <3>. QED
      BY <2>3, <3>1, <3>2, <3>3, <3>4, <3>5 DEF ToSet
  <2>. QED
    BY <2>4, <2>5
<1>8. given' \in Nat /\ given' <= Len(stored') /\ opened' \in Nat /\ late' = late
  BY <1>1, <1>3, <1>5 DEF history
<1>9. TypeInv'
  BY <1>1, <1>5, <1>6, <1>7, <1>8 DEF TypeInv, ViewType, RequestType, Message, AnyShape
<1>10. RequestsInv'
  <2>1. ASSUME NEW r \in 0 .. MaxManual, requests[r].stage = "answered"
        PROVE  Brings(stored', requests[r])
    <3>. DEFINE q == requests[r]
    <3>1. Brings(stored, q)
      BY <2>1 DEF RequestsInv
    <3>2. q.given \in Nat /\ q.limit \in Nat
      BY <1>3 DEF RequestType
    <3>. HIDE DEF q
    <3>3. q.page = 0 => HoldsFirst(stored', q.data, q.given, q.filter, q.hosts, q.limit)
      BY <1>1, <1>2, <1>3, <3>1, <3>2, GrowthHolds DEF Brings
    <3>4. q.given <= Len(stored')
      BY <1>5, <3>1, <3>2 DEF Brings
    <3>5. Brings(stored', q)
      BY <1>1, <1>2, <1>3, <3>1, <3>3, <3>4, GrowthKeeps DEF Brings
    <3>. QED
      BY <3>5 DEF q
  <2>. QED
    BY <1>1, <2>1 DEF RequestsInv, Fits
<1>11. LiveInv'
  BY <1>1, <1>7 DEF LiveInv, Streamed, TypingKeepsLive
<1>12. ShownInv'
  BY <1>1, <1>2, <1>3, <1>8, GrowthKeeps DEF ShownInv, Quiet, Numbers
<1>13. PassedInv'
  <2>. SUFFICES ASSUME stream = "open", NEW r \in 0 .. MaxManual, requests[r].stage = "answered",
                       NEW n \in 1 .. Len(stored'), n > opened, n > requests[r].given,
                       view.filter \in stored'[n].match
                PROVE  n \in ToSet(events') \cup requests[r].passed
    BY <1>1 DEF PassedInv, Passing, history
  <2>1. CASE n = new
    BY <1>4, <1>5, <1>7, <2>1
  <2>2. CASE n # new
    <3>1. n \in Numbers /\ stored'[n] = stored[n]
      BY <1>5, <2>2 DEF Numbers
    <3>. QED
      BY <1>7, <3>1 DEF PassedInv, Passing, Numbers
  <2>. QED
    BY <2>1, <2>2
<1>14. FreshInv'
  <2>. SUFFICES ASSUME Quiet, view.page = 0
                PROVE  /\ HoldsFirst(stored', messages, given, view.filter, view.hosts, view.limit)
                       /\ stream = "open" => \A n \in Numbers' :
                            n > given /\ n > opened
                            /\ FirstPageOf(stored', n, view.filter, view.hosts, view.limit)
                                => n \in ToSet(messages) \cup ToSet(events') \cup lost
    BY <1>1 DEF FreshInv, Quiet, history
  <2>0. view.limit \in Nat
    BY <1>3 DEF ViewType
  <2>1. HoldsFirst(stored', messages, given, view.filter, view.hosts, view.limit)
    BY <1>1, <1>2, <1>3, <2>0, GrowthHolds DEF FreshInv
  <2>2. ASSUME stream = "open", NEW n \in Numbers', n > given, n > opened,
               FirstPageOf(stored', n, view.filter, view.hosts, view.limit)
        PROVE  n \in ToSet(messages) \cup ToSet(events') \cup lost
    <3>1. CASE n = new
      <4>1. view.filter \in m.match
        BY <1>4, <1>5, <2>2, <3>1 DEF FirstPageOf, SelectedIn
      <4>. QED
        BY <1>7, <2>2, <3>1, <4>1
    <3>2. CASE n # new
      <4>1. n \in 1 .. Len(stored) /\ n \in Numbers
        BY <1>5, <3>2 DEF Numbers
      <4>2. FirstPageOf(stored, n, view.filter, view.hosts, view.limit)
        BY <1>1, <1>2, <1>3, <2>0, <2>2, <4>1, GrowthCounts
      <4>. QED
        BY <1>7, <2>2, <4>1, <4>2 DEF FreshInv
    <3>. QED
      BY <3>1, <3>2
  <2>. QED
    BY <2>1, <2>2
<1>. QED
  BY <1>6, <1>9, <1>10, <1>11, <1>12, <1>13, <1>14

-----------------------------------------------------------------------------
(* A rendering changes what it was told to, asks again if that is about    *)
(* another selection, and keeps the stream only if it is not.              *)
SameSelection(v, w) ==
    v.filter = w.filter /\ v.hosts = w.hosts /\ v.page = w.page /\ v.limit = w.limit

LEMMA Rerendered ==
    ASSUME view \in ViewType, stream \in {"closed", "connecting", "open"},
           NEW v \in ViewType, NEW rs \in [0 .. MaxManual -> RequestType], NEW again \in BOOLEAN,
           Rerender(v, rs, again),
           v.hosts = view.hosts \/ again,
           v.filter = view.filter \/ v.validated = view.validated
    PROVE  /\ view' \in ViewType
           /\ SameSelection(view', v) /\ view'.unavailable = v.unavailable
           /\ requests' \in [0 .. MaxManual -> RequestType]
           /\ \A r \in 1 .. MaxManual : requests'[r] = rs[r]
           /\ \/ requests'[0] = Request("sent", view')
              \/ requests'[0] = rs[0] /\ SameSelection(view', view)
           /\ stream' \in {"closed", "connecting", "open"}
           /\ stream' # "closed" => Streamed(view')
           /\ \/ events' = <<>> /\ stream' # "open"
              \/ /\ events' = events /\ stream' = stream
                 /\ SameSelection(view', view)
<1>. DEFINE w == Settled(v)
            resized == again \/ w.limit # view.limit
            refetch == resized \/ w.filter # view.filter \/ w.page # view.page
            kept == Streamed(view) /\ Streamed(w) /\ ~resized
<1>1. /\ w \in ViewType /\ SameSelection(w, v)
      /\ w.unavailable = v.unavailable /\ w.validated = v.validated
  BY DEF Settled, ViewType, SameSelection
<1>2. /\ view' = w
      /\ requests' = IF refetch THEN Refetched(rs, w) ELSE rs
      /\ stream' = IF ~Streamed(w) THEN "closed" ELSE IF kept THEN stream ELSE "connecting"
      /\ events' = IF kept THEN events ELSE <<>>
  BY DEF Rerender
<1>. HIDE DEF w
<1>3. Request("sent", w) \in RequestType
  <2>1. <<>> \in Seq(Nat)
    OBVIOUS
  <2>. QED
    BY <1>1, <2>1 DEF Request, NoRequest, RequestType, ViewType, Stages
<1>4. 0 \in 0 .. MaxManual /\ \A r \in 1 .. MaxManual : r \in 0 .. MaxManual /\ r # 0
  BY BoundsAssumption
<1>5. CASE refetch
  <2>1. requests' = [rs EXCEPT ![0] = Request("sent", w)]
    BY <1>2, <1>5 DEF Refetched
  <2>2. /\ requests' \in [0 .. MaxManual -> RequestType]
        /\ requests'[0] = Request("sent", w)
        /\ \A r \in 1 .. MaxManual : requests'[r] = rs[r]
    BY <1>3, <1>4, <2>1
  <2>3. stream' \in {"closed", "connecting", "open"} /\ (stream' # "closed" => Streamed(w))
    BY <1>2
  <2>4. kept => SameSelection(w, view)
    BY <1>1 DEF Streamed, SameSelection
  <2>. HIDE DEF kept
  <2>5. \/ events' = <<>> /\ stream' # "open"
        \/ events' = events /\ stream' = stream /\ SameSelection(w, view)
    BY <1>2, <2>4 DEF kept
  <2>. QED
    BY <1>1, <1>2, <2>2, <2>3, <2>5
<1>6. CASE ~refetch
  <2>1. requests' = rs /\ SameSelection(w, view)
    BY <1>1, <1>2, <1>6 DEF SameSelection
  <2>2. stream' \in {"closed", "connecting", "open"} /\ (stream' # "closed" => Streamed(w))
    BY <1>2
  <2>3. \/ events' = <<>> /\ stream' # "open"
        \/ events' = events /\ stream' = stream /\ SameSelection(w, view)
    BY <1>2, <2>1
  <2>. QED
    BY <1>1, <1>2, <1>4, <2>1, <2>2, <2>3
<1>. QED
  BY <1>5, <1>6

(* Requests are kept or gone, and failures only grow: what the page waits  *)
(* for is still about what it shows.                                       *)
LEMMA RenderingKeeps ==
    ASSUME PageInv, NEW v \in ViewType, NEW rs \in [0 .. MaxManual -> RequestType],
           NEW again \in BOOLEAN, Rerender(v, rs, again),
           v.hosts = view.hosts \/ again,
           v.filter = view.filter \/ v.validated = view.validated,
           \A r \in 0 .. MaxManual : rs[r] \in {requests[r], NoRequest},
           stored' = stored, failures' \in Nat, failures' >= failures,
           v.unavailable => failures' > 0, opened' = opened
    PROVE  /\ view' \in ViewType /\ requests' \in [0 .. MaxManual -> RequestType]
           /\ stream' \in {"closed", "connecting", "open"} /\ events' \in Seq(Numbers')
           /\ RequestsInv' /\ LiveInv' /\ PassedInv'
<1>. USE DEF PageInv
<1>1. /\ view \in ViewType /\ stream \in {"closed", "connecting", "open"}
      /\ events \in Seq(Numbers) /\ failures \in Nat
  BY DEF TypeInv
<1>2. /\ view' \in ViewType
      /\ SameSelection(view', v) /\ view'.unavailable = v.unavailable
      /\ requests' \in [0 .. MaxManual -> RequestType]
      /\ \A r \in 1 .. MaxManual : requests'[r] = rs[r]
      /\ \/ requests'[0] = Request("sent", view')
         \/ requests'[0] = rs[0] /\ SameSelection(view', view)
      /\ stream' \in {"closed", "connecting", "open"}
      /\ stream' # "closed" => Streamed(view')
      /\ \/ events' = <<>> /\ stream' # "open"
         \/ /\ events' = events /\ stream' = stream
            /\ SameSelection(view', view)
  BY <1>1, Rerendered
<1>3. /\ Request("sent", view').stage = "sent"
      /\ Request("sent", view').filter = view'.filter /\ Request("sent", view').hosts = view'.hosts
      /\ Request("sent", view').page = view'.page /\ Request("sent", view').limit = view'.limit
      /\ NoRequest.stage = "none"
  BY DEF Request, NoRequest
<1>4. 0 \in 0 .. MaxManual /\ \A r \in 0 .. MaxManual : r = 0 \/ r \in 1 .. MaxManual
  BY BoundsAssumption
<1>5. RequestsInv'
  <2>1. \/ /\ requests'[0].stage = "sent" /\ Fits(requests[0])'
        \/ requests'[0].stage = "none"
        \/ requests'[0] = requests[0] /\ SameSelection(view', view)
    BY <1>2, <1>3, <1>4 DEF Fits
  <2>2. /\ requests'[0].stage # "upload"
        /\ requests'[0].stage # "none" => Fits(requests[0])'
    BY <2>1 DEF RequestsInv, Fits, SameSelection
  <2>3. requests'[0].stage = "failed" => failures' > 0 \/ requests'[0].filter \notin Accepted
    <3>1. requests'[0].stage = "failed" => requests'[0] = requests[0]
      BY <2>1
    <3>. QED
      BY <1>1, <3>1 DEF RequestsInv
  <2>4. ASSUME NEW r \in 0 .. MaxManual, requests'[r].stage = "answered"
        PROVE  Brings(stored', requests'[r])
    <3>1. requests'[r] = requests[r]
      BY <1>2, <1>3, <1>4, <2>1, <2>4
    <3>2. Brings(stored, requests[r])
      BY <2>4, <3>1 DEF RequestsInv
    <3>. QED
      BY <3>1, <3>2
  <2>. QED
    BY <2>2, <2>3, <2>4 DEF RequestsInv
<1>6. events' \in Seq(Numbers')
  <2>1. Numbers' = Numbers /\ <<>> \in Seq(Numbers)
    BY DEF Numbers
  <2>. QED
    BY <1>1, <1>2, <2>1
<1>7. LiveInv'
  <2>1. \A i \in 1 .. Len(events') : view'.filter \in stored'[events'[i]].match
    <3>1. CASE events' = <<>>
      <4>1. 1 .. Len(events') = {}
        BY <3>1
      <4>. QED
        BY <4>1
    <3>2. CASE events' = events /\ SameSelection(view', view)
      BY <3>2 DEF LiveInv, SameSelection
    <3>. QED
      BY <1>2, <3>1, <3>2
  <2>2. TypingKeepsLive'
    BY <1>2 DEF TypingKeepsLive
  <2>3. stream' # "closed" => Streamed(view)'
    BY <1>2 DEF Streamed
  <2>. QED
    BY <2>1, <2>2, <2>3 DEF LiveInv
<1>8. PassedInv'
  <2>. SUFFICES ASSUME stream' = "open", NEW r \in 0 .. MaxManual, requests'[r].stage = "answered"
                PROVE  Passing(stored, requests[r])'
    BY DEF PassedInv
  <2>1. events' = events /\ stream = "open" /\ view'.filter = view.filter
    BY <1>2 DEF SameSelection
  <2>2. requests'[r] = requests[r]
    BY <1>2, <1>3, <1>4
  <2>3. Passing(stored, requests[r])
    BY <2>1, <2>2 DEF PassedInv
  <2>. QED
    BY <2>1, <2>2, <2>3 DEF Passing
<1>. QED
  BY <1>2, <1>5, <1>6, <1>7, <1>8

(* Where the list stays as it is, it is about what the page shows or the   *)
(* page has asked again.                                                   *)
LEMMA RerenderKeeps ==
    ASSUME PageInv, NEW v \in ViewType, NEW rs \in [0 .. MaxManual -> RequestType],
           NEW again \in BOOLEAN, Rerender(v, rs, again),
           v.hosts = view.hosts \/ again,
           v.filter = view.filter \/ v.validated = view.validated,
           \A r \in 0 .. MaxManual : rs[r] \in {requests[r], NoRequest},
           rs[0] = requests[0],
           stored' = stored, failures' \in Nat, failures' >= failures,
           v.unavailable => failures' > 0,
           UNCHANGED <<messages, manual, history>>, input' \in Filters
    PROVE  PageInv'
<1>. USE DEF PageInv
<1>1. /\ view' \in ViewType /\ requests' \in [0 .. MaxManual -> RequestType]
      /\ stream' \in {"closed", "connecting", "open"} /\ events' \in Seq(Numbers')
      /\ RequestsInv' /\ LiveInv' /\ PassedInv'
  BY RenderingKeeps DEF history
<1>2. TypeInv'
  BY <1>1 DEF TypeInv, history, Numbers, ViewType, RequestType, Message, AnyShape
<1>3. /\ view \in ViewType /\ stream \in {"closed", "connecting", "open"} /\ failures \in Nat
  BY DEF TypeInv
<1>4. /\ \/ requests'[0] = Request("sent", view')
         \/ requests'[0] = rs[0] /\ SameSelection(view', view)
      /\ \/ events' = <<>> /\ stream' # "open"
         \/ /\ events' = events /\ stream' = stream
            /\ SameSelection(view', view)
  BY <1>3, Rerendered
<1>5. Quiet' => Quiet /\ SameSelection(view', view)
  <2>1. Request("sent", view').stage = "sent"
    BY DEF Request, NoRequest
  <2>2. Quiet' => requests'[0] = requests[0] /\ SameSelection(view', view)
    BY <1>4, <2>1 DEF Quiet
  <2>3. failures' = 0 => failures = 0
    BY <1>3
  <2>. QED
    BY <2>2, <2>3 DEF Quiet, SameSelection, history
<1>6. ShownInv'
  BY <1>5 DEF ShownInv, SameSelection
<1>7. FreshInv'
  BY <1>4, <1>5 DEF FreshInv, SameSelection, Numbers, history
<1>. QED
  BY <1>1, <1>2, <1>6, <1>7

(* What the user does to the page.                                         *)
LEMMA UserKeeps ==
    ASSUME PageInv,
           \/ \E f \in Filters : ShowEvidence(f)
           \/ FilterApplies
           \/ \E hosts \in SUBSET Hosts : ChooseHosts(hosts)
           \/ \E l \in Limits : ChooseSize(l) \/ FitSize(l)
           \/ \E page \in 0 .. MaxMessages : TurnPage(page)
           \/ SwitchLive
    PROVE  PageInv'
<1>1. /\ view \in ViewType /\ requests \in [0 .. MaxManual -> RequestType]
      /\ failures \in Nat /\ input \in Filters
      /\ view.unavailable => failures > 0
  BY DEF PageInv, TypeInv, LiveInv, TypingKeepsLive
<1>2. ASSUME NEW v \in ViewType, NEW again \in BOOLEAN, Rerender(v, requests, again),
             v.hosts = view.hosts \/ again,
             v.filter = view.filter \/ v.validated = view.validated,
             v.unavailable = view.unavailable,
             UNCHANGED <<stored, failures, messages, manual, history>>, input' \in Filters
      PROVE  PageInv'
  <2>1. failures' \in Nat /\ failures' >= failures /\ (v.unavailable => failures' > 0)
    BY <1>1, <1>2
  <2>2. /\ \A r \in 0 .. MaxManual : requests[r] \in {requests[r], NoRequest}
        /\ UNCHANGED <<messages, manual, history>>
        /\ stored' = stored
    BY <1>2
  <2>. QED
    BY <1>1, <1>2, <2>1, <2>2, RerenderKeeps
<1>3. ASSUME NEW f \in Filters, ShowEvidence(f) PROVE PageInv'
  <2>. DEFINE v == [view EXCEPT !.page = 0]
  <2>1. /\ v \in ViewType /\ v.hosts = view.hosts /\ v.filter = view.filter
        /\ v.unavailable = view.unavailable
    BY <1>1 DEF ViewType
  <2>. QED
    BY <1>1, <1>2, <1>3, <2>1 DEF ShowEvidence
<1>4. ASSUME FilterApplies PROVE PageInv'
  <2>. DEFINE v == [view EXCEPT !.filter = input, !.page = 0]
  <2>1. /\ v \in ViewType /\ v.hosts = view.hosts /\ v.validated = view.validated
        /\ v.unavailable = view.unavailable
    BY <1>1 DEF ViewType
  <2>. QED
    BY <1>1, <1>2, <1>4, <2>1 DEF FilterApplies
<1>5. ASSUME NEW hosts \in SUBSET Hosts, ChooseHosts(hosts) PROVE PageInv'
  <2>. DEFINE v == [view EXCEPT !.page = 0, !.hosts = hosts]
  <2>1. v \in ViewType /\ v.filter = view.filter /\ v.unavailable = view.unavailable
    BY <1>1 DEF ViewType
  <2>. QED
    BY <1>1, <1>2, <1>5, <2>1 DEF ChooseHosts
<1>6. ASSUME NEW l \in Limits, ChooseSize(l) PROVE PageInv'
  <2>. DEFINE v == [view EXCEPT !.page = 0, !.limit = l]
  <2>1. /\ v \in ViewType /\ v.hosts = view.hosts /\ v.filter = view.filter
        /\ v.unavailable = view.unavailable
    BY <1>1, LimitsAssumption DEF ViewType
  <2>. QED
    BY <1>1, <1>2, <1>6, <2>1 DEF ChooseSize
<1>7. ASSUME NEW l \in Limits, FitSize(l) PROVE PageInv'
  <2>. DEFINE v == [view EXCEPT !.limit = l]
  <2>1. /\ v \in ViewType /\ v.hosts = view.hosts /\ v.filter = view.filter
        /\ v.unavailable = view.unavailable
    BY <1>1, LimitsAssumption DEF ViewType
  <2>. QED
    BY <1>1, <1>2, <1>7, <2>1 DEF FitSize
<1>8. ASSUME NEW page \in 0 .. MaxMessages, TurnPage(page) PROVE PageInv'
  <2>. DEFINE v == [view EXCEPT !.page = page]
  <2>1. /\ v \in ViewType /\ v.hosts = view.hosts /\ v.filter = view.filter
        /\ v.unavailable = view.unavailable
    BY <1>1, BoundsAssumption DEF ViewType
  <2>. QED
    BY <1>1, <1>2, <1>8, <2>1 DEF TurnPage
<1>9. ASSUME SwitchLive PROVE PageInv'
  <2>. DEFINE v == [view EXCEPT !.auto = ~view.auto]
  <2>1. /\ v \in ViewType /\ v.hosts = view.hosts /\ v.filter = view.filter
        /\ v.unavailable = view.unavailable
    BY <1>1 DEF ViewType
  <2>. QED
    BY <1>1, <1>2, <1>9, <2>1 DEF SwitchLive
<1>. QED
  BY <1>3, <1>4, <1>5, <1>6, <1>7, <1>8, <1>9

(* An error of the stream: it was open, so its filter is a valid one, and  *)
(* it is a connection that failed.                                         *)
LEMMA ErrorKeeps ==
    ASSUME PageInv, HandleError
    PROVE  PageInv'
<1>1. /\ view \in ViewType /\ requests \in [0 .. MaxManual -> RequestType]
      /\ failures \in Nat /\ input \in Filters
  BY DEF PageInv, TypeInv
<1>2. view.filter \in Accepted
  <2>1. view.validated = view.filter
    BY DEF PageInv, LiveInv, HandleError, Streamed
  <2>. QED
    BY <1>1, <2>1, FiltersAssumption DEF ViewType
<1>3. failures' = failures + 1
  BY <1>2 DEF HandleError
<1>. DEFINE v == [view EXCEPT !.auto = FALSE, !.unavailable = TRUE]
<1>4. v \in ViewType /\ v.hosts = view.hosts /\ v.filter = view.filter
  BY <1>1 DEF ViewType
<1>5. failures' \in Nat /\ failures' >= failures /\ failures' > 0
  BY <1>1, <1>3
<1>6. /\ Rerender(v, requests, FALSE) /\ input' \in Filters /\ stored' = stored
      /\ UNCHANGED <<messages, manual, history>>
  BY <1>1 DEF HandleError
<1>. HIDE DEF v
<1>. QED
  BY <1>1, <1>4, <1>5, <1>6, RerenderKeeps

(* What changes neither the selection nor the list.                        *)
LEMMA AsideKeeps ==
    ASSUME PageInv,
           \/ UNCHANGED vars
           \/ \E f \in Filters : Type(f)
           \/ Connect
    PROVE  PageInv'
<1>1. CASE UNCHANGED vars
  BY <1>1 DEF vars, history, PageInv, TypeInv, RequestsInv, LiveInv, PassedInv, Passing, ShownInv,
              FreshInv, Quiet, Fits, Streamed, TypingKeepsLive, Numbers, ViewType, RequestType, Message, AnyShape
<1>2. ASSUME NEW f \in Filters, Type(f) PROVE PageInv'
  BY <1>2 DEF Type, history, PageInv, TypeInv, RequestsInv, LiveInv, PassedInv, Passing, ShownInv,
              FreshInv, Quiet, Fits, Streamed, TypingKeepsLive, Numbers, ViewType, RequestType, Message, AnyShape
<1>3. CASE Connect
  <2>1. /\ stream = "connecting" /\ stream' = "open" /\ opened' = Len(stored)
        /\ UNCHANGED <<stored, input, view, messages, requests, events, manual, failures>>
        /\ UNCHANGED <<given, lost, late>>
    BY <1>3 DEF Connect
  <2>2. Len(stored) \in Nat
    BY DEF PageInv, TypeInv
  <2>3. TypeInv'
    BY <2>1, <2>2 DEF PageInv, TypeInv, Numbers, ViewType, RequestType, Message, AnyShape
  <2>4. RequestsInv' /\ LiveInv' /\ ShownInv' /\ OrderedIn(stored, messages)'
    BY <2>1 DEF PageInv, RequestsInv, LiveInv, ShownInv, Quiet, Fits, Streamed, TypingKeepsLive
  <2>5. \A n \in 1 .. Len(stored) : ~(n > opened')
    BY <2>1, <2>2
  <2>6. PassedInv'
    BY <2>1, <2>5 DEF PassedInv, Passing
  <2>7. FreshInv'
    BY <2>1, <2>5 DEF PageInv, FreshInv, Quiet, Numbers
  <2>. QED
    BY <2>3, <2>4, <2>6, <2>7 DEF PageInv
<1>. QED
  BY <1>1, <1>2, <1>3

-----------------------------------------------------------------------------
(* A request changes: that of the effect stays one about what is shown, or *)
(* ends with a failure.                                                    *)
LEMMA RequestKeeps ==
    ASSUME PageInv, NEW r \in 0 .. MaxManual, NEW q \in RequestType,
           requests' = [requests EXCEPT ![r] = q],
           UNCHANGED <<stored, input, view, messages, stream, events, history>>,
           manual' \in 0 .. MaxManual, failures' \in Nat, failures' >= failures,
           q.stage = "answered" => Brings(stored, q) /\ (stream = "open" => Passing(stored, q)),
           r = 0 => /\ q.stage # "upload"
                    /\ q.stage # "none" => Fits(q)
                    /\ q.stage = "failed" => failures' > 0 \/ q.filter \notin Accepted
                    /\ q.stage = "none" => failures' > 0 \/ view.filter \notin Accepted
    PROVE  PageInv'
<1>. USE DEF PageInv
<1>1. requests \in [0 .. MaxManual -> RequestType] /\ failures \in Nat
  BY DEF TypeInv
<1>2. /\ requests' \in [0 .. MaxManual -> RequestType] /\ requests'[r] = q
      /\ \A p \in 0 .. MaxManual : p # r => requests'[p] = requests[p]
  BY <1>1
<1>3. 0 \in 0 .. MaxManual
  BY BoundsAssumption
<1>4. TypeInv'
  BY <1>2 DEF TypeInv, history, Numbers, ViewType, RequestType, Message, AnyShape
<1>5. RequestsInv'
  <2>1. /\ requests'[0].stage # "upload"
        /\ requests'[0].stage # "none" => Fits(requests[0])'
        /\ requests'[0].stage = "failed" => failures' > 0 \/ requests'[0].filter \notin Accepted
    <3>1. CASE r = 0
      BY <1>2, <3>1 DEF Fits
    <3>2. CASE r # 0
      <4>1. requests'[0] = requests[0]
        BY <1>2, <1>3, <3>2
      <4>. QED
        BY <1>1, <4>1 DEF RequestsInv, Fits
    <3>. QED
      BY <3>1, <3>2
  <2>2. \A p \in 0 .. MaxManual :
           requests'[p].stage = "answered" => Brings(stored', requests'[p])
    BY <1>2 DEF RequestsInv
  <2>. QED
    BY <2>1, <2>2 DEF RequestsInv
<1>6. LiveInv'
  BY <1>1 DEF LiveInv, Streamed, TypingKeepsLive, TypeInv
<1>7. Quiet' => Quiet
  <2>1. CASE r = 0
    BY <1>2, <2>1 DEF Quiet, history
  <2>2. CASE r # 0
    <3>1. requests'[0] = requests[0] /\ (failures' = 0 => failures = 0)
      BY <1>1, <1>2, <1>3, <2>2
    <3>. QED
      BY <3>1 DEF Quiet, history
  <2>. QED
    BY <2>1, <2>2
<1>8. ShownInv' /\ FreshInv' /\ OrderedIn(stored, messages)'
  BY <1>7 DEF ShownInv, FreshInv, Numbers, history
<1>9. PassedInv'
  <2>. SUFFICES ASSUME stream = "open", NEW p \in 0 .. MaxManual, requests'[p].stage = "answered"
                PROVE  Passing(stored, requests'[p])
    BY DEF PassedInv, Passing, history
  <2>. QED
    BY <1>2 DEF PassedInv
<1>. QED
  BY <1>4, <1>5, <1>6, <1>8, <1>9

LEMMA NoRequestTyped == NoRequest \in RequestType /\ NoRequest.stage = "none"
<1>1. <<>> \in Seq(Nat)
  OBVIOUS
<1>2. "" \in Filters
  BY FiltersAssumption
<1>. QED
  BY <1>1, <1>2 DEF NoRequest, RequestType, Stages

(* Requests are sent, fail and come back with an error.                    *)
LEMMA RequestsKeep ==
    ASSUME PageInv,
           \/ \E stage \in {"sent", "upload"} : Manually(stage)
           \/ \E r \in 0 .. MaxManual : ArriveError(r) \/ Fail(r)
    PROVE  PageInv'
<1>1. /\ view \in ViewType /\ requests \in [0 .. MaxManual -> RequestType]
      /\ failures \in Nat /\ manual \in 0 .. MaxManual
  BY DEF PageInv, TypeInv
<1>2. NoRequest \in RequestType /\ NoRequest.stage = "none"
  BY NoRequestTyped
<1>3. failures >= failures
  BY <1>1
<1>4. ASSUME NEW stage \in {"sent", "upload"}, Manually(stage) PROVE PageInv'
  <2>1. /\ manual + 1 \in 0 .. MaxManual /\ manual + 1 # 0 /\ manual' = manual + 1
        /\ requests' = [requests EXCEPT ![manual + 1] = Request(stage, view)]
    BY <1>1, <1>4, BoundsAssumption DEF Manually
  <2>2. Request(stage, view) \in RequestType /\ Request(stage, view).stage # "answered"
    <3>1. <<>> \in Seq(Nat)
      OBVIOUS
    <3>. QED
      BY <1>1, <3>1 DEF Request, NoRequest, RequestType, ViewType, Stages
  <2>3. UNCHANGED <<stored, input, view, messages, stream, events, history, failures>>
    BY <1>4 DEF Manually
  <2>. QED
    BY <1>1, <1>3, <2>1, <2>2, <2>3, RequestKeeps
<1>5. ASSUME NEW r \in 0 .. MaxManual, ArriveError(r) PROVE PageInv'
  <2>1. /\ requests[r].stage = "failed" /\ requests' = [requests EXCEPT ![r] = NoRequest]
        /\ UNCHANGED <<stored, input, view, messages, stream, events, history, failures, manual>>
    BY <1>5 DEF ArriveError
  <2>2. r = 0 => failures' > 0 \/ view.filter \notin Accepted
    BY <2>1 DEF PageInv, RequestsInv, Fits
  <2>. QED
    BY <1>1, <1>2, <1>3, <2>1, <2>2, RequestKeeps
<1>6. ASSUME NEW r \in 0 .. MaxManual, Fail(r) PROVE PageInv'
  <2>. DEFINE q == [requests[r] EXCEPT !.stage = "failed"]
  <2>1. /\ requests[r].stage # "none" /\ failures' = failures + 1
        /\ requests' = [requests EXCEPT ![r] = q]
        /\ UNCHANGED <<stored, input, view, messages, stream, events, history, manual>>
    BY <1>1, <1>6 DEF Fail
  <2>2. /\ q \in RequestType /\ q.stage = "failed"
        /\ q.filter = requests[r].filter /\ q.hosts = requests[r].hosts
        /\ q.page = requests[r].page /\ q.limit = requests[r].limit
    <3>1. requests[r] \in RequestType
      BY <1>1
    <3>. QED
      BY <3>1 DEF RequestType, Stages
  <2>. HIDE DEF q
  <2>3. r = 0 => Fits(q)
    BY <2>1, <2>2 DEF PageInv, RequestsInv, Fits
  <2>4. failures' \in Nat /\ failures' >= failures /\ failures' > 0
    BY <1>1, <2>1
  <2>. QED
    BY <1>1, <2>1, <2>2, <2>3, <2>4, RequestKeeps
<1>. QED
  BY <1>4, <1>5, <1>6

(* An import that is done refreshes the page, or goes to the first one.    *)
LEMMA ImportKeeps ==
    ASSUME PageInv, NEW r \in 0 .. MaxManual, ImportDone(r)
    PROVE  PageInv'
<1>1. /\ view \in ViewType /\ requests \in [0 .. MaxManual -> RequestType]
      /\ failures \in Nat /\ manual \in 0 .. MaxManual /\ input \in Filters
      /\ view.unavailable => failures > 0
      /\ requests[r] \in RequestType
  BY DEF PageInv, TypeInv, LiveInv, TypingKeepsLive
<1>2. /\ r # 0 /\ UNCHANGED <<stored, input, messages, manual, failures, history>>
      /\ failures >= failures
  BY <1>1 DEF ImportDone, PageInv, RequestsInv
<1>3. CASE requests[r].page = 0
  <2>. DEFINE q == [requests[r] EXCEPT !.stage = "sent"]
  <2>1. requests' = [requests EXCEPT ![r] = q] /\ UNCHANGED <<view, stream, events>>
    BY <1>1, <1>3 DEF ImportDone
  <2>2. q \in RequestType /\ q.stage = "sent"
    BY <1>1 DEF RequestType, Stages
  <2>. HIDE DEF q
  <2>. QED
    BY <1>1, <1>2, <2>1, <2>2, RequestKeeps
<1>4. CASE requests[r].page # 0
  <2>. DEFINE v == [view EXCEPT !.page = 0]
              rs == [requests EXCEPT ![r] = NoRequest]
  <2>1. Rerender(v, rs, FALSE)
    BY <1>4 DEF ImportDone
  <2>2. /\ v \in ViewType /\ v.hosts = view.hosts /\ v.filter = view.filter
        /\ v.unavailable = view.unavailable
    BY <1>1 DEF ViewType
  <2>3. NoRequest \in RequestType
    BY NoRequestTyped
  <2>4. 0 \in 0 .. MaxManual
    BY BoundsAssumption
  <2>5. /\ rs \in [0 .. MaxManual -> RequestType] /\ rs[0] = requests[0]
        /\ \A p \in 0 .. MaxManual : rs[p] \in {requests[p], NoRequest}
    BY <1>1, <1>2, <2>3, <2>4
  <2>. HIDE DEF v, rs
  <2>6. v.unavailable => failures' > 0
    BY <1>1, <1>2, <2>2
  <2>. QED
    BY <1>1, <1>2, <2>1, <2>2, <2>5, <2>6, RerenderKeeps
<1>. QED
  BY <1>3, <1>4

-----------------------------------------------------------------------------
LEMMA StoredTyped ==
    ASSUME PageInv
    PROVE  /\ stored \in Seq(Message) /\ Len(stored) \in Nat /\ IsFiniteSet(Numbers)
           /\ \A n \in Numbers : n \in Nat /\ stored[n].at \in Nat
<1>1. stored \in Seq(Message)
  BY DEF PageInv, TypeInv
<1>2. \A n \in Numbers : n \in Nat /\ stored[n] \in Message
  BY <1>1 DEF Numbers
<1>3. \A m \in Message : m.at \in Nat
  BY DEF Message
<1>4. IsFiniteSet(Numbers)
  <2>1. Len(stored) \in Int /\ 1 \in Int
    BY <1>1
  <2>. QED
    BY <2>1, FS_Interval DEF Numbers
<1>. QED
  BY <1>1, <1>2, <1>3, <1>4

(* What the server lists is in order and selected.                         *)
LEMMA ListedInOrder ==
    ASSUME PageInv, NEW f, NEW h
    PROVE  /\ Listed(f, h) \in Seq(Numbers)
           /\ OrderedIn(stored, Listed(f, h))
           /\ \A i \in 1 .. Len(Listed(f, h)) : SelectedIn(stored, Listed(f, h)[i], f, h)
           /\ \A n \in Numbers : SelectedIn(stored, n, f, h) =>
                 \E i \in 1 .. Len(Listed(f, h)) : Listed(f, h)[i] = n
<1>. DEFINE S == Listing(f, h)
            before == Latest(S)
            s == Listed(f, h)
<1>1. /\ stored \in Seq(Message) /\ Len(stored) \in Nat
      /\ \A n \in Numbers : n \in Nat /\ stored[n].at \in Nat
  BY StoredTyped
<1>2. /\ S \subseteq Numbers /\ \A n \in S : SelectedIn(stored, n, f, h)
      /\ \A n \in Numbers : SelectedIn(stored, n, f, h) => n \in S
  BY DEF Listing, Numbers, Selected, SelectedIn
<1>3. IsFiniteSet(S)
  <2>1. IsFiniteSet(Numbers)
    BY StoredTyped
  <2>. QED
    BY <1>2, <2>1, FS_Subset
<1>. HIDE DEF S
<1>4. \A a, b \in S : <<a, b>> \in before <=>
          (stored[a].at > stored[b].at \/ (stored[a].at = stored[b].at /\ a > b))
  BY DEF Latest, At
<1>5. \A n \in S : n \in Nat /\ stored[n].at \in Nat
  BY <1>1, <1>2
<1>. HIDE DEF before
<1>6. LinearOn(S, before)
  <2>1. \A a \in S : <<a, a>> \notin before
    BY <1>4, <1>5
  <2>2. ASSUME NEW a \in S, NEW b \in S, a # b PROVE <<a, b>> \in before \/ <<b, a>> \in before
    <3>. DEFINE x == stored[a].at
                y == stored[b].at
    <3>1. x \in Nat /\ y \in Nat /\ a \in Nat /\ b \in Nat
      BY <1>5
    <3>2. /\ <<a, b>> \in before <=> (x > y \/ (x = y /\ a > b))
          /\ <<b, a>> \in before <=> (y > x \/ (y = x /\ b > a))
      BY <1>4
    <3>. HIDE DEF x, y
    <3>3. x > y \/ y > x \/ (x = y /\ a > b) \/ (y = x /\ b > a)
      BY <2>2, <3>1
    <3>. QED
      BY <3>2, <3>3
  <2>3. \A a, b, c \in S : <<a, b>> \in before /\ <<b, c>> \in before => <<a, c>> \in before
    BY <1>4, <1>5
  <2>. QED
    BY <2>1, <2>2, <2>3 DEF LinearOn
<1>7. s = Sorted(S, before)
  BY DEF Listed, S, before
<1>. HIDE DEF s
<1>8. /\ s \in Seq(S) /\ Len(s) = Cardinality(S)
      /\ \A i, j \in 1 .. Cardinality(S) : i < j => <<s[i], s[j]>> \in before
      /\ \A a \in S : \E i \in 1 .. Cardinality(S) : s[i] = a
  BY <1>3, <1>6, <1>7, SortedOrders
<1>9. \A i \in 1 .. Len(s) : s[i] \in S
  BY <1>8
<1>10. OrderedIn(stored, s)
  <2>. SUFFICES ASSUME NEW a \in 1 .. Len(s), NEW b \in 1 .. Len(s), a < b
                PROVE  s[a] # s[b] /\ stored[s[a]].at >= stored[s[b]].at
    BY DEF OrderedIn
  <2>1. s[a] \in S /\ s[b] \in S /\ <<s[a], s[b]>> \in before
    BY <1>8, <1>9
  <2>2. s[a] # s[b]
    BY <1>6, <2>1 DEF LinearOn
  <2>3. stored[s[a]].at > stored[s[b]].at \/ stored[s[a]].at = stored[s[b]].at
    BY <1>4, <2>1
  <2>4. stored[s[a]].at \in Nat /\ stored[s[b]].at \in Nat
    BY <1>5, <2>1
  <2>. QED
    BY <2>2, <2>3, <2>4
<1>11. s \in Seq(Numbers)
  <2>1. s \in [1 .. Len(s) -> Numbers] /\ Len(s) \in Nat
    BY <1>2, <1>8, <1>9
  <2>. QED
    BY <2>1
<1>12. \A n \in Numbers : SelectedIn(stored, n, f, h) => \E i \in 1 .. Len(s) : s[i] = n
  BY <1>2, <1>8
<1>. QED
  BY <1>2, <1>9, <1>10, <1>11, <1>12 DEF s

(* A page of a list: a part of it, in the same order.                      *)
LEMMA PageOfList ==
    ASSUME NEW X, NEW s \in Seq(X), NEW first \in Nat, NEW limit \in Nat
    PROVE  LET page == SubSeq(s, first + 1, LesserOf(first + limit, Len(s)))
           IN  /\ page \in Seq(X)
               /\ Len(page) <= limit
               /\ \A i \in 1 .. Len(page) : first + i \in 1 .. Len(s) /\ page[i] = s[first + i]
               /\ first = 0 => Len(page) = LesserOf(limit, Len(s))
<1>. DEFINE last == LesserOf(first + limit, Len(s))
            page == SubSeq(s, first + 1, last)
<1>1. /\ last \in Nat /\ last <= Len(s) /\ last <= first + limit /\ Len(s) \in Nat
      /\ first = 0 => last = LesserOf(limit, Len(s))
  BY DEF LesserOf
<1>. HIDE DEF last
<1>2. first + 1 \in Int /\ last \in Int
  BY <1>1
<1>3. \A i \in first + 1 .. last : s[i] \in X
  <2>1. \A i \in first + 1 .. last : i \in 1 .. Len(s)
    BY <1>1
  <2>. QED
    BY <2>1
<1>4. /\ page \in Seq(X)
      /\ Len(page) = IF first + 1 <= last THEN last - (first + 1) + 1 ELSE 0
      /\ \A i \in 1 .. last - (first + 1) + 1 : page[i] = s[first + 1 + i - 1]
  BY <1>2, <1>3, SubSeqProperties
<1>. HIDE DEF page
<1>5. Len(page) = (IF first + 1 <= last THEN last - first ELSE 0) /\ Len(page) <= limit
  BY <1>1, <1>4
<1>6. \A i \in 1 .. Len(page) :
         /\ i \in 1 .. last - (first + 1) + 1 /\ first + 1 + i - 1 = first + i
         /\ first + i \in 1 .. Len(s)
  BY <1>1, <1>5
<1>7. \A i \in 1 .. Len(page) : page[i] = s[first + i]
  BY <1>4, <1>6
<1>8. first = 0 => Len(page) = LesserOf(limit, Len(s))
  BY <1>1, <1>5
<1>. QED
  BY <1>4, <1>5, <1>6, <1>7, <1>8 DEF page, last

LEMMA PartInOrder ==
    ASSUME NEW st, NEW s, NEW page \in Seq(Nat), OrderedIn(st, s), NEW f, NEW h,
           \A i \in 1 .. Len(s) : SelectedIn(st, s[i], f, h),
           NEW first \in Nat, NEW limit, Len(page) <= limit,
           \A i \in 1 .. Len(page) : first + i \in 1 .. Len(s) /\ page[i] = s[first + i]
    PROVE  OrderedIn(st, page) /\ ChosenIn(st, page, f, h, limit)
<1>1. OrderedIn(st, page)
  <2>. SUFFICES ASSUME NEW a \in 1 .. Len(page), NEW b \in 1 .. Len(page), a < b
                PROVE  page[a] # page[b] /\ st[page[a]].at >= st[page[b]].at
    BY DEF OrderedIn
  <2>1. /\ page[a] = s[first + a] /\ page[b] = s[first + b]
        /\ first + a \in 1 .. Len(s) /\ first + b \in 1 .. Len(s)
    OBVIOUS
  <2>2. first + a < first + b
    OBVIOUS
  <2>. QED
    BY <2>1, <2>2 DEF OrderedIn
<1>2. ChosenIn(st, page, f, h, limit)
  BY DEF ChosenIn
<1>. QED
  BY <1>1, <1>2

(* What is behind a full page of selected messages is not on it.           *)
LEMMA FullPage ==
    ASSUME PageInv, NEW list \in Seq(Numbers), OrderedIn(stored, list), NEW f, NEW h,
           \A k \in 1 .. Len(list) : SelectedIn(stored, list[k], f, h),
           NEW x \in Numbers,
           \A k \in 1 .. Len(list) : list[k] # x /\ stored[list[k]].at >= stored[x].at
    PROVE  ~FirstPageOf(stored, x, f, h, Len(list))
<1>. SUFFICES ASSUME FirstPageOf(stored, x, f, h, Len(list)) PROVE FALSE
  OBVIOUS
<1>. DEFINE T == NotOlder(stored, x, f, h)
            l == Len(list)
            g == [k \in 1 .. l + 1 |-> IF k <= l THEN list[k] ELSE x]
<1>1. /\ Len(stored) \in Nat /\ \A m \in Numbers : m \in Nat /\ stored[m].at \in Nat
  BY StoredTyped
<1>2. l \in Nat /\ \A k \in 1 .. l : list[k] \in Numbers
  OBVIOUS
<1>3. SelectedIn(stored, x, f, h) /\ Cardinality(T) <= l
  BY DEF FirstPageOf
<1>4. T \subseteq Numbers
  BY DEF NotOlder, Numbers
<1>5. x \in T /\ \A k \in 1 .. l : list[k] \in T
  BY <1>1, <1>2, <1>3 DEF NotOlder, Numbers
<1>6. IsFiniteSet(T) /\ Cardinality(T) \in Nat
  <2>1. IsFiniteSet(Numbers)
    BY StoredTyped
  <2>. HIDE DEF T
  <2>. QED
    BY <1>4, <2>1, FS_Subset, FS_CardinalityType
<1>. HIDE DEF T, l
<1>7. \A k \in 1 .. l + 1 : (k \in 1 .. l /\ k <= l) \/ (k = l + 1 /\ ~(k <= l))
  BY <1>2
<1>8. g \in [1 .. l + 1 -> T]
  BY <1>5, <1>7
<1>9. \A a, b \in 1 .. l : a # b => list[a] # list[b]
  <2>. SUFFICES ASSUME NEW a \in 1 .. l, NEW b \in 1 .. l, a < b PROVE list[a] # list[b]
    BY <1>2
  <2>. QED
    BY DEF OrderedIn, l
<1>10. \A a, b \in 1 .. l + 1 : g[a] = g[b] => a = b
  <2>1. \A k \in 1 .. l : list[k] # x
    BY DEF l
  <2>. QED
    BY <1>7, <1>9, <2>1
<1>11. g \in Injection(1 .. l + 1, T)
  <2>. HIDE DEF g
  <2>. QED
    BY <1>8, <1>10 DEF Injection, IsInjective
<1>12. Cardinality(1 .. l + 1) <= Cardinality(T)
  <2>. HIDE DEF g
  <2>. QED
    BY <1>6, <1>11, FS_Injection
<1>13. Cardinality(1 .. l + 1) = l + 1
  BY <1>2, FS_Interval
<1>. QED
  BY <1>2, <1>3, <1>6, <1>12, <1>13

(* The server answers with a page of what it was asked for.                *)
LEMMA AnswerKeeps ==
    ASSUME PageInv, NEW r \in 0 .. MaxManual, Answer(r)
    PROVE  PageInv'
<1>. DEFINE q == requests[r]
            all == Listed(q.filter, q.hosts)
            first == q.page * q.limit
            data == SubSeq(all, first + 1, LesserOf(first + q.limit, Len(all)))
            served == [q EXCEPT !.stage = "answered", !.data = data,
                                !.hasMore = Len(all) > first + q.limit,
                                !.given = Len(stored)]
            refused == [q EXCEPT !.stage = "failed"]
            new == IF q.filter \in Accepted THEN served ELSE refused
<1>1. /\ requests \in [0 .. MaxManual -> RequestType] /\ q \in RequestType
      /\ failures \in Nat /\ manual \in 0 .. MaxManual
  BY DEF PageInv, TypeInv
<1>2. /\ q.stage = "sent" /\ requests' = [requests EXCEPT ![r] = new]
      /\ UNCHANGED <<stored, input, view, messages, stream, events, history, manual, failures>>
  BY DEF Answer
<1>3. /\ q.page \in Nat /\ q.limit \in Nat /\ first \in Nat /\ (q.page = 0 => first = 0)
      /\ Len(stored) \in Nat
  BY <1>1, StoredTyped DEF RequestType
<1>4. /\ all \in Seq(1 .. Len(stored)) /\ OrderedIn(stored, all)
      /\ \A i \in 1 .. Len(all) : SelectedIn(stored, all[i], q.filter, q.hosts)
      /\ \A n \in 1 .. Len(stored) : SelectedIn(stored, n, q.filter, q.hosts) =>
            \E i \in 1 .. Len(all) : all[i] = n
  BY ListedInOrder DEF Numbers
<1>. HIDE DEF all, first
<1>5. /\ data \in Seq(1 .. Len(stored)) /\ Len(data) <= q.limit
      /\ \A i \in 1 .. Len(data) : first + i \in 1 .. Len(all) /\ data[i] = all[first + i]
      /\ first = 0 => Len(data) = LesserOf(q.limit, Len(all))
  <2>. DEFINE X == 1 .. Len(stored)
              l == q.limit
  <2>1. all \in Seq(X) /\ first \in Nat /\ l \in Nat
    BY <1>3, <1>4
  <2>. HIDE DEF X, l
  <2>2. LET page == SubSeq(all, first + 1, LesserOf(first + l, Len(all)))
        IN  /\ page \in Seq(X)
            /\ Len(page) <= l
            /\ \A i \in 1 .. Len(page) : first + i \in 1 .. Len(all) /\ page[i] = all[first + i]
            /\ first = 0 => Len(page) = LesserOf(l, Len(all))
    BY <2>1, PageOfList
  <2>. QED
    BY <2>2 DEF X, l
<1>. HIDE DEF data
<1>6. data \in Seq(Nat)
  <2>1. \A i \in 1 .. Len(data) : data[i] \in Nat
    BY <1>5
  <2>2. data \in [1 .. Len(data) -> Nat] /\ Len(data) \in Nat
    BY <1>5, <2>1
  <2>. QED
    BY <2>2
<1>in. OrderedIn(stored, data) /\ ChosenIn(stored, data, q.filter, q.hosts, q.limit)
  <2>1. /\ OrderedIn(stored, all) /\ first \in Nat /\ Len(data) <= q.limit
        /\ \A i \in 1 .. Len(all) : SelectedIn(stored, all[i], q.filter, q.hosts)
        /\ \A i \in 1 .. Len(data) : first + i \in 1 .. Len(all) /\ data[i] = all[first + i]
    BY <1>3, <1>4, <1>5
  <2>. QED
    BY <1>6, <2>1, PartInOrder
<1>full. q.page = 0 => HoldsFirst(stored, data, Len(stored), q.filter, q.hosts, q.limit)
  <2>. SUFFICES ASSUME q.page = 0, NEW n \in 1 .. Len(stored), n \notin ToSet(data),
                       FirstPageOf(stored, n, q.filter, q.hosts, q.limit)
                PROVE  FALSE
    BY DEF HoldsFirst
  <2>1. PICK i \in 1 .. Len(all) : all[i] = n
    BY <1>4 DEF FirstPageOf
  <2>2. \A k \in 1 .. Len(data) : k \in 1 .. Len(all) /\ data[k] = all[k]
    <3>1. \A k \in 1 .. Len(data) : first + k = k
      BY <1>3
    <3>. QED
      BY <1>5, <3>1
  <2>3. DOMAIN data = 1 .. Len(data) /\ Len(data) \in Nat /\ Len(all) \in Nat
    BY <1>4, <1>5
  <2>4. i \notin 1 .. Len(data)
    BY <2>1, <2>2, <2>3 DEF ToSet
  <2>5. Len(data) < i /\ Len(data) = q.limit
    BY <1>3, <1>5, <2>3, <2>4 DEF LesserOf
  <2>6. \A k \in 1 .. Len(data) : data[k] # n /\ stored[data[k]].at >= stored[n].at
    <3>. SUFFICES ASSUME NEW k \in 1 .. Len(data)
                  PROVE  all[k] # all[i] /\ stored[all[k]].at >= stored[all[i]].at
      BY <2>1, <2>2
    <3>1. k \in 1 .. Len(all) /\ k < i
      BY <2>2, <2>3, <2>5
    <3>. QED
      BY <1>4, <3>1 DEF OrderedIn
  <2>7. /\ data \in Seq(Numbers) /\ n \in Numbers
        /\ \A k \in 1 .. Len(data) : SelectedIn(stored, data[k], q.filter, q.hosts)
    BY <1>5, <1>in DEF ChosenIn, Numbers
  <2>8. ~FirstPageOf(stored, n, q.filter, q.hosts, Len(data))
    BY <1>in, <2>6, <2>7, FullPage
  <2>. QED
    BY <2>5, <2>8
<1>7. /\ new \in RequestType
      /\ new.stage = (IF q.filter \in Accepted THEN "answered" ELSE "failed")
      /\ q.filter \in Accepted => new.data = data /\ new.given = Len(stored)
      /\ new.filter = q.filter /\ new.hosts = q.hosts /\ new.page = q.page /\ new.limit = q.limit
  <2>. DEFINE more == Len(all) > first + q.limit
  <2>1. more \in BOOLEAN
    OBVIOUS
  <2>. HIDE DEF more
  <2>2. /\ served \in RequestType /\ served.stage = "answered" /\ served.data = data
        /\ served.given = Len(stored)
        /\ served.filter = q.filter /\ served.hosts = q.hosts
        /\ served.page = q.page /\ served.limit = q.limit
    <3>. HIDE DEF q
    <3>1. served = [q EXCEPT !.stage = "answered", !.data = data, !.hasMore = more,
                             !.given = Len(stored)]
      BY DEF more
    <3>. HIDE DEF served
    <3>. QED
      BY <1>1, <1>3, <1>6, <2>1, <3>1 DEF RequestType, Stages
  <2>3. /\ refused \in RequestType /\ refused.stage = "failed"
        /\ refused.filter = q.filter /\ refused.hosts = q.hosts
        /\ refused.page = q.page /\ refused.limit = q.limit
    <3>. HIDE DEF q
    <3>. QED
      BY <1>1 DEF RequestType, Stages
  <2>. HIDE DEF served, refused, q
  <2>. QED
    BY <2>2, <2>3
<1>. HIDE DEF new
<1>8. new.stage = "answered" => Brings(stored, new) /\ Passing(stored, new)
  <2>1. \A n \in 1 .. Len(stored) : ~(n > Len(stored))
    BY <1>3
  <2>. QED
    BY <1>3, <1>5, <1>in, <1>full, <1>7, <2>1 DEF Brings, Passing
<1>9. r = 0 => Fits(new)
  BY <1>2, <1>7 DEF PageInv, RequestsInv, Fits
<1>10. failures >= failures
  BY <1>1
<1>11. r = 0 => /\ new.stage # "upload"
                /\ new.stage # "none" => Fits(new)
                /\ new.stage = "failed" => failures' > 0 \/ new.filter \notin Accepted
                /\ new.stage = "none" => failures' > 0 \/ view.filter \notin Accepted
  BY <1>7, <1>9
<1>. HIDE DEF q
<1>. QED
  BY <1>1, <1>2, <1>7, <1>8, <1>10, <1>11, RequestKeeps

(* The list is replaced by the answer; unless it came too late, the list   *)
(* is then about what the page shows.                                      *)
LEMMA ArriveKeeps ==
    ASSUME PageInv, NEW r \in 0 .. MaxManual, Arrive(r)
    PROVE  PageInv'
<1>. DEFINE q == requests[r]
            v == [view EXCEPT !.validated = q.filter, !.hasMore = q.hasMore]
            rs == [requests EXCEPT ![r] = NoRequest]
<1>1. /\ view \in ViewType /\ requests \in [0 .. MaxManual -> RequestType] /\ q \in RequestType
      /\ failures \in Nat /\ stream \in {"closed", "connecting", "open"}
      /\ Len(stored) \in Nat
      /\ view.unavailable => failures > 0
  BY DEF PageInv, TypeInv, LiveInv, TypingKeepsLive
<1>2. /\ q.stage = "answered" /\ messages' = q.data /\ Rerender(v, rs, FALSE)
      /\ given' = q.given /\ lost' = q.passed /\ late' = ~Fits(q)
      /\ UNCHANGED <<stored, input, manual, failures, opened>>
  BY DEF Arrive
<1>3. /\ Brings(stored, q) /\ q.given \in Nat /\ opened \in Nat
      /\ stream = "open" => Passing(stored, q)
  BY <1>1, <1>2 DEF PageInv, TypeInv, RequestsInv, PassedInv, RequestType
<1>4. /\ v \in ViewType /\ v.hosts = view.hosts /\ v.filter = view.filter
      /\ SameSelection(v, view) /\ v.unavailable = view.unavailable
  BY <1>1, <1>3 DEF ViewType, RequestType, Brings, SameSelection
<1>5. /\ rs \in [0 .. MaxManual -> RequestType]
      /\ \A p \in 0 .. MaxManual : rs[p] \in {requests[p], NoRequest}
  BY <1>1, NoRequestTyped
<1>6. failures' \in Nat /\ failures' >= failures /\ (v.unavailable => failures' > 0)
  BY <1>1, <1>2, <1>4
<1>. HIDE DEF v, rs
<1>7. /\ view' \in ViewType /\ requests' \in [0 .. MaxManual -> RequestType]
      /\ stream' \in {"closed", "connecting", "open"} /\ events' \in Seq(Numbers')
      /\ RequestsInv' /\ LiveInv' /\ PassedInv'
  BY <1>2, <1>4, <1>5, <1>6, RenderingKeeps
<1>8. SameSelection(view', view) /\ (stream' = "open" => stream = "open" /\ events' = events)
  <2>1. SameSelection(view', v) /\ (stream' = "open" => stream = "open" /\ events' = events)
    BY <1>1, <1>2, <1>4, <1>5, Rerendered
  <2>. QED
    BY <1>4, <2>1 DEF SameSelection
<1>9. messages' \in Seq(Numbers') /\ OrderedIn(stored', messages')
  BY <1>2, <1>3 DEF Brings, Numbers
<1>10. TypeInv'
  <2>1. given' \in Nat /\ given' <= Len(stored') /\ opened' \in Nat /\ late' \in BOOLEAN
    BY <1>1, <1>2, <1>3 DEF Brings
  <2>. QED
    BY <1>2, <1>7, <1>9, <2>1
    DEF PageInv, TypeInv, Numbers, ViewType, RequestType, Message, AnyShape
<1>11. ShownInv'
  <2>1. SUFFICES ASSUME ~late' PROVE ChosenIn(stored', messages', view'.filter, view'.hosts, view'.limit)
    BY DEF ShownInv, Quiet
  <2>2. Fits(q)
    BY <1>2, <2>1
  <2>. QED
    BY <1>2, <1>3, <1>8, <2>2 DEF Brings, Fits, SameSelection
<1>12. FreshInv'
  <2>. SUFFICES ASSUME Fits(q), view'.page = 0
                PROVE  /\ HoldsFirst(stored, q.data, q.given, view'.filter, view'.hosts, view'.limit)
                       /\ stream' = "open" => \A n \in Numbers :
                            n > q.given /\ n > opened
                            /\ FirstPageOf(stored, n, view'.filter, view'.hosts, view'.limit)
                                => n \in ToSet(q.data) \cup ToSet(events') \cup q.passed
    BY <1>2 DEF FreshInv, Quiet, Numbers
  <2>1. /\ view'.filter = q.filter /\ view'.hosts = q.hosts /\ view'.limit = q.limit
        /\ q.page = 0 /\ view'.filter = view.filter
    BY <1>8 DEF Fits, SameSelection
  <2>2. HoldsFirst(stored, q.data, q.given, view'.filter, view'.hosts, view'.limit)
    BY <1>3, <2>1 DEF Brings
  <2>3. ASSUME stream' = "open", NEW n \in Numbers, n > q.given, n > opened,
               FirstPageOf(stored, n, view'.filter, view'.hosts, view'.limit)
        PROVE  n \in ToSet(events') \cup q.passed
    <3>1. view.filter \in stored[n].match
      BY <2>1, <2>3 DEF FirstPageOf, SelectedIn
    <3>. QED
      BY <1>3, <1>8, <2>3, <3>1 DEF Passing, Numbers
  <2>. QED
    BY <2>2, <2>3
<1>. QED
  BY <1>7, <1>9, <1>10, <1>11, <1>12 DEF PageInv

-----------------------------------------------------------------------------
(* The list with a message of the stream: in order, without duplicates, no *)
(* longer than a page, and what is cut off is behind all that is kept.     *)
LEMMA MergedInOrder ==
    ASSUME PageInv, NEW n \in Numbers
    PROVE  LET list == Merged(n).list
           IN  /\ list \in Seq(Numbers)
               /\ Len(list) <= view.limit
               /\ OrderedIn(stored, list)
               /\ \A k \in 1 .. Len(list) : list[k] = n \/ list[k] \in ToSet(messages)
               /\ \A x \in ToSet(messages) \cup {n} :
                     \/ x \in ToSet(list)
                     \/ /\ Len(list) = view.limit
                        /\ \A k \in 1 .. Len(list) :
                              list[k] # x /\ stored[list[k]].at >= stored[x].at
<1>. DEFINE all == <<n>> \o messages
            S == Kept(all)
            before == Stably(all)
            order == Sorted(S, before)
            cut == LesserOf(view.limit, Len(order))
            list == Merged(n).list
<1>1. /\ Len(stored) \in Nat /\ messages \in Seq(Numbers) /\ view.limit \in Nat
      /\ \A m \in Numbers : m \in Nat /\ stored[m].at \in Nat
      /\ OrderedIn(stored, messages)
  BY StoredTyped DEF PageInv, TypeInv, ViewType
<1>2. /\ all \in Seq(Numbers) /\ Len(all) = Len(messages) + 1 /\ Len(messages) \in Nat
      /\ all[1] = n /\ \A i \in 2 .. Len(all) : all[i] = messages[i - 1]
  BY <1>1
<1>3. list = [k \in 1 .. cut |-> all[order[k]]]
  BY DEF Merged
<1>. HIDE DEF all, list
<1>4. \A i \in 1 .. Len(all) : i \in Nat /\ all[i] \in Numbers /\ stored[all[i]].at \in Nat
  BY <1>1, <1>2
<1>5. /\ S \subseteq 1 .. Len(all) /\ 1 \in S
      /\ \A i \in 1 .. Len(all) : i \in S <=> i = 1 \/ all[i] # n
  BY <1>2 DEF Kept
<1>6. IsFiniteSet(S)
  <2>1. IsFiniteSet(1 .. Len(all))
    BY <1>2, FS_Interval
  <2>. QED
    BY <1>5, <2>1, FS_Subset
<1>7. \A a, b \in S : <<a, b>> \in before <=>
          (\/ stored[all[a]].at > stored[all[b]].at
           \/ (stored[all[a]].at = stored[all[b]].at /\ a < b))
  BY DEF Stably, At
<1>. HIDE DEF S, before
<1>8. \A i \in S : i \in Nat /\ i \in 1 .. Len(all) /\ stored[all[i]].at \in Nat
  BY <1>4, <1>5
<1>9. LinearOn(S, before)
  <2>1. \A a \in S : <<a, a>> \notin before
    BY <1>7, <1>8
  <2>2. ASSUME NEW a \in S, NEW b \in S, a # b PROVE <<a, b>> \in before \/ <<b, a>> \in before
    <3>. DEFINE x == stored[all[a]].at
                y == stored[all[b]].at
    <3>1. x \in Nat /\ y \in Nat /\ a \in Nat /\ b \in Nat
      BY <1>8
    <3>2. /\ <<a, b>> \in before <=> (x > y \/ (x = y /\ a < b))
          /\ <<b, a>> \in before <=> (y > x \/ (y = x /\ b < a))
      BY <1>7
    <3>. HIDE DEF x, y
    <3>3. x > y \/ y > x \/ (x = y /\ a < b) \/ (y = x /\ b < a)
      BY <2>2, <3>1
    <3>. QED
      BY <3>2, <3>3
  <2>3. ASSUME NEW a \in S, NEW b \in S, NEW c \in S, <<a, b>> \in before, <<b, c>> \in before
        PROVE  <<a, c>> \in before
    <3>. DEFINE x == stored[all[a]].at
                y == stored[all[b]].at
                z == stored[all[c]].at
    <3>1. /\ x \in Nat /\ y \in Nat /\ z \in Nat
          /\ a \in Nat /\ b \in Nat /\ c \in Nat
      BY <1>8
    <3>2. /\ x > y \/ (x = y /\ a < b)
          /\ y > z \/ (y = z /\ b < c)
          /\ <<a, c>> \in before <=> (x > z \/ (x = z /\ a < c))
      BY <1>7, <2>3
    <3>. HIDE DEF x, y, z
    <3>3. x > z \/ (x = z /\ a < c)
      BY <3>1, <3>2
    <3>. QED
      BY <3>2, <3>3
  <2>. QED
    BY <2>1, <2>2, <2>3 DEF LinearOn
<1>10. /\ order \in Seq(S) /\ Len(order) = Cardinality(S)
       /\ \A i, j \in 1 .. Cardinality(S) : i < j => <<order[i], order[j]>> \in before
       /\ \A a \in S : \E i \in 1 .. Cardinality(S) : order[i] = a
  BY <1>6, <1>9, SortedOrders
<1>. HIDE DEF order
<1>11. /\ cut \in Nat /\ cut <= view.limit /\ cut <= Len(order) /\ Len(order) \in Nat
       /\ cut = view.limit \/ cut = Len(order)
  BY <1>1, <1>10 DEF LesserOf
<1>. HIDE DEF cut
<1>12. \A k \in 1 .. Len(order) : order[k] \in S /\ order[k] \in 1 .. Len(all)
  <2>1. order \in Seq(S) /\ S \subseteq 1 .. Len(all)
    BY <1>5, <1>10
  <2>2. \A k \in 1 .. Len(order) : order[k] \in S
    BY <2>1
  <2>. QED
    BY <2>1, <2>2
<1>13. \A k \in 1 .. cut : k \in 1 .. Len(order)
  BY <1>11
<1>14. list \in Seq(Numbers) /\ Len(list) = cut /\ \A k \in 1 .. cut : list[k] = all[order[k]]
  <2>1. list \in [1 .. cut -> Numbers] /\ \A k \in 1 .. cut : list[k] = all[order[k]]
    BY <1>3, <1>4, <1>12, <1>13
  <2>. QED
    BY <1>11, <2>1
<1>15. \A i, j \in S : i # j => all[i] # all[j]
  <2>. SUFFICES ASSUME NEW i \in S, NEW j \in S, i < j PROVE all[i] # all[j]
    BY <1>8
  <2>1. j \in 2 .. Len(all) /\ j # 1 /\ j - 1 \in 1 .. Len(messages)
    BY <1>2, <1>8
  <2>2. CASE i = 1
    BY <1>2, <1>5, <2>1, <2>2
  <2>3. CASE i # 1
    <3>1. i \in 2 .. Len(all) /\ i - 1 \in 1 .. Len(messages) /\ i - 1 < j - 1
      BY <1>2, <1>8, <2>3
    <3>. QED
      BY <1>1, <1>2, <2>1, <3>1 DEF OrderedIn
  <2>. QED
    BY <2>2, <2>3
<1>16. \A i, j \in 1 .. Len(order) : i < j =>
          all[order[i]] # all[order[j]] /\ stored[all[order[i]]].at >= stored[all[order[j]]].at
  <2>. SUFFICES ASSUME NEW i \in 1 .. Len(order), NEW j \in 1 .. Len(order), i < j
                PROVE  /\ all[order[i]] # all[order[j]]
                       /\ stored[all[order[i]]].at >= stored[all[order[j]]].at
    OBVIOUS
  <2>1. <<order[i], order[j]>> \in before /\ order[i] \in S /\ order[j] \in S
    BY <1>10, <1>12
  <2>2. order[i] # order[j]
    BY <1>9, <2>1 DEF LinearOn
  <2>3. stored[all[order[i]]].at >= stored[all[order[j]]].at
    <3>. DEFINE a == stored[all[order[i]]].at
                b == stored[all[order[j]]].at
    <3>1. a \in Nat /\ b \in Nat
      BY <1>8, <2>1
    <3>2. a > b \/ a = b
      BY <1>7, <2>1
    <3>. HIDE DEF a, b
    <3>3. a >= b
      BY <3>1, <3>2
    <3>. QED
      BY <3>3 DEF a, b
  <2>. QED
    BY <1>15, <2>1, <2>2, <2>3
<1>17. OrderedIn(stored, list)
  BY <1>13, <1>14, <1>16 DEF OrderedIn
<1>in. DOMAIN messages = 1 .. Len(messages) /\ DOMAIN list = 1 .. Len(list)
  BY <1>1, <1>14
<1>18. ASSUME NEW k \in 1 .. Len(list) PROVE list[k] = n \/ list[k] \in ToSet(messages)
  <2>1. list[k] = all[order[k]] /\ order[k] \in 1 .. Len(all)
    BY <1>12, <1>13, <1>14
  <2>2. CASE order[k] = 1
    BY <1>2, <2>1, <2>2
  <2>3. CASE order[k] # 1
    <3>1. order[k] \in 2 .. Len(all) /\ order[k] - 1 \in 1 .. Len(messages)
      BY <1>2, <2>1, <2>3
    <3>. QED
      BY <1>2, <1>in, <2>1, <3>1 DEF ToSet
  <2>. QED
    BY <2>2, <2>3
<1>19. ASSUME NEW x \in ToSet(messages) \cup {n}
       PROVE  \/ x \in ToSet(list)
              \/ /\ Len(list) = view.limit
                 /\ \A k \in 1 .. Len(list) : list[k] # x /\ stored[list[k]].at >= stored[x].at
  <2>1. PICK i \in S : all[i] = x
    <3>1. CASE x = n
      BY <1>2, <1>5, <3>1
    <3>2. CASE x # n
      <4>1. PICK p \in 1 .. Len(messages) : messages[p] = x
        BY <1>in, <3>2 DEF ToSet
      <4>2. p + 1 \in 2 .. Len(all) /\ p + 1 \in 1 .. Len(all) /\ (p + 1) - 1 = p
        BY <1>2
      <4>3. all[p + 1] = x
        BY <1>2, <4>1, <4>2
      <4>. QED
        BY <1>5, <3>2, <4>2, <4>3
    <3>. QED
      BY <3>1, <3>2
  <2>2. PICK j \in 1 .. Len(order) : order[j] = i
    BY <1>10
  <2>3. CASE j <= cut
    <3>1. j \in 1 .. cut /\ list[j] = x
      BY <1>11, <1>14, <2>1, <2>2, <2>3
    <3>. QED
      BY <1>14, <1>in, <3>1 DEF ToSet
  <2>4. CASE ~(j <= cut)
    <3>1. cut = view.limit /\ \A k \in 1 .. cut : k < j
      BY <1>11, <2>4
    <3>2. ASSUME NEW k \in 1 .. cut PROVE list[k] # x /\ stored[list[k]].at >= stored[x].at
      <4>1. k \in 1 .. Len(order) /\ k < j /\ list[k] = all[order[k]]
        BY <1>13, <1>14, <3>1
      <4>. QED
        BY <1>16, <2>1, <2>2, <4>1
    <3>. QED
      BY <1>14, <3>1, <3>2
  <2>. QED
    BY <2>3, <2>4
<1>20. Len(list) <= view.limit
  BY <1>11, <1>14
<1>. QED
  BY <1>14, <1>17, <1>18, <1>19, <1>20 DEF list

(* A message of the stream takes its place in the list, unless it is of    *)
(* another host.                                                           *)
LEMMA HandleKeeps ==
    ASSUME PageInv, HandleMessage
    PROVE  PageInv'
<1>. USE DEF PageInv
<1>. DEFINE n == Head(events)
            wanted == view.hosts = {} \/ stored[n].host \in view.hosts
            list == Merged(n).list
            more == IF wanted THEN Merged(n).hasMore ELSE view.hasMore
<1>1. /\ events \in Seq(Numbers) /\ events # <<>> /\ view \in ViewType
      /\ messages \in Seq(Numbers) /\ requests \in [0 .. MaxManual -> RequestType]
      /\ given \in Nat /\ opened \in Nat /\ Len(stored) \in Nat
  BY DEF TypeInv, HandleMessage
<1>2. /\ messages' = IF wanted THEN list ELSE messages
      /\ view' = [view EXCEPT !.hasMore = more]
      /\ events' = Tail(events)
      /\ requests' = Passed(n)
      /\ UNCHANGED <<stored, input, stream, manual, failures, given, opened, lost, late>>
  BY <1>1 DEF HandleMessage, ViewType, history
<1>3. more \in BOOLEAN
  BY <1>1 DEF Merged, ViewType
<1>4. /\ n = events[1] /\ 1 \in 1 .. Len(events) /\ n \in Numbers
      /\ Tail(events) \in Seq(Numbers) /\ Len(Tail(events)) = Len(events) - 1
      /\ Len(events) \in Nat
      /\ \A i \in 1 .. Len(Tail(events)) : Tail(events)[i] = events[i + 1]
  <2>1. n = events[1] /\ 1 \in 1 .. Len(events) /\ n \in Numbers /\ Len(events) \in Nat
    BY <1>1
  <2>2. /\ Tail(events) \in Seq(Numbers) /\ Len(Tail(events)) = Len(events) - 1
        /\ \A i \in 1 .. Len(Tail(events)) : Tail(events)[i] = events[i + 1]
    BY <1>1, HeadTailProperties
  <2>. QED
    BY <2>1, <2>2
<1>4b. \A x \in ToSet(events) : x = n \/ x \in ToSet(events')
  <2>. SUFFICES ASSUME NEW x \in ToSet(events), x # n PROVE x \in ToSet(events')
    OBVIOUS
  <2>1. PICK i \in 1 .. Len(events) : events[i] = x
    BY <1>1 DEF ToSet
  <2>2. i # 1
    BY <1>4, <2>1
  <2>3. i - 1 \in 1 .. Len(events') /\ (i - 1) + 1 = i
    BY <1>2, <1>4, <2>2
  <2>4. events'[i - 1] = x
    BY <1>2, <1>4, <2>1, <2>3
  <2>5. DOMAIN events' = 1 .. Len(events')
    BY <1>2, <1>4
  <2>. QED
    BY <2>3, <2>4, <2>5 DEF ToSet
<1>5. view.filter \in stored[n].match
  BY <1>4 DEF LiveInv
<1>6. wanted => SelectedIn(stored, n, view.filter, view.hosts)
  BY <1>5 DEF SelectedIn
<1>7. ~wanted => ~SelectedIn(stored, n, view.filter, view.hosts)
  BY DEF SelectedIn
<1>. HIDE DEF wanted, more, n
<1>8. /\ view' \in ViewType /\ SameSelection(view', view)
      /\ view'.unavailable = view.unavailable /\ (Streamed(view') <=> Streamed(view))
  BY <1>1, <1>2, <1>3 DEF ViewType, SameSelection, Streamed
<1>9. /\ list \in Seq(Numbers) /\ Len(list) <= view.limit /\ OrderedIn(stored, list)
      /\ \A k \in 1 .. Len(list) : list[k] = n \/ list[k] \in ToSet(messages)
      /\ \A x \in ToSet(messages) \cup {n} :
            \/ x \in ToSet(list)
            \/ /\ Len(list) = view.limit
               /\ \A k \in 1 .. Len(list) : list[k] # x /\ stored[list[k]].at >= stored[x].at
  BY <1>4, MergedInOrder
<1>. HIDE DEF list
<1>10. messages' \in Seq(Numbers') /\ events' \in Seq(Numbers') /\ OrderedIn(stored', messages')
  <2>1. Numbers' = Numbers
    BY <1>2 DEF Numbers
  <2>. QED
    BY <1>1, <1>2, <1>4, <1>9, <2>1
<1>req. /\ requests' \in [0 .. MaxManual -> RequestType]
        /\ \A r \in 0 .. MaxManual :
              /\ requests'[r].stage = requests[r].stage /\ requests'[r].filter = requests[r].filter
              /\ requests'[r].hosts = requests[r].hosts /\ requests'[r].page = requests[r].page
              /\ requests'[r].limit = requests[r].limit /\ requests'[r].data = requests[r].data
              /\ requests'[r].given = requests[r].given
              /\ requests[r].passed \subseteq requests'[r].passed
              /\ requests[r].stage = "answered" /\ n > requests[r].given => n \in requests'[r].passed
  <2>1. ASSUME NEW q \in RequestType
        PROVE  LET p == [q EXCEPT !.passed = q.passed \cup {n}]
               IN  /\ p \in RequestType /\ p.passed = q.passed \cup {n}
                   /\ p.stage = q.stage /\ p.filter = q.filter /\ p.hosts = q.hosts
                   /\ p.page = q.page /\ p.limit = q.limit /\ p.data = q.data
                   /\ p.given = q.given
    <3>1. n \in Nat
      BY <1>4 DEF Numbers
    <3>. QED
      BY <3>1 DEF RequestType
  <2>2. requests' = [r \in 0 .. MaxManual |->
                       IF requests[r].stage = "answered" /\ n > requests[r].given
                       THEN [requests[r] EXCEPT !.passed = requests[r].passed \cup {n}]
                       ELSE requests[r]]
    BY <1>1, <1>2 DEF Passed
  <2>. SUFFICES ASSUME NEW r \in 0 .. MaxManual
                PROVE  /\ requests'[r] \in RequestType
                       /\ requests'[r].stage = requests[r].stage
                       /\ requests'[r].filter = requests[r].filter
                       /\ requests'[r].hosts = requests[r].hosts
                       /\ requests'[r].page = requests[r].page
                       /\ requests'[r].limit = requests[r].limit
                       /\ requests'[r].data = requests[r].data
                       /\ requests'[r].given = requests[r].given
                       /\ requests[r].passed \subseteq requests'[r].passed
                       /\ requests[r].stage = "answered" /\ n > requests[r].given
                             => n \in requests'[r].passed
    BY <2>2
  <2>3. requests[r] \in RequestType
    BY <1>1
  <2>4. CASE requests[r].stage = "answered" /\ n > requests[r].given
    <3>1. requests'[r] = [requests[r] EXCEPT !.passed = requests[r].passed \cup {n}]
      BY <2>2, <2>4
    <3>. QED
      BY <2>1, <2>3, <3>1
  <2>5. CASE ~(requests[r].stage = "answered" /\ n > requests[r].given)
    <3>1. requests'[r] = requests[r]
      BY <2>2, <2>5
    <3>. QED
      BY <2>3, <2>5, <3>1
  <2>. QED
    BY <2>4, <2>5
<1>11. TypeInv'
  BY <1>2, <1>8, <1>10, <1>req DEF TypeInv, Numbers, ViewType, RequestType, Message, AnyShape
<1>12. RequestsInv'
  <2>1. 0 \in 0 .. MaxManual
    BY BoundsAssumption
  <2>2. \A r \in 0 .. MaxManual :
           requests'[r].stage = "answered" => Brings(stored, requests'[r])
    BY <1>req DEF RequestsInv, Brings
  <2>. QED
    BY <1>2, <1>8, <1>req, <2>1, <2>2 DEF RequestsInv, Fits, SameSelection
<1>passed. PassedInv'
  <2>. SUFFICES ASSUME stream = "open", NEW r \in 0 .. MaxManual, requests[r].stage = "answered",
                       NEW x \in 1 .. Len(stored), x > opened, x > requests[r].given,
                       view.filter \in stored[x].match
                PROVE  x \in ToSet(events') \cup requests'[r].passed
    BY <1>2, <1>8, <1>req DEF PassedInv, Passing, SameSelection
  <2>1. x \in ToSet(events) \cup requests[r].passed
    BY DEF PassedInv, Passing
  <2>. QED
    BY <1>4b, <1>req, <2>1
<1>13. LiveInv'
  <2>1. \A i \in 1 .. Len(events') : view'.filter \in stored'[events'[i]].match
    <3>. SUFFICES ASSUME NEW i \in 1 .. Len(events')
                  PROVE  view'.filter \in stored'[events'[i]].match
      OBVIOUS
    <3>1. i + 1 \in 1 .. Len(events) /\ events'[i] = events[i + 1]
      BY <1>2, <1>4
    <3>. QED
      BY <1>2, <1>8, <3>1 DEF LiveInv, SameSelection
  <2>2. stream' # "closed" => Streamed(view)'
    BY <1>2, <1>8 DEF LiveInv, Streamed
  <2>3. TypingKeepsLive'
    BY <1>2, <1>8 DEF LiveInv, TypingKeepsLive
  <2>. QED
    BY <2>1, <2>2, <2>3 DEF LiveInv
<1>14. Quiet' => Quiet
  <2>1. 0 \in 0 .. MaxManual
    BY BoundsAssumption
  <2>. QED
    BY <1>2, <1>8, <1>req, <2>1 DEF Quiet, SameSelection
<1>15. Quiet /\ wanted =>
          \A k \in 1 .. Len(list) : SelectedIn(stored, list[k], view.filter, view.hosts)
  <2>. SUFFICES ASSUME Quiet, wanted, NEW k \in 1 .. Len(list)
                PROVE  SelectedIn(stored, list[k], view.filter, view.hosts)
    OBVIOUS
  <2>1. CASE list[k] = n
    BY <1>6, <2>1
  <2>2. CASE list[k] \in ToSet(messages)
    <3>1. PICK i \in 1 .. Len(messages) : messages[i] = list[k]
      BY <1>1, <2>2 DEF ToSet
    <3>. QED
      BY <3>1 DEF ShownInv, ChosenIn
  <2>. QED
    BY <1>9, <2>1, <2>2
<1>16. ShownInv'
  <2>. SUFFICES ASSUME Quiet PROVE ChosenIn(stored, messages', view.filter, view.hosts, view.limit)
    BY <1>2, <1>8, <1>14 DEF ShownInv, SameSelection
  <2>1. CASE wanted
    BY <1>2, <1>9, <1>15, <2>1 DEF ChosenIn
  <2>2. CASE ~wanted
    BY <1>2, <2>2 DEF ShownInv
  <2>. QED
    BY <2>1, <2>2
<1>kept. ASSUME Quiet, NEW m \in Numbers, m \in ToSet(messages) \/ m = n,
                FirstPageOf(stored, m, view.filter, view.hosts, view.limit)
         PROVE  m \in ToSet(messages')
  <2>1. CASE wanted
    <3>. SUFFICES ASSUME m \notin ToSet(list) PROVE FALSE
      BY <1>2, <2>1
    <3>1. /\ Len(list) = view.limit
          /\ \A k \in 1 .. Len(list) : list[k] # m /\ stored[list[k]].at >= stored[m].at
      BY <1>9, <1>kept
    <3>2. ~FirstPageOf(stored, m, view.filter, view.hosts, Len(list))
      BY <1>9, <1>15, <1>kept, <2>1, <3>1, FullPage
    <3>. QED
      BY <1>kept, <3>1, <3>2
  <2>2. CASE ~wanted
    BY <1>2, <1>7, <1>kept, <2>2 DEF FirstPageOf
  <2>. QED
    BY <2>1, <2>2
<1>17. FreshInv'
  <2>. SUFFICES ASSUME Quiet, view.page = 0
                PROVE  /\ HoldsFirst(stored, messages', given, view.filter, view.hosts, view.limit)
                       /\ stream = "open" => \A m \in Numbers :
                            m > given /\ m > opened
                            /\ FirstPageOf(stored, m, view.filter, view.hosts, view.limit)
                                => m \in ToSet(messages') \cup ToSet(events') \cup lost
    BY <1>2, <1>8, <1>14 DEF FreshInv, SameSelection, Numbers
  <2>1. HoldsFirst(stored, messages', given, view.filter, view.hosts, view.limit)
    BY <1>kept DEF FreshInv, HoldsFirst, Numbers
  <2>2. ASSUME stream = "open", NEW m \in Numbers, m > given, m > opened,
               FirstPageOf(stored, m, view.filter, view.hosts, view.limit)
        PROVE  m \in ToSet(messages') \cup ToSet(events') \cup lost
    <3>1. m \in ToSet(messages) \cup ToSet(events) \cup lost
      BY <2>2 DEF FreshInv
    <3>. QED
      BY <1>4b, <1>kept, <2>2, <3>1
  <2>. QED
    BY <2>1, <2>2
<1>. QED
  BY <1>10, <1>11, <1>12, <1>13, <1>passed, <1>16, <1>17

-----------------------------------------------------------------------------
LEMMA NextKeeps ==
    ASSUME PageInv, [Next]_vars
    PROVE  PageInv'
<1>1. DOMAIN requests = 0 .. MaxManual
  BY DEF PageInv, TypeInv
<1>2. CASE \/ UNCHANGED vars
           \/ \E f \in Filters : Type(f)
           \/ Connect
  BY <1>2, AsideKeeps
<1>3. CASE \/ \E f \in Filters : ShowEvidence(f)
           \/ FilterApplies
           \/ \E hosts \in SUBSET Hosts : ChooseHosts(hosts)
           \/ \E l \in Limits : ChooseSize(l) \/ FitSize(l)
           \/ \E page \in 0 .. MaxMessages : TurnPage(page)
           \/ SwitchLive
  BY <1>3, UserKeeps
<1>4. CASE \/ \E stage \in {"sent", "upload"} : Manually(stage)
           \/ \E r \in 0 .. MaxManual : ArriveError(r) \/ Fail(r)
  BY <1>4, RequestsKeep
<1>5. ASSUME NEW m \in Shapes, Receive(m) PROVE PageInv'
  <2>1. Len(stored) + 1 \in Nat
    BY StoredTyped
  <2>2. m \in AnyShape
    BY DEF AnyShape
  <2>. QED
    BY <1>5, <2>1, <2>2, StoreKeeps DEF Receive
<1>6. ASSUME NEW m \in ImportShapes, NEW at \in Times, Import(m, at) PROVE PageInv'
  <2>1. at \in Nat
    BY BoundsAssumption DEF Times
  <2>2. m \in AnyShape
    BY DEF AnyShape
  <2>. QED
    BY <1>6, <2>1, <2>2, StoreKeeps DEF Import
<1>7. ASSUME NEW r \in 0 .. MaxManual, Answer(r) \/ Arrive(r) \/ ImportDone(r) PROVE PageInv'
  BY <1>7, AnswerKeeps, ArriveKeeps, ImportKeeps
<1>8. CASE HandleMessage
  BY <1>8, HandleKeeps
<1>9. CASE HandleError
  BY <1>9, ErrorKeeps
<1>. QED
  BY <1>1, <1>2, <1>3, <1>4, <1>5, <1>6, <1>7, <1>8, <1>9 DEF Next

LEMMA PageInvariant == Spec => []PageInv
<1>1. Init => PageInv
  BY InitPage
<1>2. PageInv /\ [Next]_vars => PageInv'
  BY NextKeeps
<1>. QED
  BY <1>1, <1>2, PTL DEF Spec

(* No filter on its way to being a valid one disables the live updates:    *)
(* the EventSource of App.tsx is opened only for a filter that a request   *)
(* for messages was answered for.                                          *)
THEOREM TypingNeverCostsLive == Spec => []TypingKeepsLive
<1>1. PageInv => TypingKeepsLive
  BY PageInvImplies
<1>. QED
  BY <1>1, PageInvariant, PTL

(* The list is in order and shows no message twice, whatever order answers *)
(* and the events of handleMessage come in.                                *)
THEOREM ListStaysOrdered == Spec => []ListOrdered
<1>1. PageInv => ListOrdered
  BY PageInvImplies
<1>. QED
  BY <1>1, PageInvariant, PTL

(* What is shown is what was chosen, once no request is under way: the     *)
(* effect on refresh aborts the one it replaces.                           *)
THEOREM ShownIsSelected == Spec => []ShownSelected
<1>1. PageInv => ShownSelected
  BY PageInvImplies
<1>. QED
  BY <1>1, PageInvariant, PTL

(* Every message that belongs on the first page is in the list, except the *)
(* two kinds that nothing brings before the next refresh: stored after the *)
(* answer and before the stream opened, or replaced away by an answer that *)
(* was given before it.                                                    *)
THEOREM LiveStaysFresh == Spec => []LiveFresh
<1>1. PageInv => LiveFresh
  BY PageInvImplies
<1>. QED
  BY <1>1, PageInvariant, PTL
=============================================================================
