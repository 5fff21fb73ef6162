----------------------------- MODULE LiveStream -----------------------------
(***************************************************************************)
(* The live stream of messages: PublishingStore.Append and the Hub of      *)
(* internal/realtime/hub.go, and the handler of GET /messages/stream of    *)
(* internal/api/router.go.  A message is its number in order of append.    *)
(*                                                                         *)
(* Publish runs under the hub's mutex and never waits, so it is one step;  *)
(* leaving is two, since the channel is closed after the mutex is          *)
(* released.  The greeting and the heartbeats of the handler change        *)
(* nothing but may fail to be written, which ends it like any other        *)
(* failing write.                                                          *)
(***************************************************************************)
EXTENDS Naturals, Sequences

CONSTANTS
    Writers,      \* the syslog consumer and import handlers
    Clients,      \* connections to the stream
    Capacity,     \* subscriberBuffer
    Matching,     \* the messages that the filter of the stream lets through
    MaxMessages   \* bound: number of messages

ASSUME CapacityAssumption == Capacity \in Nat \ {0}

ASSUME MessagesAssumption == MaxMessages \in Nat

VARIABLES
    stored,      \* the number of messages in the store
    appended,    \* per writer: the message it stored and has to publish, or 0
    subscribers, \* the clients in the hub's map
    channel,     \* per client: its channel
    closed,      \* the clients whose channel is closed
    handler,     \* per client: where its handler is
    events,      \* history, per client: the messages written to it
    taken,       \* history, per client: the messages its handler took
    published,   \* history: the messages published
    since,       \* history, per client: how many were published before it came
    dropped      \* history, per client: the messages its full channel cost it

vars == <<stored, appended, subscribers, channel, closed, handler, events, taken,
          published, since, dropped>>

clientVars == <<handler, events, taken, since>>

-----------------------------------------------------------------------------
Messages == 1 .. MaxMessages

Full(c) == Len(channel[c]) = Capacity

Init ==
    /\ stored = 0
    /\ appended = [w \in Writers |-> 0]
    /\ subscribers = {}
    /\ channel = [c \in Clients |-> <<>>]
    /\ closed = {}
    /\ handler = [c \in Clients |-> "none"]
    /\ events = [c \in Clients |-> <<>>]
    /\ taken = [c \in Clients |-> <<>>]
    /\ published = <<>>
    /\ since = [c \in Clients |-> 0]
    /\ dropped = [c \in Clients |-> {}]

(* PublishingStore.Append: the store first.                                *)
StoreAppend(w) ==
    /\ appended[w] = 0
    /\ stored < MaxMessages
    /\ stored' = stored + 1
    /\ appended' = [appended EXCEPT ![w] = stored + 1]
    /\ UNCHANGED <<subscribers, channel, closed, clientVars, published, dropped>>

(* Mutant: a channel that holds a message already gets no other.           *)
PublishToEmpty(w) ==
    LET m == appended[w]
    IN  /\ m # 0
        /\ channel' = [c \in Clients |->
              IF c \in subscribers /\ channel[c] = <<>> THEN <<m>> ELSE channel[c]]
        /\ dropped' = [c \in Clients |->
              IF c \in subscribers /\ Full(c) THEN dropped[c] \cup {m} ELSE dropped[c]]
        /\ published' = Append(published, m)
        /\ appended' = [appended EXCEPT ![w] = 0]
        /\ UNCHANGED <<stored, subscribers, closed, clientVars>>

(* Mutant: Publish waits for room in every channel.                        *)
PublishWaiting(w) ==
    LET m == appended[w]
    IN  /\ m # 0
        /\ \A c \in subscribers : ~Full(c)
        /\ channel' = [c \in Clients |->
              IF c \in subscribers THEN Append(channel[c], m) ELSE channel[c]]
        /\ published' = Append(published, m)
        /\ appended' = [appended EXCEPT ![w] = 0]
        /\ UNCHANGED <<stored, subscribers, closed, clientVars, dropped>>

(* Hub.Publish: a client whose channel is full does not get the message.   *)
Publish(w) ==
    LET m == appended[w]
    IN  /\ m # 0
        /\ channel' = [c \in Clients |->
              IF c \in subscribers /\ ~Full(c) THEN Append(channel[c], m) ELSE channel[c]]
        /\ dropped' = [c \in Clients |->
              IF c \in subscribers /\ Full(c) THEN dropped[c] \cup {m} ELSE dropped[c]]
        /\ published' = Append(published, m)
        /\ appended' = [appended EXCEPT ![w] = 0]
        /\ UNCHANGED <<stored, subscribers, closed, clientVars>>

Subscribe(c) ==
    /\ handler[c] = "none"
    /\ handler' = [handler EXCEPT ![c] = "serving"]
    /\ subscribers' = subscribers \cup {c}
    /\ since' = [since EXCEPT ![c] = Len(published)]
    /\ UNCHANGED <<stored, appended, channel, closed, events, taken, published, dropped>>

(* The handler takes a message and writes it if it matches the filter.     *)
Deliver(c) ==
    /\ handler[c] = "serving"
    /\ channel[c] # <<>>
    /\ channel' = [channel EXCEPT ![c] = Tail(@)]
    /\ taken' = [taken EXCEPT ![c] = Append(@, Head(channel[c]))]
    /\ events' = [events EXCEPT ![c] =
          IF Head(channel[c]) \in Matching THEN Append(@, Head(channel[c])) ELSE @]
    /\ UNCHANGED <<stored, appended, subscribers, closed, handler, since, published, dropped>>

(* Mutant: the channel is closed while the hub still knows it.             *)
LeaveClosing(c) ==
    /\ handler[c] = "serving"
    /\ handler' = [handler EXCEPT ![c] = "leaving"]
    /\ closed' = closed \cup {c}
    /\ UNCHANGED <<stored, appended, subscribers, channel, events, taken, published, since,
                   dropped>>

(* The request ends or a write fails: the deferred unsubscribe takes the   *)
(* client out of the map ...                                               *)
Leave(c) ==
    /\ handler[c] = "serving"
    /\ handler' = [handler EXCEPT ![c] = "leaving"]
    /\ subscribers' = subscribers \ {c}
    /\ UNCHANGED <<stored, appended, channel, closed, events, taken, published, since, dropped>>

(* ... and then, without the mutex, closes its channel.                    *)
Close(c) ==
    /\ handler[c] = "leaving"
    /\ handler' = [handler EXCEPT ![c] = "gone"]
    /\ closed' = closed \cup {c}
    /\ UNCHANGED <<stored, appended, subscribers, channel, events, taken, published, since,
                   dropped>>

-----------------------------------------------------------------------------
(* No channel in the hub's map is closed: Publish never sends on a closed  *)
(* channel, which would panic and take the service down.                   *)
OpenChannelsOnly == subscribers \cap closed = {}

(* What s holds is what t holds of the set S from position first on, in    *)
(* the same order: pos says where each was.                                *)
Selection(s, t, first, S) ==
    \E pos \in [1 .. Len(s) -> first .. Len(t)] :
        /\ \A i \in 1 .. Len(s) : s[i] = t[pos[i]]
        /\ \A i, j \in 1 .. Len(s) : i < j => pos[i] < pos[j]
        /\ {pos[i] : i \in 1 .. Len(s)} = {n \in first .. Len(t) : t[n] \in S}

(* What a client got and still has in its channel is what was published    *)
(* since it came, in that order and once each, except what its full        *)
(* channel cost it; and it was sent what matches of what was taken.        *)
StreamFaithful ==
    \A c \in Clients :
        /\ c \in subscribers =>
              Selection(taken[c] \o channel[c], published, since[c] + 1, Messages \ dropped[c])
        /\ Selection(events[c], taken[c], 1, Matching)
=============================================================================
