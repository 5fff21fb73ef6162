---------------------------- MODULE ServerProofs ----------------------------
(***************************************************************************)
(* Proofs about Server, for any number of clients, of imports at the same  *)
(* time and of messages, and for any capacities: the hub never sends on a  *)
(* closed channel, a stop of the server is clean, and a stream is faithful *)
(* to what is published.                                                   *)
(***************************************************************************)
EXTENDS Server, TLAPS

(* What the steps of the stream rely on: a client is in the hub's map only *)
(* while its handler serves it, and its channel is closed only when the    *)
(* handler is gone.                                                        *)
StreamInv ==
    /\ subscribers \subseteq Clients
    /\ closed \subseteq Clients
    /\ DOMAIN handler = Clients
    /\ \A c \in subscribers : handler[c] = "serving"
    /\ \A c \in closed : handler[c] = "gone"

(* Appending and publishing leave the clients alone.                       *)
LEMMA WriterKeepsStream ==
    ASSUME StreamInv, NEW w, StoreAppend(w) \/ Publish(w) \/ UNCHANGED vars
    PROVE  StreamInv'
BY DEF StreamInv, StoreAppend, Publish, vars, clientVars

(* A client that comes was not there before, and one that leaves is taken  *)
(* out of the map before its channel is closed.                            *)
LEMMA ClientKeepsStream ==
    ASSUME StreamInv, NEW c \in Clients, Subscribe(c) \/ Deliver(c) \/ Leave(c) \/ Close(c)
    PROVE  StreamInv'
<1>. USE DEF StreamInv
<1>1. CASE Subscribe(c)
  BY <1>1 DEF Subscribe
<1>2. CASE Deliver(c)
  BY <1>2 DEF Deliver
<1>3. CASE Leave(c)
  BY <1>3 DEF Leave
<1>4. CASE Close(c)
  BY <1>4 DEF Close
<1>. QED
  BY <1>1, <1>2, <1>3, <1>4

(* Every step of the server is one of these to the stream.                 *)
LEMMA NextKeepsStream ==
    ASSUME StreamInv, [ServerNext]_allVars
    PROVE  StreamInv'
<1>1. CASE Received \/ ConsumerEnds \/ Signal \/ ServerFails \/ Drained
           \/ TimesOut \/ Exits \/ UNCHANGED allVars
  <2>1. UNCHANGED vars
    BY <1>1 DEF Received, ConsumerEnds, Signal, ServerFails, Drained,
                TimesOut, Exits, allVars
  <2>. QED
    BY <2>1, WriterKeepsStream
<1>2. CASE Consume
  BY <1>2, WriterKeepsStream DEF Consume
<1>3. ASSUME NEW c \in Clients, Connects(c) \/ Streams(c)
      PROVE  StreamInv'
  BY <1>3, ClientKeepsStream DEF Connects, Streams
<1>4. ASSUME NEW w \in Writers, Published(w)
      PROVE  StreamInv'
  BY <1>4, WriterKeepsStream DEF Published
<1>5. ASSUME NEW i \in Imports, BeginImport(i) \/ ImportAppends(i) \/ EndImport(i)
      PROVE  StreamInv'
  BY <1>5, WriterKeepsStream DEF BeginImport, ImportAppends, EndImport
<1>. QED
  BY <1>1, <1>2, <1>3, <1>4, <1>5 DEF ServerNext

(* Publish never sends on a closed channel, which would panic, however     *)
(* clients come and go while the consumer and any number of imports at the *)
(* same time publish, and the server stops.                                *)
THEOREM NoSendOnClosed == ServerSpec => []OpenChannelsOnly
<1>1. ServerInit => StreamInv
  BY DEF ServerInit, Init, StreamInv
<1>2. StreamInv => OpenChannelsOnly
  BY DEF StreamInv, OpenChannelsOnly
<1>. QED
  BY <1>1, <1>2, NextKeepsStream, PTL DEF ServerSpec

-----------------------------------------------------------------------------
Mains == {"serving", "stopping", "closing", "exited"}

(* What a clean stop rests on: only the consumer appends as "syslog", and  *)
(* only a running import as itself; the consumer ends between two          *)
(* messages, and run reports success only if every request was served.     *)
StopInv ==
    /\ DOMAIN appended = Writers
    /\ main \in Mains
    /\ failed \in BOOLEAN /\ consumer \in BOOLEAN /\ importing \subseteq Imports
    /\ \A i \in Imports \ importing : appended[i] = 0
    /\ ~consumer => appended["syslog"] = 0
    /\ main = "exited" => ~consumer
    /\ main \in {"closing", "exited"} /\ ~failed => Served

(* Steps of the stream change neither the listener nor run; once every     *)
(* request has been served no client is left to take a step.               *)
LEMMA StreamsKeepStop ==
    ASSUME StopInv, StreamInv, NEW c \in Clients, Connects(c) \/ Streams(c)
    PROVE  StopInv'
<1>1. UNCHANGED <<appended, main, failed, consumer, importing>>
  BY DEF Connects, Streams, Subscribe, Deliver, Leave, Close, serverVars
<1>2. ASSUME main \in {"closing", "exited"}, ~failed
      PROVE  FALSE
  <2>1. handler[c] \in {"none", "gone"}
    BY <1>2 DEF StopInv, Served
  <2>2. Streams(c)
    BY <1>2 DEF Connects, Accepting
  <2>. QED
    BY <2>1, <2>2 DEF Streams, Deliver, Leave, Close
<1>3. main' \in {"closing", "exited"} /\ ~failed' => Served'
  BY <1>1, <1>2
<1>. QED
  BY <1>1, <1>3 DEF StopInv

(* A writer stores and publishes; nothing else of the server changes.      *)
LEMMA WritersKeepStop ==
    ASSUME StopInv, Consume \/ (\E i \in Imports : ImportAppends(i))
                        \/ \E w \in Writers : Published(w)
    PROVE  StopInv'
<1>. USE WritersAssumption DEF StopInv, Served, Imports, serverVars
<1>1. CASE Consume
  <2>1. CASE StoreAppend("syslog")
    BY <1>1, <2>1 DEF Consume, StoreAppend, clientVars
  <2>2. CASE UNCHANGED vars
    BY <1>1, <2>2 DEF Consume, vars
  <2>. QED
    BY <1>1, <2>1, <2>2 DEF Consume
<1>2. ASSUME NEW i \in Imports, ImportAppends(i)
      PROVE  StopInv'
  BY <1>2 DEF ImportAppends, StoreAppend, clientVars
<1>3. ASSUME NEW w \in Writers, Published(w)
      PROVE  StopInv'
  BY <1>3 DEF Published, Publish, clientVars
<1>. QED
  BY <1>1, <1>2, <1>3

(* The consumer and an import end between two messages, run goes on to its *)
(* end by the order of its statements.                                     *)
LEMMA NextKeepsStop ==
    ASSUME StopInv, StreamInv, [ServerNext]_allVars
    PROVE  StopInv'
<1>. USE DEF StopInv, Served, Mains, vars
<1>1. CASE Received
  BY <1>1 DEF Received
<1>2. CASE ConsumerEnds
  BY <1>2 DEF ConsumerEnds
<1>3. ASSUME NEW i \in Imports, BeginImport(i)
      PROVE  StopInv'
  BY <1>3 DEF BeginImport, Accepting
<1>4. ASSUME NEW i \in Imports, EndImport(i)
      PROVE  StopInv'
  BY <1>4 DEF EndImport
<1>5. CASE Signal
  BY <1>5 DEF Signal
<1>6. CASE ServerFails
  BY <1>6 DEF ServerFails
<1>7. CASE Drained
  BY <1>7 DEF Drained
<1>8. CASE TimesOut
  BY <1>8 DEF TimesOut
<1>9. CASE Exits
  BY <1>9 DEF Exits
<1>10. CASE Consume \/ (\E i \in Imports : ImportAppends(i)) \/ \E w \in Writers : Published(w)
  BY <1>10, WritersKeepStop
<1>11. CASE \E c \in Clients : Connects(c) \/ Streams(c)
  BY <1>11, StreamsKeepStop
<1>12. CASE UNCHANGED allVars
  BY <1>12 DEF allVars, serverVars
<1>. QED
  BY <1>1, <1>2, <1>3, <1>4, <1>5, <1>6, <1>7, <1>8, <1>9, <1>10, <1>11, <1>12
  DEF ServerNext

(* No stop of the server cuts a message of the syslog consumer in two, and *)
(* none that run reports as a success cuts off an import or a stream.      *)
THEOREM StopIsClean == ServerSpec => []StopsCleanly
<1>1. ServerInit => StreamInv /\ StopInv
  BY WritersAssumption DEF ServerInit, Init, StreamInv, StopInv, Imports, Mains, Served
<1>2. StreamInv /\ StopInv /\ [ServerNext]_allVars => StreamInv' /\ StopInv'
  BY NextKeepsStream, NextKeepsStop
<1>3. StopInv => StopsCleanly
  BY DEF StopInv, StopsCleanly, Served
<1>. QED
  BY <1>1, <1>2, <1>3, PTL DEF ServerSpec

-----------------------------------------------------------------------------
(* Selections, as their sequences grow.  Nothing is selected from behind   *)
(* the end of a sequence.                                                  *)
LEMMA SelectionOfNone ==
    ASSUME NEW t, Len(t) \in Nat, NEW S
    PROVE  Selection(<<>>, t, Len(t) + 1, S)
<1>. DEFINE pos == [i \in 1 .. Len(<<>>) |-> Len(t) + 1]
<1>1. Len(<<>>) = 0
  OBVIOUS
<1>2. 1 .. Len(<<>>) = {} /\ Len(t) + 1 .. Len(t) = {}
  BY <1>1
<1>3. pos \in [1 .. Len(<<>>) -> Len(t) + 1 .. Len(t)]
  BY <1>2
<1>. QED
  BY <1>2, <1>3 DEF Selection

(* A message of the set is added to both sequences.                        *)
LEMMA SelectionGrows ==
    ASSUME NEW X, NEW s \in Seq(X), NEW t \in Seq(X), NEW first \in Nat \ {0},
           first <= Len(t) + 1, NEW S, NEW m \in X, m \in S, Selection(s, t, first, S)
    PROVE  Selection(Append(s, m), Append(t, m), first, S)
<1>. DEFINE u == Append(s, m)
            v == Append(t, m)
<1>1. /\ Len(s) \in Nat /\ Len(t) \in Nat /\ Len(u) = Len(s) + 1 /\ Len(v) = Len(t) + 1
      /\ u[Len(s) + 1] = m /\ v[Len(t) + 1] = m
      /\ \A i \in 1 .. Len(s) : u[i] = s[i]
      /\ \A i \in 1 .. Len(t) : v[i] = t[i]
  OBVIOUS
<1>2. PICK pos \in [1 .. Len(s) -> first .. Len(t)] :
         /\ \A i \in 1 .. Len(s) : s[i] = t[pos[i]]
         /\ \A i, j \in 1 .. Len(s) : i < j => pos[i] < pos[j]
         /\ {pos[i] : i \in 1 .. Len(s)} = {n \in first .. Len(t) : t[n] \in S}
  BY DEF Selection
<1>. HIDE DEF u, v
<1>. DEFINE new == [i \in 1 .. Len(u) |-> IF i = Len(s) + 1 THEN Len(t) + 1 ELSE pos[i]]
<1>3. /\ new[Len(s) + 1] = Len(t) + 1
      /\ \A i \in 1 .. Len(s) : new[i] = pos[i] /\ pos[i] \in first .. Len(t)
      /\ \A i \in 1 .. Len(u) : i \in 1 .. Len(s) \/ i = Len(s) + 1
  BY <1>1, <1>2
<1>4. new \in [1 .. Len(u) -> first .. Len(v)]
  BY <1>1, <1>3
<1>. HIDE DEF new
<1>5. ASSUME NEW i \in 1 .. Len(u) PROVE u[i] = v[new[i]]
  <2>1. CASE i = Len(s) + 1
    BY <1>1, <1>3, <2>1
  <2>2. CASE i \in 1 .. Len(s)
    <3>1. pos[i] \in 1 .. Len(t)
      BY <1>1, <1>3, <2>2
    <3>. QED
      BY <1>1, <1>2, <1>3, <2>2, <3>1
  <2>. QED
    BY <1>3, <2>1, <2>2
<1>6. ASSUME NEW i \in 1 .. Len(u), NEW j \in 1 .. Len(u), i < j PROVE new[i] < new[j]
  <2>1. i \in 1 .. Len(s)
    BY <1>1, <1>6
  <2>2. CASE j = Len(s) + 1
    BY <1>1, <1>3, <2>1, <2>2
  <2>3. CASE j \in 1 .. Len(s)
    BY <1>2, <1>3, <1>6, <2>1, <2>3
  <2>. QED
    BY <1>3, <2>2, <2>3
<1>7. \A i \in 1 .. Len(u) : v[new[i]] \in S
  <2>1. \A i \in 1 .. Len(s) : t[pos[i]] \in S
    BY <1>2
  <2>2. \A i \in 1 .. Len(s) : v[new[i]] = t[pos[i]]
    BY <1>1, <1>3
  <2>. QED
    BY <1>1, <1>3, <2>1, <2>2
<1>8. ASSUME NEW n \in first .. Len(v), v[n] \in S PROVE \E i \in 1 .. Len(u) : n = new[i]
  <2>1. CASE n = Len(t) + 1
    <3>1. Len(s) + 1 \in 1 .. Len(u)
      BY <1>1
    <3>. QED
      BY <1>3, <2>1, <3>1
  <2>2. CASE n # Len(t) + 1
    <3>1. n \in first .. Len(t) /\ t[n] \in S
      BY <1>1, <1>8, <2>2
    <3>2. PICK i \in 1 .. Len(s) : n = pos[i]
      BY <1>2, <3>1
    <3>. QED
      BY <1>1, <1>3, <3>2
  <2>. QED
    BY <2>1, <2>2
<1>9. {new[i] : i \in 1 .. Len(u)} = {n \in first .. Len(v) : v[n] \in S}
  BY <1>4, <1>7, <1>8
<1>10. Selection(u, v, first, S)
  BY <1>4, <1>5, <1>6, <1>9 DEF Selection
<1>. QED
  BY <1>10 DEF u, v

(* A message that is not of the set, or no longer, is passed over.         *)
LEMMA SelectionSkips ==
    ASSUME NEW X, NEW s \in Seq(X), NEW t \in Seq(X), NEW first \in Nat \ {0},
           NEW S, NEW R, NEW m \in X, m \notin R, Selection(s, t, first, S),
           \A n \in first .. Len(t) : t[n] \in S <=> t[n] \in R
    PROVE  Selection(s, Append(t, m), first, R)
<1>. DEFINE v == Append(t, m)
<1>1. /\ Len(t) \in Nat /\ Len(v) = Len(t) + 1 /\ v[Len(t) + 1] = m
      /\ \A i \in 1 .. Len(t) : v[i] = t[i]
  OBVIOUS
<1>2. PICK pos \in [1 .. Len(s) -> first .. Len(t)] :
         /\ \A i \in 1 .. Len(s) : s[i] = t[pos[i]]
         /\ \A i, j \in 1 .. Len(s) : i < j => pos[i] < pos[j]
         /\ {pos[i] : i \in 1 .. Len(s)} = {n \in first .. Len(t) : t[n] \in S}
  BY DEF Selection
<1>. HIDE DEF v
<1>3. pos \in [1 .. Len(s) -> first .. Len(v)]
  BY <1>1
<1>4. \A i \in 1 .. Len(s) : s[i] = v[pos[i]]
  BY <1>1, <1>2
<1>5. {n \in first .. Len(v) : v[n] \in R} = {n \in first .. Len(t) : t[n] \in S}
  <2>1. \A n \in first .. Len(v) : n = Len(t) + 1 \/ n \in first .. Len(t)
    BY <1>1
  <2>2. \A n \in first .. Len(t) : n \in first .. Len(v) /\ v[n] = t[n]
    BY <1>1
  <2>. QED
    BY <1>1, <2>1, <2>2
<1>6. Selection(s, v, first, R)
  BY <1>2, <1>3, <1>4, <1>5 DEF Selection
<1>. QED
  BY <1>6 DEF v

-----------------------------------------------------------------------------
(* A message is published once, by the writer that stored it.              *)
NumbersInv ==
    /\ stored \in 0 .. MaxMessages
    /\ appended \in [Writers -> 0 .. MaxMessages]
    /\ \A w \in Writers : appended[w] <= stored
    /\ \A v, w \in Writers : appended[v] = appended[w] => v = w \/ appended[v] = 0
    /\ published \in Seq(Messages)
    /\ \A n \in 1 .. Len(published) :
          /\ published[n] <= stored
          /\ \A w \in Writers : published[n] # appended[w]

(* Channels hold messages; what was dropped had been published; a client   *)
(* that has not come yet has nothing.                                      *)
QueuesInv ==
    /\ channel \in [Clients -> Seq(Messages)]
    /\ taken \in [Clients -> Seq(Messages)]
    /\ events \in [Clients -> Seq(Messages)]
    /\ dropped \in [Clients -> SUBSET Messages]
    /\ since \in [Clients -> Nat]
    /\ \A c \in Clients :
          /\ since[c] <= Len(published)
          /\ \A m \in dropped[c] : \E n \in 1 .. Len(published) : published[n] = m
          /\ handler[c] = "none" => channel[c] = <<>> /\ taken[c] = <<>>

FaithfulInv == StreamInv /\ NumbersInv /\ QueuesInv /\ StreamFaithful

(* A sequence holds members of its set.                                    *)
LEMMA MessageNumbers ==
    ASSUME NumbersInv
    PROVE  /\ stored \in Nat
           /\ \A w \in Writers : appended[w] \in Nat /\ appended[w] <= stored
           /\ \A n \in 1 .. Len(published) : published[n] \in Messages /\ published[n] # 0
<1>1. stored \in 0 .. MaxMessages /\ appended \in [Writers -> 0 .. MaxMessages]
  BY DEF NumbersInv
<1>2. stored \in Nat
  BY <1>1, MessagesAssumption
<1>3. ASSUME NEW w \in Writers PROVE appended[w] \in Nat /\ appended[w] <= stored
  <2>1. appended[w] \in 0 .. MaxMessages
    BY <1>1
  <2>. QED
    BY <2>1, MessagesAssumption DEF NumbersInv
<1>4. ASSUME NEW n \in 1 .. Len(published)
      PROVE  published[n] \in Messages /\ published[n] # 0
  <2>1. published \in Seq(Messages)
    BY DEF NumbersInv
  <2>2. published[n] \in Messages
    BY <1>4, <2>1
  <2>. QED
    BY <2>2, MessagesAssumption DEF Messages
<1>. QED
  BY <1>2, <1>3, <1>4

(* A message that is stored has a new number.                              *)
LEMMA AppendKeepsFaithful ==
    ASSUME FaithfulInv, NEW w \in Writers, StoreAppend(w)
    PROVE  FaithfulInv'
<1>. USE DEF FaithfulInv
<1>1. /\ stored' = stored + 1 /\ stored < MaxMessages
      /\ appended' = [appended EXCEPT ![w] = stored + 1]
      /\ UNCHANGED <<subscribers, channel, closed, handler, events, taken, since, published,
                     dropped>>
  BY DEF StoreAppend, clientVars
<1>2. StreamInv'
  BY WriterKeepsStream
<1>3. NumbersInv'
  <2>1. \A n \in 1 .. Len(published) : published[n] \in Nat /\ published[n] # 0
    BY MessageNumbers, MessagesAssumption DEF Messages
  <2>2. stored' \in 0 .. MaxMessages /\ appended' \in [Writers -> 0 .. MaxMessages]
    BY <1>1, MessagesAssumption DEF NumbersInv
  <2>3. /\ appended'[w] = stored + 1
        /\ \A v \in Writers : v # w => appended'[v] = appended[v]
    BY <1>1 DEF NumbersInv
  <2>4. \A v \in Writers : appended[v] \in Nat /\ appended[v] <= stored /\ stored \in Nat
    BY MessageNumbers
  <2>5. \A v \in Writers : appended'[v] <= stored'
    BY <1>1, <2>3, <2>4
  <2>6. \A v, x \in Writers : appended'[v] = appended'[x] => v = x \/ appended'[v] = 0
    BY <2>3, <2>4 DEF NumbersInv
  <2>7. \A n \in 1 .. Len(published) :
           published[n] <= stored' /\ \A v \in Writers : published[n] # appended'[v]
    BY <1>1, <2>1, <2>3, <2>4 DEF NumbersInv
  <2>. QED
    BY <1>1, <2>2, <2>5, <2>6, <2>7 DEF NumbersInv, Messages
<1>4. QueuesInv'
  BY <1>1 DEF QueuesInv, Messages
<1>5. StreamFaithful'
  BY <1>1 DEF StreamFaithful, Messages
<1>. QED
  BY <1>2, <1>3, <1>4, <1>5

(* Sequences around a message that moves.                                  *)
LEMMA MessageMoves ==
    ASSUME NEW X, NEW s \in Seq(X), NEW t \in Seq(X)
    PROVE  /\ s \o t \in Seq(X)
           /\ \A m \in X : s \o Append(t, m) = Append(s \o t, m)
           /\ t # <<>> => /\ Head(t) \in X /\ Tail(t) \in Seq(X)
                          /\ Append(s, Head(t)) \o Tail(t) = s \o t
<1>1. s \o t \in Seq(X) /\ \A m \in X : s \o Append(t, m) = Append(s \o t, m)
  OBVIOUS
<1>2. ASSUME t # <<>>
      PROVE  /\ Head(t) \in X /\ Tail(t) \in Seq(X)
             /\ Append(s, Head(t)) \o Tail(t) = s \o t
  BY <1>2
<1>. QED
  BY <1>1, <1>2

(* A message that is published reaches the channel of every client with    *)
(* room, and is one its full channel cost each of the others.              *)
LEMMA PublishKeepsFaithful ==
    ASSUME FaithfulInv, NEW w \in Writers, Publish(w)
    PROVE  FaithfulInv'
<1>. USE DEF FaithfulInv
<1>. DEFINE m == appended[w]
<1>1. /\ m # 0
      /\ channel' = [c \in Clients |->
            IF c \in subscribers /\ ~Full(c) THEN Append(channel[c], m) ELSE channel[c]]
      /\ dropped' = [c \in Clients |->
            IF c \in subscribers /\ Full(c) THEN dropped[c] \cup {m} ELSE dropped[c]]
      /\ published' = Append(published, m)
      /\ appended' = [appended EXCEPT ![w] = 0]
      /\ UNCHANGED <<stored, subscribers, closed, handler, events, taken, since>>
  BY DEF Publish, clientVars
<1>2. m \in Messages /\ m <= stored /\ \A n \in 1 .. Len(published) : published[n] # m
  BY <1>1 DEF NumbersInv, Messages
<1>3. /\ \A v \in Writers : v # w => appended[v] # m
      /\ \A v \in Writers : appended'[v] = IF v = w THEN 0 ELSE appended[v]
  BY <1>1 DEF NumbersInv
<1>. HIDE DEF m
<1>4. /\ published \in Seq(Messages) /\ published' \in Seq(Messages)
      /\ Len(published) \in Nat /\ Len(published') = Len(published) + 1
      /\ published'[Len(published) + 1] = m
      /\ \A n \in 1 .. Len(published) : published'[n] = published[n]
  BY <1>1, <1>2 DEF NumbersInv
<1>5. StreamInv'
  BY WriterKeepsStream
<1>6. NumbersInv'
  <2>1. appended' \in [Writers -> 0 .. MaxMessages]
    BY <1>1, MessagesAssumption DEF NumbersInv
  <2>2. /\ \A v \in Writers : appended'[v] <= stored'
        /\ \A v, x \in Writers : appended'[v] = appended'[x] => v = x \/ appended'[v] = 0
    BY <1>1, <1>3 DEF NumbersInv
  <2>3. ASSUME NEW n \in 1 .. Len(published')
        PROVE  published'[n] <= stored' /\ \A v \in Writers : published'[n] # appended'[v]
    <3>1. CASE n = Len(published) + 1
      BY <1>1, <1>2, <1>3, <1>4, <3>1
    <3>2. CASE n # Len(published) + 1
      <4>1. n \in 1 .. Len(published) /\ published'[n] = published[n]
        BY <1>4, <3>2
      <4>2. published[n] # 0
        BY <4>1, MessageNumbers
      <4>. QED
        BY <1>1, <1>3, <4>1, <4>2 DEF NumbersInv
    <3>. QED
      BY <3>1, <3>2
  <2>. QED
    BY <1>1, <1>4, <2>1, <2>2, <2>3 DEF NumbersInv, Messages
<1>7. ASSUME NEW c \in Clients
      PROVE  /\ channel[c] \in Seq(Messages) /\ taken[c] \in Seq(Messages)
             /\ since[c] \in Nat /\ since[c] <= Len(published)
             /\ m \notin dropped[c]
             /\ channel'[c] = IF c \in subscribers /\ ~Full(c) THEN Append(channel[c], m)
                              ELSE channel[c]
             /\ dropped'[c] = IF c \in subscribers /\ Full(c) THEN dropped[c] \cup {m}
                              ELSE dropped[c]
  BY <1>1, <1>2 DEF QueuesInv
<1>8. QueuesInv'
  <2>1. channel' \in [Clients -> Seq(Messages)]
    BY <1>1, <1>2 DEF QueuesInv
  <2>2. dropped' \in [Clients -> SUBSET Messages]
    BY <1>1, <1>2 DEF QueuesInv
  <2>3. ASSUME NEW c \in Clients
        PROVE  /\ since'[c] <= Len(published')
               /\ \A x \in dropped'[c] : \E n \in 1 .. Len(published') : published'[n] = x
               /\ handler'[c] = "none" => channel'[c] = <<>> /\ taken'[c] = <<>>
    <3>1. since'[c] <= Len(published')
      BY <1>1, <1>4, <1>7
    <3>2. ASSUME NEW x \in dropped'[c] PROVE \E n \in 1 .. Len(published') : published'[n] = x
      <4>1. CASE x = m
        BY <1>4, <4>1
      <4>2. CASE x # m
        <5>1. x \in dropped[c]
          BY <1>7, <3>2, <4>2
        <5>2. PICK n \in 1 .. Len(published) : published[n] = x
          BY <5>1 DEF QueuesInv
        <5>. QED
          BY <1>4, <5>2
      <4>. QED
        BY <4>1, <4>2
    <3>3. handler'[c] = "none" => channel'[c] = <<>> /\ taken'[c] = <<>>
      BY <1>1, <1>7 DEF QueuesInv, StreamInv
    <3>. QED
      BY <3>1, <3>2, <3>3
  <2>. QED
    BY <1>1, <2>1, <2>2, <2>3 DEF QueuesInv, Messages
<1>9. ASSUME NEW c \in Clients, c \in subscribers
      PROVE  Selection(taken[c] \o channel'[c], published', since[c] + 1, Messages \ dropped'[c])
  <2>. DEFINE s == taken[c] \o channel[c]
              S == Messages \ dropped[c]
              R == Messages \ dropped'[c]
              first == since[c] + 1
  <2>1. Selection(s, published, first, S)
    BY <1>9 DEF StreamFaithful
  <2>2. first \in Nat \ {0} /\ first <= Len(published) + 1
    <3>1. since[c] \in Nat /\ since[c] <= Len(published) /\ Len(published) \in Nat
      BY <1>4, <1>7
    <3>. QED
      BY <3>1
  <2>3. channel[c] \in Seq(Messages) /\ taken[c] \in Seq(Messages)
    BY <1>7
  <2>4. s \in Seq(Messages) /\ taken[c] \o Append(channel[c], m) = Append(s, m)
    <3>1. \A a, b \in Seq(Messages) :
             a \o b \in Seq(Messages)
             /\ \A x \in Messages : a \o Append(b, x) = Append(a \o b, x)
      BY MessageMoves
    <3>. QED
      BY <1>2, <2>3, <3>1, Zenon
  <2>5. m \in S
    BY <1>2, <1>7
  <2>. HIDE DEF s, first
  <2>6. CASE ~Full(c)
    <3>1. channel'[c] = Append(channel[c], m) /\ dropped'[c] = dropped[c]
      BY <1>7, <1>9, <2>6
    <3>. HIDE DEF S
    <3>2. Selection(Append(s, m), Append(published, m), first, S)
      BY <1>2, <1>4, <2>1, <2>2, <2>4, <2>5, SelectionGrows
    <3>. QED
      BY <1>1, <2>4, <3>1, <3>2 DEF S, first
  <2>7. CASE Full(c)
    <3>1. channel'[c] = channel[c] /\ dropped'[c] = dropped[c] \cup {m}
      BY <1>7, <1>9, <2>7
    <3>2. R = S \ {m}
      BY <3>1
    <3>. HIDE DEF S, R
    <3>3. \A n \in first .. Len(published) : published[n] \in S <=> published[n] \in R
      <4>1. \A n \in first .. Len(published) : published[n] # m
        BY <1>2, <1>4, <2>2
      <4>. QED
        BY <3>2, <4>1
    <3>4. m \notin R
      BY <3>2
    <3>5. Selection(s, Append(published, m), first, R)
      BY <1>2, <1>4, <2>1, <2>2, <2>4, <3>3, <3>4, SelectionSkips
    <3>. QED
      BY <1>1, <3>1, <3>5 DEF s, first, R
  <2>. QED
    BY <2>6, <2>7
<1>10. StreamFaithful'
  BY <1>1, <1>9 DEF StreamFaithful, Messages
<1>. QED
  BY <1>5, <1>6, <1>8, <1>10

(* A client that comes has missed all that was published before.           *)
LEMMA SubscribeKeepsFaithful ==
    ASSUME FaithfulInv, NEW c \in Clients, Subscribe(c)
    PROVE  FaithfulInv'
<1>. USE DEF FaithfulInv
<1>1. /\ handler[c] = "none"
      /\ handler' = [handler EXCEPT ![c] = "serving"]
      /\ subscribers' = subscribers \cup {c}
      /\ since' = [since EXCEPT ![c] = Len(published)]
      /\ UNCHANGED <<stored, appended, channel, closed, events, taken, published, dropped>>
  BY DEF Subscribe
<1>2. StreamInv'
  BY ClientKeepsStream
<1>3. NumbersInv'
  BY <1>1 DEF NumbersInv, Messages
<1>4. published \in Seq(Messages) /\ Len(published) \in Nat
  BY DEF NumbersInv
<1>5. /\ since'[c] = Len(published)
      /\ \A d \in Clients : d # c => since'[d] = since[d] /\ handler'[d] = handler[d]
      /\ handler'[c] = "serving"
  BY <1>1 DEF QueuesInv, StreamInv
<1>6. QueuesInv'
  <2>1. since' \in [Clients -> Nat]
    BY <1>1, <1>4 DEF QueuesInv
  <2>2. ASSUME NEW d \in Clients
        PROVE  /\ since'[d] <= Len(published)
               /\ handler'[d] = "none" => channel[d] = <<>> /\ taken[d] = <<>>
    <3>1. CASE d = c
      BY <1>4, <1>5, <3>1
    <3>2. CASE d # c
      BY <1>5, <3>2 DEF QueuesInv
    <3>. QED
      BY <3>1, <3>2
  <2>. QED
    BY <1>1, <2>1, <2>2 DEF QueuesInv, Messages
<1>7. Selection(taken[c] \o channel[c], published, since'[c] + 1, Messages \ dropped[c])
  <2>1. taken[c] = <<>> /\ channel[c] = <<>>
    BY <1>1 DEF QueuesInv
  <2>2. <<>> \o <<>> = <<>>
    OBVIOUS
  <2>3. Selection(<<>>, published, Len(published) + 1, Messages \ dropped[c])
    BY <1>4, SelectionOfNone
  <2>. QED
    BY <1>5, <2>1, <2>2, <2>3
<1>8. \A d \in Clients : d \in subscribers' =>
         Selection(taken[d] \o channel[d], published, since'[d] + 1, Messages \ dropped[d])
  BY <1>1, <1>5, <1>7 DEF StreamFaithful
<1>9. StreamFaithful'
  BY <1>1, <1>8 DEF StreamFaithful, Messages
<1>. QED
  BY <1>2, <1>3, <1>6, <1>9

(* What a handler takes goes from one sequence to the other, and is        *)
(* written exactly if it matches.                                          *)
LEMMA DeliverKeepsFaithful ==
    ASSUME FaithfulInv, NEW c \in Clients, Deliver(c)
    PROVE  FaithfulInv'
<1>. USE DEF FaithfulInv
<1>. DEFINE m == Head(channel[c])
<1>1. /\ handler[c] = "serving" /\ channel[c] # <<>>
      /\ channel' = [channel EXCEPT ![c] = Tail(channel[c])]
      /\ taken' = [taken EXCEPT ![c] = Append(taken[c], m)]
      /\ events' = [events EXCEPT ![c] =
            IF m \in Matching THEN Append(events[c], m) ELSE events[c]]
      /\ UNCHANGED <<stored, appended, subscribers, closed, handler, since, published, dropped>>
  BY DEF Deliver
<1>2. StreamInv'
  BY ClientKeepsStream
<1>3. NumbersInv'
  BY <1>1 DEF NumbersInv, Messages
<1>4. /\ channel[c] \in Seq(Messages) /\ taken[c] \in Seq(Messages)
      /\ events[c] \in Seq(Messages)
  BY DEF QueuesInv
<1>5. /\ m \in Messages /\ Tail(channel[c]) \in Seq(Messages)
      /\ Append(taken[c], m) \o Tail(channel[c]) = taken[c] \o channel[c]
  <2>1. \A s, t \in Seq(Messages) : t # <<>> =>
           /\ Head(t) \in Messages /\ Tail(t) \in Seq(Messages)
           /\ Append(s, Head(t)) \o Tail(t) = s \o t
    BY MessageMoves
  <2>. QED
    BY <1>1, <1>4, <2>1, Zenon
<1>. HIDE DEF m
<1>6. /\ channel'[c] = Tail(channel[c]) /\ taken'[c] = Append(taken[c], m)
      /\ events'[c] = IF m \in Matching THEN Append(events[c], m) ELSE events[c]
      /\ \A d \in Clients : d # c => /\ channel'[d] = channel[d] /\ taken'[d] = taken[d]
                                     /\ events'[d] = events[d]
  BY <1>1 DEF QueuesInv
<1>7. QueuesInv'
  <2>1. /\ Append(taken[c], m) \in Seq(Messages)
        /\ Append(events[c], m) \in Seq(Messages)
    BY <1>4, <1>5
  <2>2. channel' \in [Clients -> Seq(Messages)]
    BY <1>1, <1>5 DEF QueuesInv
  <2>3. taken' \in [Clients -> Seq(Messages)]
    BY <1>1, <2>1 DEF QueuesInv
  <2>4. events' \in [Clients -> Seq(Messages)]
    BY <1>1, <1>4, <2>1 DEF QueuesInv
  <2>5. ASSUME NEW d \in Clients, handler[d] = "none"
        PROVE  channel'[d] = <<>> /\ taken'[d] = <<>>
    BY <1>1, <1>6, <2>5 DEF QueuesInv
  <2>. QED
    BY <1>1, <2>2, <2>3, <2>4, <2>5 DEF QueuesInv, Messages
<1>8. ASSUME NEW d \in Clients PROVE taken'[d] \o channel'[d] = taken[d] \o channel[d]
  BY <1>5, <1>6
<1>9. Selection(events'[c], taken'[c], 1, Matching)
  <2>1. Selection(events[c], taken[c], 1, Matching)
    BY DEF StreamFaithful
  <2>2. Len(taken[c]) \in Nat /\ 1 <= Len(taken[c]) + 1
    BY <1>4
  <2>3. CASE m \in Matching
    <3>1. Selection(Append(events[c], m), Append(taken[c], m), 1, Matching)
      BY <1>4, <1>5, <2>1, <2>2, <2>3, SelectionGrows
    <3>. QED
      BY <1>6, <2>3, <3>1
  <2>4. CASE m \notin Matching
    <3>1. Selection(events[c], Append(taken[c], m), 1, Matching)
      BY <1>4, <1>5, <2>1, <2>4, SelectionSkips
    <3>. QED
      BY <1>6, <2>4, <3>1
  <2>. QED
    BY <2>3, <2>4
<1>10. StreamFaithful'
  <2>1. ASSUME NEW d \in Clients
        PROVE  /\ d \in subscribers =>
                     Selection(taken'[d] \o channel'[d], published, since[d] + 1,
                               Messages \ dropped[d])
               /\ Selection(events'[d], taken'[d], 1, Matching)
    <3>1. CASE d = c
      BY <1>8, <1>9, <3>1 DEF StreamFaithful
    <3>2. CASE d # c
      BY <1>6, <3>2 DEF StreamFaithful
    <3>. QED
      BY <3>1, <3>2
  <2>. QED
    BY <1>1, <2>1 DEF StreamFaithful, Messages
<1>. QED
  BY <1>2, <1>3, <1>7, <1>10

(* A client that leaves gets no more.                                      *)
LEMMA LeavingKeepsFaithful ==
    ASSUME FaithfulInv, NEW c \in Clients, Leave(c) \/ Close(c)
    PROVE  FaithfulInv'
<1>. USE DEF FaithfulInv
<1>1. /\ handler[c] # "none" /\ subscribers' \subseteq subscribers
      /\ \E h \in {"leaving", "gone"} : handler' = [handler EXCEPT ![c] = h]
      /\ UNCHANGED <<stored, appended, channel, events, taken, published, since, dropped>>
  BY DEF Leave, Close
<1>2. StreamInv'
  BY ClientKeepsStream
<1>3. NumbersInv'
  BY <1>1 DEF NumbersInv, Messages
<1>4. \A d \in Clients : handler'[d] = "none" => handler[d] = "none"
  BY <1>1 DEF StreamInv
<1>5. QueuesInv'
  BY <1>1, <1>4 DEF QueuesInv, Messages
<1>6. StreamFaithful'
  BY <1>1 DEF StreamFaithful, Messages
<1>. QED
  BY <1>2, <1>3, <1>5, <1>6

(* Every step of the server is one of these to the stream.                 *)
LEMMA NextKeepsFaithful ==
    ASSUME FaithfulInv, [ServerNext]_allVars
    PROVE  FaithfulInv'
<1>1. ASSUME UNCHANGED vars PROVE FaithfulInv'
  BY <1>1 DEF vars, FaithfulInv, StreamInv, NumbersInv, QueuesInv, StreamFaithful, Messages
<1>2. CASE Received \/ ConsumerEnds \/ Signal \/ ServerFails \/ Drained
           \/ TimesOut \/ Exits \/ UNCHANGED allVars
  <2>1. UNCHANGED vars
    BY <1>2 DEF Received, ConsumerEnds, Signal, ServerFails, Drained,
                TimesOut, Exits, allVars
  <2>. QED
    BY <1>1, <2>1
<1>3. CASE Consume
  BY <1>1, <1>3, WritersAssumption, AppendKeepsFaithful DEF Consume
<1>4. ASSUME NEW c \in Clients, Connects(c) \/ Streams(c)
      PROVE  FaithfulInv'
  BY <1>4, SubscribeKeepsFaithful, DeliverKeepsFaithful, LeavingKeepsFaithful
  DEF Connects, Streams
<1>5. ASSUME NEW w \in Writers, Published(w)
      PROVE  FaithfulInv'
  BY <1>5, PublishKeepsFaithful DEF Published
<1>6. ASSUME NEW i \in Imports, BeginImport(i) \/ ImportAppends(i) \/ EndImport(i)
      PROVE  FaithfulInv'
  BY <1>1, <1>6, AppendKeepsFaithful DEF BeginImport, ImportAppends, EndImport, Imports
<1>. QED
  BY <1>2, <1>3, <1>4, <1>5, <1>6 DEF ServerNext

(* However writers, the hub and the handlers interleave, what a client got *)
(* and has in its channel is what was published since it came, in order    *)
(* and once each, less what its full channel cost it.                      *)
THEOREM StreamIsFaithful == ServerSpec => []StreamFaithful
<1>1. ServerInit => FaithfulInv
  <2>. SUFFICES ASSUME ServerInit PROVE FaithfulInv
    OBVIOUS
  <2>1. Init
    BY DEF ServerInit
  <2>2. StreamInv
    BY <2>1 DEF Init, StreamInv
  <2>3. NumbersInv
    <3>1. published = <<>> /\ <<>> \in Seq(Messages) /\ Len(<<>>) = 0
      BY <2>1 DEF Init
    <3>2. stored = 0 /\ appended = [w \in Writers |-> 0] /\ 0 \in 0 .. MaxMessages
      BY <2>1, MessagesAssumption DEF Init
    <3>. QED
      BY <3>1, <3>2 DEF NumbersInv
  <2>4. QueuesInv
    <3>1. published = <<>> /\ <<>> \in Seq(Messages) /\ Len(<<>>) = 0
      BY <2>1 DEF Init
    <3>. QED
      BY <2>1, <3>1 DEF Init, QueuesInv
  <2>5. StreamFaithful
    <3>1. \A S : Selection(<<>>, <<>>, 1, S)
      <4>1. Len(<<>>) \in Nat /\ Len(<<>>) + 1 = 1
        OBVIOUS
      <4>. QED
        BY <4>1, SelectionOfNone
    <3>2. ASSUME NEW c \in Clients PROVE events[c] = <<>> /\ taken[c] = <<>>
      BY <2>1 DEF Init
    <3>. QED
      BY <2>1, <3>1, <3>2 DEF Init, StreamFaithful
  <2>. QED
    BY <2>2, <2>3, <2>4, <2>5 DEF FaithfulInv
<1>2. FaithfulInv => StreamFaithful
  BY DEF FaithfulInv
<1>. QED
  BY <1>1, <1>2, NextKeepsFaithful, PTL DEF ServerSpec
=============================================================================
