------------------------------- MODULE Server -------------------------------
(***************************************************************************)
(* The life of the server process, run of cmd/server/main.go, around the   *)
(* live stream: the syslog listener of internal/syslog/listener.go feeds   *)
(* the syslog writer, the HTTP server runs imports and streams, and a      *)
(* signal or a failing HTTP server ends them in the order of run.          *)
(*                                                                         *)
(* The channel of the listener is the number of its messages: parsing and  *)
(* converting them are left out.  A sender on the network is not modelled  *)
(* beyond its messages.  The incident worker, whose context the signal     *)
(* cancels and for which run does not wait, is in IncidentWorker.          *)
(***************************************************************************)
EXTENDS LiveStream

CONSTANT QueueCapacity \* of the channel of the listener

ASSUME QueueAssumption == QueueCapacity \in Nat \ {0}

(* The consumer of the listener is a writer; the others are the handlers   *)
(* of imports, each in a goroutine of its own.                             *)
ASSUME WritersAssumption == "syslog" \in Writers

Imports == Writers \ {"syslog"}

VARIABLES
    main,      \* where run is
    failed,    \* run returns an error
    queued,    \* messages in the channel of the listener
    consumer,  \* the goroutine of the listener runs
    importing  \* the imports that are running

serverVars == <<main, failed, queued, consumer, importing>>

allVars == <<vars, serverVars>>

-----------------------------------------------------------------------------
ServerInit ==
    /\ Init
    /\ main = "serving"
    /\ failed = FALSE
    /\ queued = 0
    /\ consumer = TRUE
    /\ importing = {}

Alive == main # "exited"

-----------------------------------------------------------------------------
(* The listener.                                                           *)

(* The syslog library hands a message over, and waits if there is no room. *)
Received ==
    /\ Alive
    /\ queued < QueueCapacity
    /\ stored + queued < MaxMessages
    /\ queued' = queued + 1
    /\ UNCHANGED <<vars, main, failed, consumer, importing>>

(* consume: the next message is appended; a failing append is logged.      *)
Consume ==
    /\ Alive /\ consumer
    /\ queued > 0
    /\ queued' = queued - 1
    /\ \/ StoreAppend("syslog")
       \/ appended["syslog"] = 0 /\ UNCHANGED vars
    /\ UNCHANGED <<main, failed, consumer, importing>>

(* It ends at its select, between two messages, once done is closed.       *)
ConsumerEnds ==
    /\ main = "closing" /\ consumer
    /\ appended["syslog"] = 0
    /\ consumer' = FALSE
    /\ UNCHANGED <<vars, main, failed, queued, importing>>

-----------------------------------------------------------------------------
(* Requests.  A connection from before may bring one while the HTTP server *)
(* shuts down.  Those that come after run has its result, when nothing but *)
(* the end of the process awaits them, are left out.                       *)

Accepting == main \in {"serving", "stopping"}

BeginImport(i) ==
    /\ Accepting /\ i \notin importing
    /\ importing' = importing \cup {i}
    /\ UNCHANGED <<vars, main, failed, queued, consumer>>

ImportAppends(i) ==
    /\ Alive /\ i \in importing
    /\ StoreAppend(i)
    /\ UNCHANGED serverVars

EndImport(i) ==
    /\ Alive /\ i \in importing
    /\ appended[i] = 0
    /\ importing' = importing \ {i}
    /\ UNCHANGED <<vars, main, failed, queued, consumer>>

Connects(c) == Accepting /\ Subscribe(c) /\ UNCHANGED serverVars

Published(w) == Alive /\ Publish(w) /\ UNCHANGED serverVars

Streams(c) == Alive /\ (Deliver(c) \/ Leave(c) \/ Close(c)) /\ UNCHANGED serverVars

-----------------------------------------------------------------------------
(* run.                                                                    *)

Signal ==
    /\ main = "serving"
    /\ main' = "stopping"
    /\ UNCHANGED <<vars, failed, queued, consumer, importing>>

(* The HTTP server cannot listen or accept: run returns its error at once. *)
ServerFails ==
    /\ main = "serving"
    /\ main' = "closing"
    /\ failed' = TRUE
    /\ UNCHANGED <<vars, queued, consumer, importing>>

Served == importing = {} /\ \A c \in Clients : handler[c] \in {"none", "gone"}

(* Shutdown returns: every request has been served; the HTTP server may    *)
(* have failed at the same time ...                                        *)
Drained ==
    /\ main = "stopping"
    /\ Served
    /\ main' = "closing"
    /\ failed' \in BOOLEAN
    /\ UNCHANGED <<vars, queued, consumer, importing>>

(* Mutant: Shutdown gives up only when no stream is open.                  *)
TimesOutIdle ==
    /\ main = "stopping"
    /\ \A c \in Clients : handler[c] # "serving"
    /\ main' = "closing"
    /\ failed' = TRUE
    /\ UNCHANGED <<vars, queued, consumer, importing>>

(* ... or its ten seconds are over, as they are when a stream stays open:  *)
(* nothing ends a stream but its client.                                   *)
TimesOut ==
    /\ main = "stopping"
    /\ ~Served
    /\ main' = "closing"
    /\ failed' = TRUE
    /\ UNCHANGED <<vars, queued, consumer, importing>>

(* Mutant: the consumer is not waited for.                                 *)
ExitsAtOnce ==
    /\ main = "closing"
    /\ main' = "exited"
    /\ UNCHANGED <<vars, failed, queued, consumer, importing>>

(* The deferred Shutdown of the listener has closed done and waits for the *)
(* consumer; then the process ends, and every goroutine with it.           *)
Exits ==
    /\ main = "closing"
    /\ ~consumer
    /\ main' = "exited"
    /\ UNCHANGED <<vars, failed, queued, consumer, importing>>

-----------------------------------------------------------------------------
ServerNext ==
    \/ Received \/ Consume \/ ConsumerEnds
    \/ \E i \in Imports : BeginImport(i) \/ ImportAppends(i) \/ EndImport(i)
    \/ \E c \in Clients : Connects(c) \/ Streams(c)
    \/ \E w \in Writers : Published(w)
    \/ Signal \/ ServerFails \/ Drained \/ TimesOut \/ Exits

(* Goroutines go on and the ten seconds end; the select of the consumer    *)
(* picks at random, so that done is seen in the end.  Nothing is assumed   *)
(* of clients, imports and the network.                                    *)
ServerSpec ==
    /\ ServerInit
    /\ [][ServerNext]_allVars
    /\ \A w \in Writers : WF_allVars(Published(w))
    /\ SF_allVars(ConsumerEnds)
    /\ WF_allVars(Drained \/ TimesOut)
    /\ WF_allVars(Exits)

-----------------------------------------------------------------------------
(* A stop cuts no message of a sender in two: what the consumer stored was *)
(* published before the process ended; and if run reports success, no      *)
(* import and no stream was cut off either.                                *)
StopsCleanly ==
    main = "exited" =>
        /\ appended["syslog"] = 0
        /\ ~failed => Served /\ \A i \in Imports : appended[i] = 0

(* Whatever clients, imports and senders do, a server that was told to     *)
(* stop, or whose HTTP server failed, ends.                                *)
Stops == main # "serving" ~> main = "exited"

(* A client that does not read, or has left, never holds up a writer, as   *)
(* long as the process lives.                                              *)
WritersNeverWait == \A w \in Writers : (appended[w] # 0) ~> (appended[w] = 0 \/ main = "exited")
=============================================================================
