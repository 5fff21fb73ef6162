------------------------------- MODULE Outbox -------------------------------
(***************************************************************************)
(* What the incident worker promises of its notification jobs, whatever    *)
(* happens to messages, files, saves and processes: a job is sent and sent *)
(* again only as long as it is open; it is closed as sent only after the   *)
(* service has accepted it, and closed as failed only after the service    *)
(* has refused it for good or its incident is gone; and a closed job stays *)
(* closed.  Only where files may be replaced, a rebuild forgets the jobs   *)
(* of incidents that are no longer derived.                                *)
(***************************************************************************)
EXTENDS Naturals

CONSTANT Forgets \* files may be replaced

VARIABLES
    accepted, \* job -> how often the service accepted it
    refused,  \* jobs given up, by the service or for want of an incident
    sent,     \* jobs that are closed because they were sent
    failed    \* jobs that are closed because they were given up

vars == <<accepted, refused, sent, failed>>

-----------------------------------------------------------------------------
Open(j) == j \notin sent \cup failed

Once(j) ==
    [x \in DOMAIN accepted \cup {j} |->
        (IF x \in DOMAIN accepted THEN accepted[x] ELSE 0) + (IF x = j THEN 1 ELSE 0)]

Init ==
    /\ accepted = [x \in {} |-> 0]
    /\ refused = {}
    /\ sent = {}
    /\ failed = {}

Accept(j) ==
    /\ Open(j)
    /\ accepted' = Once(j)
    /\ UNCHANGED <<refused, sent, failed>>

Refuse(j) ==
    /\ Open(j)
    /\ refused' = refused \cup {j}
    /\ UNCHANGED <<accepted, sent, failed>>

(* The answers are recorded, or come back from disk.                       *)
Close ==
    /\ sent \subseteq sent' /\ sent' \subseteq DOMAIN accepted
    /\ failed \subseteq failed' /\ failed' \subseteq refused
    /\ UNCHANGED <<accepted, refused>>

Forget ==
    /\ Forgets
    /\ sent' \subseteq sent
    /\ failed' \subseteq failed
    /\ UNCHANGED <<accepted, refused>>

Next ==
    \/ \E j \in DOMAIN accepted' : Accept(j)
    \/ \E j \in refused' : Refuse(j)
    \/ Close
    \/ Forget

Spec == Init /\ [][Next]_vars
=============================================================================
