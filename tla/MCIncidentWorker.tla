-------------------------- MODULE MCIncidentWorker --------------------------
(* Small instances of IncidentWorker.                                      *)
EXTENDS IncidentWorker

Shape(tag, iface, status) ==
    [host |-> "gw", tag |-> tag, iface |-> iface, status |-> status]

Offline == Shape("netifd", Primary, "has lost the connection")

Online == Shape("netifd", Primary, "is now up")

PrimaryInputs == {Offline, Online}

OfflineInputs == {Offline}

(* Two outages that fall due together: jobs of several kinds in one queue. *)
OutageInputs == {Offline, Shape("netifd", "tethering", "is now down")}

NoInputs == {}

OneConfig == {[down |-> 1, recovered |-> 1]}

SlowConfig == {[down |-> 2, recovered |-> 1]}

TwoConfigs == OneConfig \cup SlowConfig
=============================================================================
