-------------------------- MODULE MCIncidentEngine --------------------------
(* Small instances of IncidentEngine.                                      *)
EXTENDS IncidentEngine

Shape(h, tag, iface, status) ==
    [host |-> h, tag |-> tag, iface |-> iface, status |-> status]

(* One host: both sources of evidence about the primary interface, one     *)
(* fallback, the selection of the fallback, and a fallback message that    *)
(* only counts for the primary.                                            *)
OneHostInputs ==
    UNION {{Shape(h, "gl-repeater", Primary, "offline"),
            Shape(h, "gl-repeater", Primary, "online"),
            Shape(h, "netifd", Primary, "is now up"),
            Shape(h, "netifd", "wwan", "is now down"),
            Shape(h, "netifd", "wwan", "is now up"),
            Shape(h, "gl-repeater", "wwan", "switch to STARLINK"),
            Shape(h, "netifd", "wwan", "has lost the connection")} : h \in Hosts}

(* Outages and recoveries only, for longer histories.                      *)
OutageInputs ==
    UNION {{Shape(h, "netifd", Primary, "has lost the connection"),
            Shape(h, "netifd", Primary, "is now up"),
            Shape(h, "netifd", "tethering", "is now down"),
            Shape(h, "netifd", "tethering", "is now up")} : h \in Hosts}

(* A recovery takes long enough for an outage to begin within it.          *)
SlowRecovery == {[down |-> 1, recovered |-> 2]}

TwoConfigs == {[down |-> 1, recovered |-> 1], [down |-> 2, recovered |-> 1]}
=============================================================================
