----------------------------- MODULE MCLiveView -----------------------------
(* Small instances of LiveView: two hosts, and a filter that becomes valid *)
(* when it is typed to its end.                                            *)
EXTENDS LiveView

Unfinished == "/(/"

Finished == "/(a)/"

SomeFilters == {"", Unfinished, Finished}

ValidFilters == {"", Finished}

SomeShapes ==
    {[host |-> "h1", match |-> {"", Finished}], [host |-> "h2", match |-> {""}]}

OneShape == {[host |-> "h1", match |-> {""}]}

NoShapes == {}
=============================================================================
