---------------------------- MODULE MCQueryIndex ----------------------------
(* A small instance of QueryIndex: two times, two hosts, and queries that  *)
(* use each of the filters, a second page, and a page of two.              *)
EXTENDS QueryIndex

Always == 9

Ask(limit, offset, since, until, hosts, text) ==
    [limit |-> limit, offset |-> offset, since |-> since, until |-> until,
     hosts |-> hosts, text |-> text]

SomeQueries ==
    {Ask(2, 0, 0, Always, {}, FALSE),
     Ask(1, 1, 0, Always, {"h1"}, FALSE),
     Ask(1, 1, 0, 2, {}, TRUE),
     Ask(2, 0, 2, Always, {"h1"}, TRUE)}

SomeShapes ==
    {[at |-> 1, host |-> "h1", match |-> TRUE],
     [at |-> 2, host |-> "h1", match |-> TRUE],
     [at |-> 2, host |-> "h2", match |-> FALSE],
     [at |-> 3, host |-> "h1", match |-> FALSE]}
=============================================================================
