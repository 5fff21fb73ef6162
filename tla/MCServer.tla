------------------------------ MODULE MCServer ------------------------------
(* A small instance of Server: every second message matches.               *)
EXTENDS Server

OddMessages == {m \in Messages : m % 2 = 1}
=============================================================================
