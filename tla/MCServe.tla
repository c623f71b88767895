------------------------------- MODULE MCServe -------------------------------
(* Serve on a small instance: two agents on one host, one policy or two.    *)
EXTENDS Serve

CONSTANTS a1, a2, p1, p2

TwoAgents == {a1, a2}
Goroutines == TwoAgents \X {"loop", "main"}
FirstAgent == {a1}
OnePolicy == {p1}
TwoPolicies == {p1, p2}
=============================================================================
