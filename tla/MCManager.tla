------------------------------ MODULE MCManager ------------------------------
(* Manager on a small instance: one agent, at most one operator, two        *)
(* policies.  The model values and bounds are given by the .cfg files.      *)
EXTENDS Manager, TLC

CONSTANTS agent, operator, p1, p2

OneAgent == {agent}
AgentAndOperator == {agent, operator}

Policies == {p1, p2}

\* Safety runs only: the two policies are interchangeable.
PolicySymmetry == Permutations(Policies)
=============================================================================
