------------------------------ MODULE MCCompiler ------------------------------
(* Compiler over a few thousand snapshots: three workloads on two hosts, up *)
(* to two rules of a catalogue with every form, both default actions, and   *)
(* selectors that cannot be read again.                                    *)
EXTENDS Compiler

CONSTANTS w1, w2, w3, g1, g2, here, there

Workloads == {w1, w2, w3}
Groups == {g1, g2}
Hosts == {here, there}
Addresses4 == 1..4
ManagedSubnet == 1..3
Numbers == {443}

Placement(x, y, z) == [w \in Workloads |-> CASE w = w1 -> x [] w = w2 -> y [] w = w3 -> z]

RuleOf(form, from, to, key, ports, action) ==
  [form |-> form, from |-> from, to |-> to, unread |-> {}, key |-> key,
   ports |-> ports, action |-> action]

Unreadable(rule, ends) == [rule EXCEPT !.unread = ends]

Unlabelled == Placement(NoGroup, NoGroup, NoGroup)
Plain(form, action) == RuleOf(form, {}, {}, Unlabelled, {}, action)

Catalogue ==
  {Plain("stack", "allow"), Plain("service", "deny"), Plain("linked", "allow"),
   RuleOf("selector", {w1, w2}, {}, Unlabelled, {}, "deny"),
   RuleOf("group", {}, {}, Placement(g1, g1, NoGroup), {}, "allow"),
   RuleOf("group", {}, {}, Placement(NoGroup, g1, NoGroup), {}, "deny"),
   RuleOf("directed", {w1, w3}, {w2}, Unlabelled, {<<443, "tcp">>}, "allow"),
   RuleOf("directed", {w1}, {w2, w3}, Unlabelled, {<<443, "">>}, "deny"),
   Unreadable(RuleOf("selector", {w1}, {}, Unlabelled, {}, "allow"), {"from"}),
   Unreadable(RuleOf("directed", {w1}, {w2}, Unlabelled, {}, "allow"), {"from"}),
   Unreadable(RuleOf("directed", {w1}, {w2}, Unlabelled, {}, "allow"), {"to"})}

Policies ==
  {<< >>} \cup {<<r>> : r \in Catalogue} \cup {<<r, q>> : r, q \in Catalogue}

Snapshots ==
  [local          : {here},
   ip             : {Placement(1, 2, 3), Placement(1, 2, 2)},
   host           : {Placement(here, here, here), Placement(there, here, here),
                     Placement(here, here, there), Placement(there, there, there)},
   stack          : {Placement(g1, g1, g2)},
   service        : {Placement(g1, g2, NoGroup), Placement(g1, g2, g2)},
   system         : {{}, {w3}, Workloads},
   serviceLinks   : {{<<g1, g2>>}},
   containerLinks : {{}, {<<w3, w1>>}},
   rules          : Policies,
   defaultAction  : Action]
=============================================================================
