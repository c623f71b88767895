------------------------------- MODULE MCAudit -------------------------------
(* AuditPlan over documents of two stacks, a service with a sidekick, another *)
(* service, and up to four workloads on two hosts, with what is refused.     *)
EXTENDS AuditPlan

CONSTANTS h1, h2, app, core, web, side, api, w1, w2, w3, w4, A, B, K, a, b, k, z, none

Texts == {A, B, K, a, b, k, z}
FoldCase == [t \in Texts |-> CASE t = A -> a [] t = B -> b [] t = K -> k [] OTHER -> t]
Ascii == [t \in Texts |-> CASE t = A -> 1 [] t = B -> 2 [] t = K -> 3 [] t = a -> 4
                            [] t = b -> 5 [] t = k -> 6 [] t = z -> 7]

Stacks == <<[id |-> app, system |-> FALSE], [id |-> core, system |-> TRUE]>>

Service(id, stack, labels, primary, links) ==
  [id |-> id, stack |-> stack, labels |-> labels, primary |-> primary, links |-> links]

Web == Service(web, app, {<<K, A>>}, none, <<api>>)
Side == Service(side, app, {}, web, << >>)
Api == Service(api, app, {}, none, << >>)

ServiceLists ==
  {<<Web, Side, Api>>,
   <<Service(api, app, {}, none, <<side>>), Web, Service(side, app, {}, web, <<web>>)>>,
   <<Web, Side, Service(api, app, {}, side, << >>)>>,             \* a chain of primaries
   <<Web, Api, Service(api, app, {<<k, b>>}, none, << >>)>>,      \* an identifier twice
   <<Web, Api, Api>>, <<Web, Side, Api, Api>>,                    \* an entry twice; too many
   <<Web, Side>>}                                                 \* an unknown link

Workload(id, host, stack, service, labels, links) ==
  [id |-> id, host |-> host, stack |-> stack, service |-> service, labels |-> labels,
   links |-> links]

W1(labels) == Workload(w1, h1, app, web, labels, << >>)
W2 == Workload(w2, h1, app, side, {<<k, b>>}, << >>)
W3(host, links) == Workload(w3, host, app, api, {<<k, B>>}, links)
W4 == Workload(w4, h1, core, none, {<<k, a>>}, <<w1>>)

WorkloadLists ==
  {<<W1({}), W2, W3(h2, << >>), W4>>, <<W1({<<k, a>>}), W3(h1, << >>)>>,
   <<W1({}), W3(h2, <<w1>>)>>, <<W1({}), Workload(w2, h1, app, none, {}, <<w1>>)>>,
   <<W1({<<k, b>>}), W2>>, <<W1({<<K, a>>, <<k, a>>})>>, <<W1({}), W3(h2, <<w1, w1>>)>>,
   <<W3(h2, << >>)>>, <<W1({}), Workload(none, h1, app, none, {}, << >>)>>,
   <<W1({}), W1({})>>}

Written1(key, op, values, spaces) ==
  <<[key |-> key, op |-> op, values |-> values, spaces |-> spaces]>>

Selectors ==
  {Written1(K, "exists", << >>, 0), Written1(k, "==", <<A>>, 2), Written1(K, "!=", <<a>>, 0),
   Written1(k, "in", <<B, a>>, 3), Written1(k, "notin", <<a, B>>, 2),
   Written1(k, "in", <<B, b>>, 2), Written1(k, "=", <<z>>, 0), Written1(k, "other", << >>, 0),
   Written1(k, "exists", << >>, 0) \o Written1(k, "!=", <<b>>, 0),
   Written1(k, "=", <<a>>, 0) \o Written1(K, "==", <<A>>, 0),
   Written1(k, "notin", <<a, b>>, 1) \o Written1(k, "in", <<b>>, 1), << >>}

Rule(within, selector, group, from, to, ports) ==
  [within |-> within, selector |-> selector, group |-> group, from |-> from, to |-> to,
   ports |-> ports, action |-> IF group = none THEN "allow" ELSE "deny"]

Rules ==
  {Rule(w, none, none, none, none, << >>) : w \in Within \cup {"other"}}
  \cup {Rule(none, e, none, none, none, << >>) : e \in Selectors}
  \cup {Rule(none, none, K, none, none, << >>), Rule("stack", none, k, none, none, << >>)}
  \cup {Rule(none, none, none, Written1(k, "=", <<a>>, 0), Written1(k, "=", <<b>>, 0), ports) :
          ports \in {<< >>, <<<<80, "">>, <<80, "tcp">>>>, <<<<0, "">>>>, <<<<80, "">>, <<80, "">>>>}}

Directed == Rule(none, none, none, Written1(k, "=", <<a>>, 0), Written1(k, "=", <<b>>, 0), <<<<80, "udp">>>>)

Documents ==
  [schema : {"v1"}, local : {h1}, stacks : {Stacks}, services : ServiceLists, workloads : WorkloadLists,
   default : {"deny"}, rules : {<<r>> : r \in Rules} \cup {<<Directed, r>> : r \in Rules} \cup {<< >>}]

(* A field is written with its own key, or with "Default" or "Policy".      *)
KeyFields ==
  [key \in TopField \cup PolicyField \cup {"Default", "Policy", "other"} |->
     CASE key = "Default" -> "default" [] key = "Policy" -> "policy" [] key = "other" -> "unknown"
       [] OTHER -> key]

Member(key, value) == [key |-> key, value |-> value]
Text1(value) == [size |-> 1, values |-> <<value>>]
Atom(field, value) == [kind |-> "atom", of |-> field, is |-> value, inside |-> {}]
List(field, value, keys) == [kind |-> "atom", of |-> field, is |-> value, inside |-> {keys}]
Object(members) == [kind |-> "object", members |-> members]
Broken == [kind |-> "broken"]

Top(d) ==
  <<Member("schema", Atom("schema", d.schema)), Member("local", Atom("local", d.local)),
    Member("stacks", List("stacks", d.stacks, <<"id", "system">>)), Member("services", List("services", d.services, <<"id", "links">>)),
    Member("workloads", List("workloads", d.workloads, <<"id", "host">>))>>

Rules1(d) == <<Member("rules", List("rules", d.rules, <<"action", "within">>))>>
Default(key, action) == <<Member(key, Atom("default", action))>>

Policy(d, members) == Text1(Object(Top(d) \o <<Member("policy", Object(members \o Rules1(d)))>>))
Submitted(d) == Policy(d, Default("default", d.default))

One == CHOOSE d \in Documents : d.rules = << >>

OddInputs ==
  {Policy(One, Default("default", "deny") \o Default("default", "allow")),
   Policy(One, Default("default", "deny") \o Default("Default", "allow")),
   Policy(One, Default("other", "deny")), Policy(One, << >>),
   Text1(Object(Top(One) \o Top(One))), Text1(Object(Top(One) \o Rules1(One))),
   Text1(Object(Top(One) \o <<Member("policy", Atom("rules", << >>))>>)),
   Text1(Object(Top(One) \o Rules1(One) \o Rules1(One)))}
  \cup {Text1(Object(Top(One) \o <<Member("policy", Object(Default("default", "deny"))),
                              Member("Policy", Object(r))>>)) :
      r \in {Rules1(One), Rules1(One) \o Default("default", "allow")}}

OtherInputs ==
  {Text1(Object(Tail(Top(One)) \o <<Member("schema", Atom("schema", "v2"))>>)),
   Submitted([One EXCEPT !.stacks = @ \o @]), Submitted([One EXCEPT !.stacks = << >>]),
   Text1(Object([Top(One) EXCEPT ![3].value.inside = {<<"id", "id">>}])),
   Text1(Broken), Text1(Atom("rules", << >>)),
   [size |-> 9, values |-> <<Object(<< >>)>>], [size |-> 1, values |-> << >>],
   [size |-> 1, values |-> <<Object(Top(One)), Broken>>]}

Inputs == {Submitted(d) : d \in Documents} \cup OddInputs \cup OtherInputs
=============================================================================
