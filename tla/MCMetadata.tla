------------------------------ MODULE MCMetadata ------------------------------
(* Metadata over topologies of two services and a sidekick: one container    *)
(* each, reported by up to three views that know parts of it or contradict   *)
(* each other, on networks that are replaced or badly configured.            *)
EXTENDS Metadata

CONSTANTS h1, n1, n2, app, core, web, side, api, c1, c2, c3, a1, a2, a9, rules1, none,
          K, k, X, x, y

FoldCase == [t \in {K, k, X, x, y} |-> CASE t = K -> k [] t = X -> x [] OTHER -> t]

NetworkOf(id, default, subnet, action, rules) ==
  [id |-> id, default |-> default, subnet |-> subnet, action |-> action, rules |-> rules]

Subnet == {a1, a2}
First1 == NetworkOf(n1, TRUE, Subnet, "deny", rules1)
Second == NetworkOf(n2, TRUE, Subnet, none, rules1)

NetworkLists ==
  {<<Second>>, <<First1, Second>>,
   <<NetworkOf(n2, FALSE, Subnet, "allow", rules1)>>,
   <<NetworkOf(n1, TRUE, {}, "deny", rules1)>>,
   <<NetworkOf(n1, TRUE, Subnet, "other", rules1)>>,
   <<NetworkOf(n1, TRUE, Subnet, "deny", none)>>}

Report(id, host, net, ip, state, labels) ==
  [id |-> id,
   known |-> [f \in Field |-> CASE f = "host" -> host [] f = "network" -> net
                                [] f = "ip" -> ip [] OTHER -> none],
   state |-> state, system |-> state = "stopped", labels |-> labels, links |-> {c2}]

Full(id, ip, labels) == Report(id, h1, n1, ip, "running", labels)

View(service, stack, path, primary, labels, lks, reports) ==
  [service |-> service, stack |-> stack, path |-> path, primary |-> primary,
   system |-> stack = core, labels |-> labels, links |-> lks, reports |-> reports]

(* web is at path 1, its sidekick at 2 or 4, api at 3.                      *)
Web(labels, reports) == View(web, app, 1, 1, labels, {<<3, none>>}, reports)
Shared(labels, reports) == View(web, app, 2, 1, labels, {}, reports)
Side(reports) == View(side, app, 4, 1, {}, {}, reports)
Api(reports) == View(api, core, 3, none, {<<k, y>>}, {<<9, 4>>}, reports)

(* Reports of c1: of all of it, of parts of it, and contradictory ones.     *)
Parts == {Report(c1, h1, none, a1, none, {<<k, x>>}), Report(c1, none, n1, none, "running", {})}

ReportSets ==
  {{}, {Full(c1, a1, {})}, Parts,
   Parts \cup {Report(c1, none, n1, a2, none, {})},
   Parts \cup {Report(c1, none, none, none, none, {<<k, y>>})},
   {Full(c1, a9, {})}, {Full(none, a1, {})}, {Full(c1, a1, {<<K, y>>})},
   {Report(c1, h1, n1, a1, "stopped", {})}, {Full(c1, a1, {<<K, x>>, <<k, y>>})}}

LabelSets == {{}, {<<k, X>>}, {<<K, x>>, <<k, y>>}}

ViewSets ==
  {{Web(l, r), Api({Full(c2, a2, {})})} : l \in LabelSets, r \in ReportSets}
  \cup {{Web({}, r), Shared({<<k, y>>}, {Full(c1, a1, {<<k, x>>}), Full(c2, a2, {})})} :
          r \in ReportSets}

(* Sidekicks, three workloads, one container twice, and what is refused.    *)
Alone == {Web({}, {Full(c1, a1, {})})}
OtherViewSets ==
  {Alone \cup {Side({Full(c2, a1, {})}), Api({Full(c3, a2, {})})},
   Alone \cup {Side({Full(c1, a1, {})})},
   {Web({}, {}), Side({Full(c2, a1, {})}), Api({Full(c3, a2, {})})},
   Alone \cup {View(web, app, 1, 1, {<<k, x>>}, {}, {Full(c1, a1, {})})},
   Alone \cup {View(web, core, 2, 1, {}, {}, {})},
   Alone \cup {View(side, app, 1, 1, {}, {}, {})},
   Alone \cup {View(none, app, 2, 1, {}, {}, {})},
   Alone \cup {Shared({}, {}), Side({}), Api({})}}

WorldOf(host, networks, views) ==
  [host |-> host, networks |-> networks, system |-> {core}, views |-> views,
   repeats |-> 0]

(* A network without identifier, containers with and without a network, and *)
(* a view listed once or twice more.                                       *)
Nameless == NetworkOf(none, TRUE, Subnet, "deny", rules1)
Networkless == Report(c1, h1, none, a1, "running", {<<k, x>>})

NamelessWorlds ==
  {WorldOf(h1, <<Nameless>>, {Web({}, r)}) : r \in {{Networkless}, Parts, {Full(c1, a1, {})}}}

RepeatedWorlds ==
  {[WorldOf(h1, <<First1>>, v) EXCEPT !.repeats = n] :
     v \in {Alone, Alone \cup {Shared({}, {})}}, n \in 1..2}

Worlds ==
  {WorldOf(h1, <<First1>>, v) : v \in ViewSets \cup OtherViewSets}
  \cup {WorldOf(h, n, Alone) : h \in {h1, none}, n \in NetworkLists}
  \cup NamelessWorlds \cup RepeatedWorlds
=============================================================================
