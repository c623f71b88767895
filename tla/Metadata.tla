------------------------------- MODULE Metadata -------------------------------
(***************************************************************************)
(* The metadata client (internal/enforcement/metadata.go): Snapshot reads  *)
(* the host, the networks and the stacks in three requests, between which  *)
(* the metadata may change, and buildSnapshot makes one topology of what   *)
(* they returned, or refuses it.                                           *)
(*                                                                         *)
(* A service is listed by any number of stacks, in views; a view reports   *)
(* containers, and several views may report the same one, each knowing     *)
(* only some of its fields.  The order in which reports are merged is left *)
(* open: it is that of the listings and of map iterations.                 *)
(*                                                                         *)
(* Identifiers, addresses and texts are values, Absent is the empty string. *)
(* A path is a number: the rank of "stack/name", lowered, among the others. *)
(***************************************************************************)
EXTENDS Naturals, FiniteSets, Sequences

CONSTANTS
  Host, Network, Stack, Service, Container, Address,
  Text,          \* keys and values of labels
  Fold,          \* strings.ToLower
  Rules,         \* lists of policy rules NormalizePolicy accepts
  Absent,
  MaxServices, MaxWorkloads,   \* limits of internal/policy/model.go
  World          \* the states of the metadata service

(* The fields of a report that two views must not contradict.              *)
Field == {"host", "network", "ip", "stack", "service"}

LabelMap ==
  {labels \in SUBSET (Text \X Text) : \A a, b \in labels : a[1] = b[1] => a = b}

ReportType ==
  [id     : Container \cup {Absent},
   known  : {k \in [Field -> Host \cup Network \cup Address \cup Stack \cup Service \cup {Absent}] :
               /\ k["host"] \in Host \cup {Absent} /\ k["network"] \in Network \cup {Absent}
               /\ k["ip"] \in Address \cup {Absent} /\ k["stack"] \in Stack \cup {Absent}
               /\ k["service"] \in Service \cup {Absent}},
   state  : {"running", "stopped", Absent},
   system : BOOLEAN,
   labels : LabelMap,
   links  : SUBSET Container]

ViewType ==
  [service : Service \cup {Absent},
   stack   : Stack,                    \* stack_uuid, or else the stack that lists it
   path    : Nat,
   primary : Nat \cup {Absent},        \* path of primary_service_name
   system  : BOOLEAN,
   labels  : LabelMap,
   links   : SUBSET (Nat \X (Nat \cup {Absent})),   \* paths of key and value
   reports : SUBSET ReportType]

NetworkType ==
  [id      : Network \cup {Absent},
   default : BOOLEAN,
   subnet  : SUBSET Address,                 \* {}: no IPv4 bridge subnet
   action  : {"allow", "deny", "other", Absent},
   rules   : Rules \cup {Absent}]            \* Absent: a rule is not accepted

WorldType ==
  [host     : Host \cup {Absent},
   networks : Seq(NetworkType),
   system   : SUBSET Stack,            \* the stacks listed as system stacks
   views    : SUBSET ViewType,
   repeats  : Nat]                     \* how often a view is listed once more

ASSUME FoldAssumption == Fold \in [Text -> Text]
ASSUME AbsentAssumption ==
  Absent \notin Host \cup Network \cup Address \cup Stack \cup Service \cup Container \cup Rules
              \cup Nat \cup {"running", "stopped", "allow", "deny", "other"}
              \cup ReportType \cup ViewType \cup NetworkType
ASSUME LimitAssumption == MaxServices \in Nat /\ MaxWorkloads \in Nat
ASSUME FiniteAssumption == IsFiniteSet(Service) /\ IsFiniteSet(Container)
ASSUME WorldAssumption == World \subseteq WorldType

VARIABLES
  world,
  phase,      \* the request to make, then the loop of buildSnapshot
  read,       \* the results of the three requests
  network,    \* the default network
  canonical,  \* serviceByID: the view each service is taken from
  pending,    \* reports to merge, then containers to consider
  merged,     \* the merged report of a service's container
  workloads,  \* workloadByID
  serviceLinks,
  containerLinks

links == <<serviceLinks, containerLinks>>
vars == <<world, phase, read, network, canonical, pending, merged, workloads, links>>

-----------------------------------------------------------------------------
(* Reading buildSnapshot's arguments.                                      *)
Eligible(networks) ==
  {i \in DOMAIN networks : networks[i].default /\ networks[i].subnet # {}}

(* parsePolicy: no action is "allow"; NormalizePolicy has the last word.   *)
DefaultAction(n) == IF n.action = Absent THEN "allow" ELSE n.action

PolicyAccepted(n) == DefaultAction(n) \in {"allow", "deny"} /\ n.rules # Absent

Variants(views, s) == {v \in views : v.service = s}

PathsAgree(views) == \A u, v \in views : u.path = v.path => u.service = v.service

StacksAgree(views) == \A u, v \in views : u.service = v.service => u.stack = v.stack

(* serviceCount counts listings, so that a view listed twice counts twice.  *)
Listable(views, repeats) ==
  /\ Cardinality(views) + repeats <= MaxServices
  /\ \A v \in views : v.service # Absent
  /\ PathsAgree(views)
  /\ StacksAgree(views)

(* The order of canonicalizeServiceVariants; equals stay as they are listed. *)
IsPrimary(v) == v.primary = v.path

Precedes(u, v) ==
  \/ IsPrimary(u) /\ ~IsPrimary(v)
  \/ IsPrimary(u) = IsPrimary(v) /\ u.path < v.path

First(variants) == {v \in variants : \A u \in variants : ~Precedes(u, v)}

AtPath(views, path) == {v.service : v \in {u \in views : u.path = path}}

(* servicePrimary, one level deep.                                         *)
PrimaryOf(views, canon, s) ==
  LET named == AtPath(views, canon[s].primary)
  IN IF canon[s].primary = Absent \/ IsPrimary(canon[s]) \/ named = {} THEN s
     ELSE CHOOSE t \in named : TRUE

(* resolveServiceLink for the key and, when that names nothing, the value. *)
Target(views, link) ==
  IF AtPath(views, link[1]) # {} THEN AtPath(views, link[1]) ELSE AtPath(views, link[2])

DeclaredLinks(views) ==
  UNION {UNION {{v.service} \X Target(views, link) : link \in v.links} : v \in views}

\* Mutant of ServiceLinks: links join services, not their primaries.
ServiceLinksOfServices(views, canon) == DeclaredLinks(views)

ServiceLinks(views, canon) ==
  {<<PrimaryOf(views, canon, p[1]), PrimaryOf(views, canon, p[2])>> : p \in DeclaredLinks(views)}

-----------------------------------------------------------------------------
(* mergeContainerViews.                                                    *)
Reports(views) ==
  UNION {{v.service} \X {r \in v.reports : r.id # Absent} : v \in views}

\* Mutants of Contradicts: fields are not compared; labels are not compared.
ContradictsInLabels(a, b) ==
  \E p \in a.labels, q \in b.labels : p[1] = q[1] /\ p[2] # q[2]

ContradictsInFields(a, b) ==
  \E f \in Field : Absent \notin {a.known[f], b.known[f]} /\ a.known[f] # b.known[f]

Contradicts(a, b) == ContradictsInFields(a, b) \/ ContradictsInLabels(a, b)

\* Mutant of Merge: the first view's fields are kept, the gaps with them.
MergeKeeping(a, b) ==
  [a EXCEPT !.system = @ \/ b.system, !.labels = @ \cup b.labels, !.links = @ \cup b.links]

Merge(a, b) ==
  [id     |-> a.id,
   known  |-> [f \in Field |-> IF a.known[f] = Absent THEN b.known[f] ELSE a.known[f]],
   state  |-> IF a.state = Absent \/ b.state = "running" THEN b.state ELSE a.state,
   system |-> a.system \/ b.system,
   labels |-> a.labels \cup b.labels,
   links  |-> a.links \cup b.links]

(* normalizeRuntimeLabels: of keys that differ in case the one that the map *)
(* iteration meets last wins.                                              *)
RuntimeLabels(labels) ==
  {n \in [{Fold[l[1]] : l \in labels} -> {Fold[l[2]] : l \in labels}] :
     \A k \in DOMAIN n : \E l \in labels : Fold[l[1]] = k /\ n[k] = Fold[l[2]]}

\* Mutant of Override: the service's label wins.
OverrideInherited(inherited, own) ==
  [k \in DOMAIN inherited \cup DOMAIN own |->
     IF k \in DOMAIN inherited THEN inherited[k] ELSE own[k]]

Override(inherited, own) ==
  [k \in DOMAIN inherited \cup DOMAIN own |->
     IF k \in DOMAIN own THEN own[k] ELSE inherited[k]]

\* Mutant of Runs: a container of another network is taken.
RunsAnywhere(r, n) ==
  r.state = "running" /\ r.known["host"] # Absent /\ r.known["ip"] \in n.subnet

Runs(r, n) ==
  /\ r.state = "running"
  /\ r.known["host"] # Absent
  /\ r.known["network"] = n.id
  /\ r.known["ip"] \in n.subnet

WorkloadOf(s, r, labels) ==
  [id      |-> r.id,
   ip      |-> r.known["ip"],
   host    |-> r.known["host"],
   stack   |-> canonical[s].stack,
   service |-> s,
   primary |-> PrimaryOf(read.views, canonical, s),
   system  |-> \/ canonical[s].stack \in read.system
               \/ \E v \in Variants(read.views, s) : v.system
               \/ r.system,
   labels  |-> labels]

-----------------------------------------------------------------------------
(* Snapshot, one request after the other; the poll loop calls it again.     *)
Unread ==
  [host |-> Absent, networks |-> << >>, system |-> {}, views |-> {}, repeats |-> 0]

Unmerged == [p \in Service \X Container |-> Absent]

Init ==
  /\ world \in World
  /\ phase = "host"
  /\ read = Unread
  /\ network = Absent
  /\ canonical = [s \in Service |-> Absent]
  /\ pending = {}
  /\ merged = Unmerged
  /\ workloads = {}
  /\ serviceLinks = {}
  /\ containerLinks = {}

building == <<network, canonical, pending, merged, workloads, links>>

Reading == phase \in {"host", "networks", "stacks"}

(* What the metadata service holds may change between two requests.         *)
MetadataChanges ==
  /\ Reading
  /\ world' \in World \ {world}
  /\ UNCHANGED <<phase, read, building>>

(* getJSON: no answer, another status, a body that is not one document.     *)
RequestFails ==
  /\ Reading
  /\ phase' = "failed"
  /\ UNCHANGED <<world, read, building>>

ReadHost ==
  /\ phase = "host"
  /\ phase' = IF world.host = Absent THEN "refused" ELSE "networks"
  /\ read' = [read EXCEPT !.host = world.host]
  /\ UNCHANGED <<world, building>>

ReadNetworks ==
  /\ phase = "networks"
  /\ phase' = "stacks"
  /\ read' = [read EXCEPT !.networks = world.networks]
  /\ UNCHANGED <<world, building>>

ReadStacks ==
  /\ phase = "stacks"
  /\ phase' = "build"
  /\ read' = [read EXCEPT !.system = world.system, !.views = world.views,
                          !.repeats = world.repeats]
  /\ UNCHANGED <<world, building>>

Refuse ==
  /\ phase' = "refused"
  /\ UNCHANGED <<world, read, building>>

Buildable ==
  /\ Cardinality(Eligible(read.networks)) = 1
  /\ \A i \in Eligible(read.networks) : PolicyAccepted(read.networks[i])
  /\ Listable(read.views, read.repeats)

RefuseTopology == phase = "build" /\ ~Buildable /\ Refuse

(* The default network, the canonical view of every service, its primaries  *)
(* and the links between them.                                              *)
BuildServices ==
  /\ phase = "build"
  /\ Buildable
  /\ phase' = "merge"
  /\ \E i \in Eligible(read.networks) : network' = read.networks[i]
  /\ canonical' \in {c \in [Service -> read.views \cup {Absent}] :
                       \A s \in Service :
                         IF Variants(read.views, s) = {} THEN c[s] = Absent
                         ELSE c[s] \in First(Variants(read.views, s))}
  /\ serviceLinks' = ServiceLinks(read.views, canonical')
  /\ pending' = Reports(read.views)
  /\ UNCHANGED <<world, read, merged, workloads, containerLinks>>

Contradicted(s, r) ==
  IF merged[<<s, r.id>>] = Absent THEN FALSE ELSE Contradicts(merged[<<s, r.id>>], r)

MergeReport(s, r) ==
  /\ phase = "merge"
  /\ <<s, r>> \in pending
  /\ ~Contradicted(s, r)
  /\ merged' = [merged EXCEPT ![<<s, r.id>>] = IF @ = Absent THEN r ELSE Merge(@, r)]
  /\ pending' = pending \ {<<s, r>>}
  /\ UNCHANGED <<world, phase, read, network, canonical, workloads, links>>

RefuseReport(s, r) ==
  /\ phase = "merge"
  /\ <<s, r>> \in pending
  /\ Contradicted(s, r)
  /\ Refuse

\* Mutant of EndMerge: containers no view reported are considered.
EndMergeOfAll ==
  /\ phase = "merge"
  /\ pending = {}
  /\ phase' = "collect"
  /\ pending' = Service \X Container
  /\ UNCHANGED <<world, read, network, canonical, merged, workloads, links>>

EndMerge ==
  /\ phase = "merge"
  /\ pending = {}
  /\ phase' = "collect"
  /\ pending' = {p \in Service \X Container : merged[p] # Absent}
  /\ UNCHANGED <<world, read, network, canonical, merged, workloads, links>>

SkipContainer(p) ==
  /\ phase = "collect"
  /\ p \in pending
  /\ ~Runs(merged[p], network)
  /\ pending' = pending \ {p}
  /\ UNCHANGED <<world, phase, read, network, canonical, merged, workloads, links>>

(* The workload of a container: labels of the service, then its own.        *)
Candidates(p) ==
  {WorkloadOf(p[1], merged[p], Override(inherited, own)) :
     inherited \in RuntimeLabels(canonical[p[1]].labels), own \in RuntimeLabels(merged[p].labels)}

\* Mutant of Collides: a container may be collected under two services.
CollidesByNumber(w) == w \notin workloads /\ Cardinality(workloads) >= MaxWorkloads

Collides(w) ==
  \/ \E v \in workloads : v.id = w.id /\ v # w
  \/ w \notin workloads /\ Cardinality(workloads) >= MaxWorkloads

CollectContainer(p) ==
  /\ phase = "collect"
  /\ p \in pending
  /\ Runs(merged[p], network)
  /\ \E w \in Candidates(p) :
       /\ ~Collides(w)
       /\ workloads' = workloads \cup {w}
  /\ containerLinks' = containerLinks \cup ({p[2]} \X merged[p].links)
  /\ pending' = pending \ {p}
  /\ UNCHANGED <<world, phase, read, network, canonical, merged, serviceLinks>>

RefuseContainer(p) ==
  /\ phase = "collect"
  /\ p \in pending
  /\ Runs(merged[p], network)
  /\ \E w \in Candidates(p) : Collides(w)
  /\ Refuse

ReturnSnapshot ==
  /\ phase = "collect"
  /\ pending = {}
  /\ phase' = "done"
  /\ UNCHANGED <<world, read, building>>

(* The next poll starts from nothing.                                       *)
NextPoll ==
  /\ phase \in {"done", "refused", "failed"}
  /\ phase' = "host"
  /\ read' = Unread
  /\ network' = Absent
  /\ canonical' = [s \in Service |-> Absent]
  /\ pending' = {}
  /\ merged' = Unmerged
  /\ workloads' = {}
  /\ serviceLinks' = {}
  /\ containerLinks' = {}
  /\ UNCHANGED world

MergeNext == \E q \in pending : MergeReport(q[1], q[2]) \/ RefuseReport(q[1], q[2])

CollectNext ==
  \E p \in pending : SkipContainer(p) \/ CollectContainer(p) \/ RefuseContainer(p)

Next ==
  \/ MetadataChanges \/ RequestFails
  \/ ReadHost \/ ReadNetworks \/ ReadStacks
  \/ RefuseTopology \/ BuildServices
  \/ MergeNext \/ EndMerge
  \/ CollectNext \/ ReturnSnapshot
  \/ NextPoll

Spec == Init /\ [][Next]_vars

-----------------------------------------------------------------------------
(* Properties.                                                             *)

WorkloadType ==
  [id : Container, ip : Address, host : Host, stack : Stack, service : Service,
   primary : Service, system : BOOLEAN,
   labels : UNION {[keys -> Text] : keys \in SUBSET Text}]

(* Every variable has its type, and each loop works on what the one before it *)
(* left.                                                                   *)
TypeOK ==
  /\ world \in World
  /\ phase \in {"host", "networks", "stacks", "build", "merge", "collect", "done",
                "refused", "failed"}
  /\ read.host \in Host \cup {Absent}
  /\ read.views \subseteq UNION {w.views : w \in World}
  /\ network \in NetworkType \cup {Absent}
  /\ canonical \in [Service -> ViewType \cup {Absent}]
  /\ \/ phase = "merge" /\ pending \subseteq Reports(read.views)
     \/ pending \subseteq {p \in Service \X Container : merged[p] # Absent}
     \/ phase = "refused"
  /\ merged \in [Service \X Container -> ReportType \cup {Absent}]
  /\ workloads \subseteq WorkloadType
  /\ serviceLinks \subseteq Service \X Service
  /\ containerLinks \subseteq Container \X Container

ReportsOf(s, c) ==
  {r \in UNION {v.reports : v \in Variants(read.views, s)} : r.id = c}

(* In whatever order the reports of a container are merged, none is lost and *)
(* none overwritten: the merged report says what each of them says, and     *)
(* nothing else (mergeContainerViews).                                     *)
MergedViewsAgree ==
  \A s \in Service, c \in Container :
    LET m == merged[<<s, c>>]
        mergedReports == IF phase = "merge" THEN {r \in ReportsOf(s, c) : <<s, r>> \notin pending}
                         ELSE ReportsOf(s, c)
    IN m # Absent =>
         /\ \A f \in Field : m.known[f] # Absent => \E r \in ReportsOf(s, c) : r.known[f] = m.known[f]
         /\ phase \in {"merge", "collect", "done"} => \A r \in mergedReports :
              /\ \A f \in Field : r.known[f] \in {Absent, m.known[f]}
              /\ r.labels \subseteq m.labels /\ r.links \subseteq m.links
              /\ r.state = "running" => m.state = "running"

(* What the reports of a container say of it, all together.                *)
Says(s, c, f, value) == \E r \in ReportsOf(s, c) : r.known[f] = value

Disagree(s, c) ==
  \E a, b \in ReportsOf(s, c) :
    \/ \E f \in Field : Absent \notin {a.known[f], b.known[f]} /\ a.known[f] # b.known[f]
    \/ \E k \in Text, x, y \in Text : x # y /\ <<k, x>> \in a.labels /\ <<k, y>> \in b.labels

(* A network without identifier is that of the containers no report gives a  *)
(* network.                                                                *)
Started(s, c) ==
  /\ \E r \in ReportsOf(s, c) : r.state = "running"
  /\ \E h \in Host : Says(s, c, "host", h)
  /\ Says(s, c, "network", network.id)
  /\ \A n \in Network : Says(s, c, "network", n) => n = network.id
  /\ \E a \in network.subnet : Says(s, c, "ip", a)

Listed == {p \in Service \X Container : Started(p[1], p[2])}

(* Snapshot refuses what is contradictory, and nothing but that: a topology *)
(* goes through exactly when every two reports of a container of a service  *)
(* agree, no running container belongs to two services, and there are not   *)
(* too many - whatever was merged or collected first.                       *)
RefusalIsDetermined ==
  phase \in {"done", "refused"} /\ network # Absent =>
    (phase = "refused" <=>
       \/ \E s \in Service, c \in Container : Disagree(s, c)
       \/ \E p, q \in Listed : p # q /\ p[2] = q[2]
       \/ Cardinality(Listed) > MaxWorkloads)

(* What the labels of a container can be: its own first, else those of a    *)
(* view its service can be taken from.  When both write a key, the value of *)
(* the container silently wins (metadata.go:254); README.md:79 says that    *)
(* such a conflict is rejected, which only the audit does (validate.go:126). *)
OwnLabels(s, c) == UNION {r.labels : r \in ReportsOf(s, c)}

MayHave(s, c, k, value) ==
  LET own == {l \in OwnLabels(s, c) : Fold[l[1]] = k}
      inherited == {l \in UNION {v.labels : v \in First(Variants(read.views, s))} :
                      Fold[l[1]] = k}
  IN \E l \in (IF own # {} THEN own ELSE inherited) : value = Fold[l[2]]

MustHave(s, c, k) ==
  \/ \E l \in OwnLabels(s, c) : Fold[l[1]] = k
  \/ \A v \in First(Variants(read.views, s)) : \E l \in v.labels : Fold[l[1]] = k

(* The snapshot is a function of what was read, whatever the orders of the  *)
(* listings and of the map iterations: there is a workload for each running *)
(* container of the network and for nothing else, with the one host and     *)
(* address its reports name, every label that has to be there, and no label *)
(* that was not written.  A value is left to an order only where several    *)
(* are written for one key: keys of one label map that differ in case       *)
(* (metadata.go:529), and views of one service that sort as equal           *)
(* (metadata.go:313); there it is still one of those.                      *)
SnapshotIsDetermined ==
  phase = "done" =>
    /\ {<<w.service, w.id>> : w \in workloads} = Listed
    /\ \A w \in workloads :
         /\ Says(w.service, w.id, "host", w.host)
         /\ Says(w.service, w.id, "ip", w.ip)
         /\ w.system <=> \/ w.stack \in read.system
                         \/ \E v \in read.views : v.service = w.service /\ v.system
                         \/ \E r \in ReportsOf(w.service, w.id) : r.system
         /\ \A k \in DOMAIN w.labels : MayHave(w.service, w.id, k, w.labels[k])
         /\ \A k \in Text : MustHave(w.service, w.id, k) => k \in DOMAIN w.labels

(* The host, the networks and the stacks may be read from three different   *)
(* states of the metadata service; still a policy is only ever enforced     *)
(* upon containers that are reported on its own network, by no view of      *)
(* their service on another, in its subnet (metadata.go:245-249).           *)
PolicyIsOfItsNetwork ==
  phase = "done" =>
    /\ \E i \in DOMAIN read.networks : read.networks[i] = network /\ network.default
    /\ \A w \in workloads :
         /\ \E r \in ReportsOf(w.service, w.id) : r.known["network"] = network.id
         /\ \A r \in ReportsOf(w.service, w.id) : r.known["network"] \in {Absent, network.id}
         /\ w.ip \in network.subnet

(* A snapshot is well formed: the host is known, identifiers are unique and  *)
(* addresses in the subnet, which is all that Compile asks of it before it  *)
(* comes to the rules (compiler.go:18-41).  The rules may still be refused, *)
(* for a selector that cannot be read again: module Compiler.              *)
SnapshotIsWellFormed ==
  phase = "done" =>
    /\ read.host # Absent
    /\ network.subnet # {}
    /\ \A v, w \in workloads : v.id = w.id => v = w
    /\ \A w \in workloads : w.ip \in network.subnet /\ w.id # Absent

(* A link that a view declares joins the workloads of the two services: its *)
(* ends are the primaries the workloads carry, so "within: linked" finds    *)
(* them (metadata.go:225-230, compiler.go:155-172).                         *)
LinksMeetWorkloads ==
  phase = "done" =>
    \A v \in read.views : \A link \in v.links : \A x, y \in workloads :
      /\ x.service = v.service
      /\ \E u \in read.views :
           /\ u.service = y.service
           /\ \/ u.path = link[1]
              \/ u.path = link[2] /\ \A t \in read.views : t.path # link[1]
      => <<x.primary, y.primary>> \in serviceLinks
=============================================================================
