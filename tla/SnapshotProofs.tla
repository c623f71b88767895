---------------------------- MODULE SnapshotProofs ----------------------------
(***************************************************************************)
(* The snapshot is determined by what was read: whatever is merged or       *)
(* collected first, the same topologies are refused, and the same workloads *)
(* are returned, with links between the services they carry.               *)
(***************************************************************************)
EXTENDS MetadataProofs, FiniteSetTheorems

(* What a merged report says, some report says; what the reports that are   *)
(* merged say of "system", it says.                                        *)
OriginInv ==
  \A s \in Service, c \in Container :
    merged[<<s, c>>] # Absent =>
      /\ merged[<<s, c>>].state = "running" => \E r \in ReportsOf(s, c) : r.state = "running"
      /\ merged[<<s, c>>].system => \E r \in ReportsOf(s, c) : r.system
      /\ \A l \in merged[<<s, c>>].labels : \E r \in ReportsOf(s, c) : l \in r.labels
      /\ phase \in {"merge", "collect", "done"} =>
           \A r \in Done(s, c) : r.system => merged[<<s, c>>].system

(* The containers that are to be collected.                                *)
Running == {p \in Service \X Container : merged[p] # Absent /\ Runs(merged[p], network)}

Collected == {<<w.service, w.id>> : w \in workloads}

(* The workload of a container, up to the order of its labels.             *)
CollectedRight(w) ==
  /\ <<w.service, w.id>> \in Running \ pending
  /\ \E inherited \in RuntimeLabels(canonical[w.service].labels),
        own \in RuntimeLabels(merged[<<w.service, w.id>>].labels) :
       w = WorkloadOf(w.service, merged[<<w.service, w.id>>], Override(inherited, own))

CollectInv ==
  /\ IsFiniteSet(workloads) /\ Cardinality(workloads) <= MaxWorkloads
  /\ phase \in {"collect", "done"} =>
       /\ Running \subseteq pending \cup Collected
       /\ \A w \in workloads : CollectedRight(w)
  /\ phase = "done" => pending = {}

(* Why a topology whose network was found is refused.                      *)
Cause ==
  \/ \E s \in Service, c \in Container : Disagree(s, c)
  \/ \E p, q \in Listed : p # q /\ p[2] = q[2]
  \/ Cardinality(Listed) > MaxWorkloads

RefusedInv ==
  /\ phase \in {"host", "networks", "stacks", "build"} => network = Absent
  /\ phase = "refused" /\ network # Absent => Cause

LinkInv ==
  /\ phase \in {"merge", "collect", "done"} =>
       serviceLinks = ServiceLinks(read.views, canonical)
  /\ \A w \in workloads : w.primary = PrimaryOf(read.views, canonical, w.service)

SInv == OriginInv /\ CollectInv /\ RefusedInv /\ LinkInv

-----------------------------------------------------------------------------
LEMMA NetworkTyped ==
  ASSUME IInv, phase \in {"merge", "collect", "done"}
  PROVE  /\ network \in NetworkType /\ network # Absent
         /\ network.id \in Network \cup {Absent} /\ network.subnet \subseteq Address
<1>1. PICK i \in DOMAIN read.networks : read.networks[i] = network
  BY DEF IInv, NetworkInv
<1>2. read.networks \in Seq(NetworkType)
  BY DEF IInv, ReadInv
<1>3. network \in NetworkType
  BY <1>1, <1>2, SMT
<1>4. network.id \in Network \cup {Absent} /\ network.subnet \in SUBSET Address
  BY <1>3 DEF NetworkType
<1>. QED BY <1>3, <1>4, AbsentAssumption

LEMMA ReportsTyped ==
  ASSUME IInv, NEW s, NEW c, NEW r \in ReportsOf(s, c)
  PROVE  r \in ReportType
<1>1. PICK v \in read.views : r \in v.reports
  BY DEF ReportsOf, Variants
<1>2. v \in ViewType
  BY DEF IInv, ReadInv
<1>. QED BY <1>1, <1>2 DEF ViewType

(* What is read and chosen decides what is listed, and why it is refused.   *)
LEMMA SameCause ==
  ASSUME read' = read, network' = network
  PROVE  /\ \A s, c : ReportsOf(s, c)' = ReportsOf(s, c)
         /\ Listed' = Listed
         /\ Cause' = Cause
<1>1. \A s, c : ReportsOf(s, c)' = ReportsOf(s, c)
  BY DEF ReportsOf, Variants
<1>2. \A s, c : Started(s, c)' <=> Started(s, c)
  BY <1>1 DEF Started, Says
<1>3. Listed' = Listed
  BY <1>2 DEF Listed
<1>4. \A s, c : Disagree(s, c)' <=> Disagree(s, c)
  BY <1>1 DEF Disagree
<1>5. Cause' = Cause
  BY <1>3, <1>4 DEF Cause
<1>. QED BY <1>1, <1>3, <1>5

(* When all reports are merged, the containers that run are the ones the    *)
(* reports say run.                                                        *)
LEMMA ListedIsRunning ==
  ASSUME IInv, OriginInv, phase \in {"collect", "done"}
  PROVE  Listed = Running
<1>1. /\ network.id \in Network \cup {Absent} /\ network.subnet \subseteq Address
      /\ Absent \notin network.subnet /\ Absent # "running"
  BY NetworkTyped, AbsentAssumption
<1>2. ASSUME NEW s \in Service, NEW c \in Container, Started(s, c)
      PROVE  merged[<<s, c>>] # Absent /\ Runs(merged[<<s, c>>], network)
  <2>1. ASSUME NEW r \in ReportsOf(s, c)
        PROVE  merged[<<s, c>>] # Absent /\ Covers(merged[<<s, c>>], r)
    <3>1. r \in Done(s, c)
      BY DEF Done
    <3>. QED BY <3>1 DEF IInv, ReportsInv
  <2>2. merged[<<s, c>>] # Absent /\ merged[<<s, c>>].state = "running"
    BY <1>2, <2>1 DEF Started, Covers
  <2>3. ASSUME NEW f \in Field, NEW value, value # Absent, Says(s, c, f, value)
        PROVE  merged[<<s, c>>].known[f] = value
    BY <2>1, <2>3 DEF Says, Covers
  <2>4. "host" \in Field /\ "network" \in Field /\ "ip" \in Field
    BY DEF Field
  <2>5. PICK h \in Host : Says(s, c, "host", h)
    BY <1>2 DEF Started
  <2>6. PICK a \in network.subnet : Says(s, c, "ip", a)
    BY <1>2 DEF Started
  <2>7. h # Absent /\ a # Absent
    BY <1>1, AbsentAssumption
  <2>8. merged[<<s, c>>].known["host"] = h
    BY <2>3, <2>4, <2>5, <2>7
  <2>9. merged[<<s, c>>].known["ip"] = a
    BY <2>3, <2>4, <2>6, <2>7
  <2>10. merged[<<s, c>>].known["network"] = network.id
    <3>1. merged[<<s, c>>] \in ReportType
      BY <2>2 DEF IInv, MergedInv
    <3>2. merged[<<s, c>>].known["network"] \in Network \cup {Absent}
      BY <3>1 DEF ReportType
    <3>3. Says(s, c, "network", merged[<<s, c>>].known["network"])
      BY <2>2, <2>4 DEF IInv, MergedInv, Says
    <3>4. Says(s, c, "network", network.id)
          /\ \A n \in Network : Says(s, c, "network", n) => n = network.id
      BY <1>2 DEF Started
    <3>5. CASE merged[<<s, c>>].known["network"] = Absent
      BY <2>3, <2>4, <3>4, <3>5
    <3>. QED BY <3>2, <3>3, <3>4, <3>5
  <2>. QED BY <2>2, <2>7, <2>8, <2>9, <2>10 DEF Runs
<1>3. ASSUME NEW s \in Service, NEW c \in Container,
             merged[<<s, c>>] # Absent, Runs(merged[<<s, c>>], network)
      PROVE  Started(s, c)
  <2>1. merged[<<s, c>>] \in ReportType
    BY <1>3 DEF IInv, MergedInv
  <2>2. ASSUME NEW f \in Field
        PROVE  Says(s, c, f, merged[<<s, c>>].known[f])
    BY <1>3 DEF IInv, MergedInv, Says
  <2>3. merged[<<s, c>>].known["host"] \in Host
    BY <1>3, <2>1 DEF ReportType, Runs
  <2>4. "host" \in Field /\ "network" \in Field /\ "ip" \in Field
    BY DEF Field
  <2>5. \E r \in ReportsOf(s, c) : r.state = "running"
    BY <1>3 DEF OriginInv, Runs
  <2>6. Says(s, c, "host", merged[<<s, c>>].known["host"])
    BY <1>3, <2>2, <2>4 DEF Runs
  <2>7. Says(s, c, "network", network.id)
    BY <1>1, <1>3, <2>2, <2>4 DEF Runs
  <2>8. Says(s, c, "ip", merged[<<s, c>>].known["ip"]) /\ merged[<<s, c>>].known["ip"] \in network.subnet
    BY <1>1, <1>3, <2>2, <2>4 DEF Runs
  <2>9. ASSUME NEW n \in Network, Says(s, c, "network", n)
        PROVE  n = network.id
    <3>1. PICK r \in ReportsOf(s, c) : r.known["network"] = n
      BY <2>9 DEF Says
    <3>2. Covers(merged[<<s, c>>], r)
      BY <1>3, <3>1 DEF IInv, ReportsInv, Done
    <3>3. n # Absent
      BY AbsentAssumption
    <3>. QED BY <1>3, <2>4, <3>1, <3>2, <3>3 DEF Covers, Runs
  <2>. QED BY <2>3, <2>5, <2>6, <2>7, <2>8, <2>9 DEF Started
<1>4. ASSUME NEW p \in Service \X Container
      PROVE  p \in Listed <=> p \in Running
  <2>1. p = <<p[1], p[2]>> /\ p[1] \in Service /\ p[2] \in Container
    OBVIOUS
  <2>2. p \in Listed <=> Started(p[1], p[2])
    BY DEF Listed
  <2>3. p \in Running <=> merged[<<p[1], p[2]>>] # Absent /\ Runs(merged[<<p[1], p[2]>>], network)
    BY <2>1 DEF Running
  <2>. QED BY <2>1, <2>2, <2>3, <1>2, <1>3
<1>5. Listed \subseteq Service \X Container /\ Running \subseteq Service \X Container
  BY DEF Listed, Running
<1>. QED BY <1>4, <1>5

(* A report that is refused disagrees with one that was merged.            *)
LEMMA RefusedReportIsCause ==
  ASSUME IInv, OriginInv, NEW q \in pending, RefuseReport(q[1], q[2])
  PROVE  Cause
<1>. DEFINE s == q[1]
            r == q[2]
            m == merged[<<s, r.id>>]
<1>1. phase = "merge" /\ m # Absent /\ Contradicts(m, r)
  BY DEF RefuseReport, Contradicted
<1>2. s \in Service /\ r \in ReportType /\ r.id \in Container /\ r \in ReportsOf(s, r.id)
  BY <1>1, ReportOfPending DEF IInv
<1>3. m \in ReportType
  BY <1>1, <1>2 DEF IInv, MergedInv
<1>4. Disagree(s, r.id)
  <2>1. CASE ContradictsInFields(m, r)
    <3>1. PICK f \in Field : m.known[f] # Absent /\ r.known[f] # Absent /\ m.known[f] # r.known[f]
      BY <2>1 DEF ContradictsInFields
    <3>2. PICK a \in ReportsOf(s, r.id) : a.known[f] = m.known[f]
      BY <1>1, <1>2, <3>1 DEF IInv, MergedInv
    <3>. QED BY <1>2, <3>1, <3>2 DEF Disagree
  <2>2. CASE ContradictsInLabels(m, r)
    <3>1. PICK a \in m.labels, b \in r.labels : a[1] = b[1] /\ a[2] # b[2]
      BY <2>2 DEF ContradictsInLabels
    <3>2. PICK o \in ReportsOf(s, r.id) : a \in o.labels
      BY <1>1, <1>2, <3>1 DEF OriginInv
    <3>3. a \in Text \X Text /\ b \in Text \X Text
      BY <1>2, <1>3, <3>1 DEF ReportType, LabelMap
    <3>4. a = <<a[1], a[2]>> /\ b = <<a[1], b[2]>> /\ a[1] \in Text /\ a[2] \in Text /\ b[2] \in Text
      BY <3>1, <3>3
    <3>5. <<a[1], a[2]>> \in o.labels /\ <<a[1], b[2]>> \in r.labels
      BY <3>1, <3>2, <3>4
    <3>6. \E k \in Text, x, y \in Text : x # y /\ <<k, x>> \in o.labels /\ <<k, y>> \in r.labels
      BY <3>1, <3>4, <3>5
    <3>. QED BY <1>2, <3>6 DEF Disagree
  <2>. QED BY <1>1, <2>1, <2>2 DEF Contradicts
<1>. QED BY <1>2, <1>4 DEF Cause

(* A workload that collides with those collected has a cause in what is     *)
(* listed: another service's container, or one too many.                   *)
LEMMA PairsAreMany ==
  ASSUME IInv, CollectInv, phase = "collect"
  PROVE  /\ Collected \subseteq Running
         /\ IsFiniteSet(Collected) /\ Cardinality(Collected) = Cardinality(workloads)
<1>. DEFINE f == [w \in workloads |-> <<w.service, w.id>>]
<1>1. Collected \subseteq Running
  BY DEF CollectInv, Collected, CollectedRight
<1>2. f \in Injection(workloads, Collected)
  <2>1. f \in [workloads -> Collected]
    BY DEF Collected
  <2>2. ASSUME NEW v \in workloads, NEW w \in workloads, f[v] = f[w] PROVE v = w
    <3>1. v.id = w.id
      BY <2>2
    <3>. QED BY <3>1 DEF IInv, WorkloadsInv
  <2>. QED BY <2>1, <2>2 DEF Injection, IsInjective
<1>3. f \in Surjection(workloads, Collected)
  BY DEF Collected, Surjection
<1>. HIDE DEF f
<1>4. IsFiniteSet(workloads)
  BY DEF CollectInv
<1>5. /\ IsFiniteSet(Collected)
      /\ Cardinality(Collected) = Cardinality(workloads) <=> f \in Injection(workloads, Collected)
  BY <1>3, <1>4, FS_Surjection
<1>. QED BY <1>1, <1>2, <1>5

LEMMA RefusedContainerIsCause ==
  ASSUME IInv, OriginInv, CollectInv, NEW p \in pending, RefuseContainer(p)
  PROVE  Cause
<1>1. phase = "collect" /\ merged[p] # Absent /\ Runs(merged[p], network)
  BY DEF RefuseContainer, IInv, PendingInv
<1>2. p \in Service \X Container /\ p = <<p[1], p[2]>> /\ p \in Running
  BY <1>1 DEF IInv, PendingInv, Running
<1>3. Listed = Running
  BY <1>1, ListedIsRunning
<1>4. PICK w \in Candidates(p) : Collides(w)
  BY DEF RefuseContainer
<1>5. w.id = p[2] /\ w.service = p[1]
  <2>1. merged[p].id = p[2]
    BY <1>1, <1>2 DEF IInv, MergedInv
  <2>. QED BY <2>1 DEF Candidates, WorkloadOf
<1>6. \A v \in workloads : <<v.service, v.id>> \in Running \ pending
  BY <1>1 DEF CollectInv, CollectedRight
<1>7. CASE \E v \in workloads : v.id = w.id /\ v # w
  <2>1. PICK v \in workloads : v.id = w.id
    BY <1>7
  <2>2. <<v.service, v.id>> # p /\ <<v.service, v.id>> \in Listed /\ p \in Listed
    BY <1>2, <1>3, <1>6
  <2>3. <<v.service, v.id>>[2] = p[2]
    BY <1>5, <2>1
  <2>. QED BY <2>2, <2>3 DEF Cause
<1>8. CASE Cardinality(workloads) >= MaxWorkloads
  <2>1. /\ Collected \subseteq Running
        /\ IsFiniteSet(Collected) /\ Cardinality(Collected) = Cardinality(workloads)
    BY <1>1, PairsAreMany
  <2>2. p \notin Collected
    BY <1>6 DEF Collected
  <2>3. /\ Cardinality(Collected \cup {p}) = Cardinality(workloads) + 1
        /\ IsFiniteSet(Collected \cup {p}) /\ Cardinality(workloads) \in Nat
    BY <2>1, <2>2, FS_AddElement, FS_CardinalityType
  <2>4. IsFiniteSet(Service \X Container)
    BY FiniteAssumption, FS_Product
  <2>5. Running \in SUBSET (Service \X Container)
    BY DEF Running
  <2>6. IsFiniteSet(Running) /\ Cardinality(Running) \in Nat
    BY <2>4, <2>5, FS_Subset, FS_CardinalityType
  <2>7. Collected \cup {p} \in SUBSET Running
    BY <1>2, <2>1
  <2>8. Cardinality(Collected \cup {p}) <= Cardinality(Running)
    BY <2>6, <2>7, FS_Subset
  <2>9. Cardinality(Listed) > MaxWorkloads
    BY <1>3, <1>8, <2>3, <2>6, <2>8, LimitAssumption
  <2>. QED BY <2>9 DEF Cause
<1>. QED BY <1>4, <1>7, <1>8 DEF Collides

-----------------------------------------------------------------------------
LEMMA InitSnapshot == Init => SInv
<1>. SUFFICES ASSUME Init PROVE SInv
  OBVIOUS
<1>1. OriginInv
  BY DEF Init, OriginInv, Unmerged
<1>2. CollectInv
  BY FS_EmptySet, LimitAssumption DEF Init, CollectInv
<1>3. RefusedInv /\ LinkInv
  BY DEF Init, RefusedInv, LinkInv
<1>. QED BY <1>1, <1>2, <1>3 DEF SInv

LEMMA SnapshotIdleStep ==
  ASSUME SInv, UNCHANGED <<read, building>>,
         \/ phase' = phase
         \/ phase' = "failed"
         \/ phase' = "refused" /\ (network = Absent \/ Cause)
  PROVE  SInv'
<1>1. /\ \A s, c : ReportsOf(s, c)' = ReportsOf(s, c)
      /\ Listed' = Listed /\ Cause' = Cause
  BY SameCause DEF building
<1>2. OriginInv'
  <2>1. phase' = phase => \A s, c : Done(s, c)' = Done(s, c)
    BY <1>1 DEF Done, building
  <2>2. phase' = phase \/ phase' \notin {"merge", "collect", "done"}
    OBVIOUS
  <2>. QED BY <1>1, <2>1, <2>2 DEF SInv, OriginInv, building
<1>3. CollectInv'
  <2>1. Running' = Running /\ Collected' = Collected
    BY DEF Running, Collected, building
  <2>2. \A s, r, l : WorkloadOf(s, r, l)' = WorkloadOf(s, r, l)
    BY DEF WorkloadOf, Variants, building
  <2>3. \A w : CollectedRight(w)' <=> CollectedRight(w)
    BY <2>1, <2>2 DEF CollectedRight, building
  <2>. QED BY <2>1, <2>3 DEF SInv, CollectInv, building
<1>4. RefusedInv'
  BY <1>1 DEF SInv, RefusedInv, building
<1>5. LinkInv'
  BY DEF SInv, LinkInv, building, links
<1>. QED BY <1>2, <1>3, <1>4, <1>5 DEF SInv

(* Before reports are merged there is nothing to say of them.              *)
LEMMA EarlyStep ==
  ASSUME IInv', phase' \in {"host", "networks", "stacks", "build", "merge"},
         merged' = Unmerged, workloads' = {},
         phase' # "merge" => network' = Absent,
         phase' = "merge" => serviceLinks' = ServiceLinks(read.views, canonical)'
  PROVE  SInv'
<1>1. OriginInv'
  BY DEF OriginInv, Unmerged
<1>2. CollectInv'
  BY FS_EmptySet, LimitAssumption DEF CollectInv
<1>3. RefusedInv' /\ LinkInv'
  BY DEF RefusedInv, LinkInv
<1>. QED BY <1>1, <1>2, <1>3 DEF SInv

LEMMA MergeKeepsSnapshot ==
  ASSUME IInv, SInv, NEW q \in pending, MergeReport(q[1], q[2])
  PROVE  SInv'
<1>. DEFINE s0 == q[1]
            r0 == q[2]
            m0 == merged[<<s0, r0.id>>]
            m1 == IF m0 = Absent THEN r0 ELSE Merge(m0, r0)
<1>1. /\ phase = "merge" /\ phase' = "merge" /\ read' = read /\ network' = network
      /\ canonical' = canonical /\ workloads' = workloads /\ serviceLinks' = serviceLinks
      /\ merged' = [merged EXCEPT ![<<s0, r0.id>>] = m1]
      /\ pending' = pending \ {<<s0, r0>>}
  BY DEF MergeReport, links
<1>2. /\ q = <<s0, r0>> /\ s0 \in Service /\ r0 \in ReportType
      /\ r0.id \in Container /\ r0 \in ReportsOf(s0, r0.id)
  BY <1>1, ReportOfPending DEF IInv
<1>3. \A s, c : ReportsOf(s, c)' = ReportsOf(s, c)
  BY <1>1 DEF ReportsOf, Variants
<1>4. m0 # Absent =>
        /\ m0.state = "running" => \E r \in ReportsOf(s0, r0.id) : r.state = "running"
        /\ m0.system => \E r \in ReportsOf(s0, r0.id) : r.system
        /\ \A l \in m0.labels : \E r \in ReportsOf(s0, r0.id) : l \in r.labels
        /\ \A r \in Done(s0, r0.id) : r.system => m0.system
  BY <1>1, <1>2 DEF SInv, OriginInv
<1>5. /\ m1.state = "running" => r0.state = "running" \/ (m0 # Absent /\ m0.state = "running")
      /\ m1.system => r0.system \/ (m0 # Absent /\ m0.system)
      /\ r0.system => m1.system
      /\ m0 # Absent /\ m0.system => m1.system
      /\ \A l \in m1.labels : l \in r0.labels \/ (m0 # Absent /\ l \in m0.labels)
  <2>1. CASE m0 = Absent
    BY <2>1
  <2>2. CASE m0 # Absent
    <3>1. /\ m1.state = IF m0.state = Absent \/ r0.state = "running" THEN r0.state ELSE m0.state
          /\ m1.system = (m0.system \/ r0.system) /\ m1.labels = m0.labels \cup r0.labels
      BY <2>2 DEF Merge
    <3>2. m1.state = "running" => r0.state = "running" \/ m0.state = "running"
      BY <3>1
    <3>3. \A l \in m1.labels : l \in r0.labels \/ l \in m0.labels
      BY <3>1
    <3>. QED BY <2>2, <3>1, <3>2, <3>3, Zenon
  <2>. QED BY <2>1, <2>2
<1>. HIDE DEF m1
<1>6. /\ merged'[<<s0, r0.id>>] = m1
      /\ \A s \in Service, c \in Container :
           <<s, c>> # <<s0, r0.id>> => merged'[<<s, c>>] = merged[<<s, c>>]
  BY <1>1, <1>2 DEF IInv, MergedInv
<1>7. ASSUME NEW s \in Service, NEW c \in Container, merged'[<<s, c>>] # Absent
      PROVE  /\ merged'[<<s, c>>].state = "running" =>
                  \E r \in ReportsOf(s, c) : r.state = "running"
             /\ merged'[<<s, c>>].system => \E r \in ReportsOf(s, c) : r.system
             /\ \A l \in merged'[<<s, c>>].labels : \E r \in ReportsOf(s, c) : l \in r.labels
             /\ \A r \in Done(s, c)' : r.system => merged'[<<s, c>>].system
  <2>1. \A r \in Done(s, c)' : r \in Done(s, c) \/ <<s, r>> = <<s0, r0>>
    BY <1>1, <1>3 DEF Done
  <2>2. CASE <<s, c>> = <<s0, r0.id>>
    <3>1. s = s0 /\ c = r0.id /\ merged'[<<s, c>>] = m1
      BY <1>6, <2>2
    <3>2. ASSUME NEW r \in Done(s0, r0.id), r.system PROVE m1.system
      <4>1. r \in ReportsOf(s0, r0.id) /\ <<s0, r>> \notin pending
        BY <1>1, <3>2 DEF Done
      <4>2. m0 # Absent
        BY <1>1, <1>2, <3>2 DEF IInv, ReportsInv
      <4>. QED BY <1>4, <1>5, <3>2, <4>2
    <3>3. \A r \in Done(s, c)' : r.system => m1.system
      BY <1>5, <2>1, <3>1, <3>2
    <3>4. m1.state = "running" => \E r \in ReportsOf(s0, r0.id) : r.state = "running"
      BY <1>2, <1>4, <1>5
    <3>5. m1.system => \E r \in ReportsOf(s0, r0.id) : r.system
      BY <1>2, <1>4, <1>5
    <3>6. \A l \in m1.labels : \E r \in ReportsOf(s0, r0.id) : l \in r.labels
      BY <1>2, <1>4, <1>5
    <3>. QED BY <3>1, <3>3, <3>4, <3>5, <3>6
  <2>3. CASE <<s, c>> # <<s0, r0.id>>
    <3>1. merged'[<<s, c>>] = merged[<<s, c>>] /\ merged[<<s, c>>] # Absent
      BY <1>6, <1>7, <2>3
    <3>2. \A r \in Done(s, c)' : r.id = c
      BY <1>3 DEF Done, ReportsOf
    <3>3. \A r \in Done(s, c)' : r \in Done(s, c)
      BY <2>1, <2>3, <3>2
    <3>. QED BY <1>1, <3>1, <3>3 DEF SInv, OriginInv
  <2>. QED BY <2>2, <2>3
<1>8. OriginInv'
  BY <1>3, <1>7 DEF OriginInv
<1>9. CollectInv' /\ RefusedInv'
  BY <1>1 DEF SInv, CollectInv, RefusedInv
<1>10. LinkInv'
  BY <1>1 DEF SInv, LinkInv
<1>. QED BY <1>8, <1>9, <1>10 DEF SInv

LEMMA EndKeepsSnapshot ==
  ASSUME IInv, SInv, EndMerge \/ ReturnSnapshot
  PROVE  SInv'
<1>1. /\ phase \in {"merge", "collect"} /\ pending = {} /\ phase' \in {"collect", "done"}
      /\ read' = read /\ network' = network /\ merged' = merged /\ canonical' = canonical
      /\ workloads' = workloads /\ serviceLinks' = serviceLinks
      /\ EndMerge => /\ phase = "merge" /\ phase' = "collect"
                     /\ pending' = {p \in Service \X Container : merged[p] # Absent}
      /\ ReturnSnapshot => phase = "collect" /\ pending' = pending
  BY DEF EndMerge, ReturnSnapshot, building, links
<1>2. \A s, c : ReportsOf(s, c)' = ReportsOf(s, c)
  BY <1>1 DEF ReportsOf, Variants
<1>3. \A s, c : Done(s, c)' = Done(s, c)
  BY <1>1, <1>2 DEF Done
<1>4. OriginInv'
  BY <1>1, <1>2, <1>3 DEF SInv, OriginInv
<1>5. Running' = Running /\ Collected' = Collected
  BY <1>1 DEF Running, Collected
<1>6. CollectInv'
  <2>1. CASE EndMerge
    <3>1. workloads = {}
      BY <1>1, <2>1 DEF IInv, WorkloadsInv
    <3>2. Running \subseteq pending'
      BY <1>1, <2>1 DEF Running
    <3>. QED BY <1>1, <1>5, <2>1, <3>1, <3>2 DEF SInv, CollectInv
  <2>2. CASE ReturnSnapshot
    <3>1. \A s, r, l : WorkloadOf(s, r, l)' = WorkloadOf(s, r, l)
      BY <1>1 DEF WorkloadOf, Variants
    <3>2. \A w : CollectedRight(w)' <=> CollectedRight(w)
      BY <1>1, <1>5, <2>2, <3>1 DEF CollectedRight
    <3>. QED BY <1>1, <1>5, <2>2, <3>2 DEF SInv, CollectInv
  <2>. QED BY <2>1, <2>2
<1>7. RefusedInv' /\ LinkInv'
  BY <1>1 DEF SInv, RefusedInv, LinkInv
<1>. QED BY <1>4, <1>6, <1>7 DEF SInv

LEMMA CollectKeepsSnapshot ==
  ASSUME IInv, SInv, NEW p \in pending, SkipContainer(p) \/ CollectContainer(p)
  PROVE  SInv'
<1>1. /\ phase = "collect" /\ phase' = "collect" /\ read' = read
      /\ network' = network /\ merged' = merged /\ canonical' = canonical
      /\ serviceLinks' = serviceLinks /\ pending' = pending \ {p}
      /\ p \in Service \X Container /\ merged[p] # Absent /\ p = <<p[1], p[2]>>
  BY DEF SkipContainer, CollectContainer, IInv, PendingInv, links
<1>2. \A s, c : ReportsOf(s, c)' = ReportsOf(s, c)
  BY <1>1 DEF ReportsOf, Variants
<1>3. \A s, c : Done(s, c)' = Done(s, c)
  BY <1>1, <1>2 DEF Done
<1>4. OriginInv'
  BY <1>1, <1>2, <1>3 DEF SInv, OriginInv
<1>5. Running' = Running
  BY <1>1 DEF Running
<1>6. \A s, r, l : WorkloadOf(s, r, l)' = WorkloadOf(s, r, l)
  BY <1>1 DEF WorkloadOf, Variants
<1>7. ASSUME NEW w, CollectedRight(w) PROVE CollectedRight(w)'
  BY <1>1, <1>5, <1>6, <1>7 DEF CollectedRight
<1>8. /\ Running \subseteq pending \cup Collected
      /\ \A w \in workloads : CollectedRight(w)
      /\ IsFiniteSet(workloads) /\ Cardinality(workloads) <= MaxWorkloads
  BY <1>1 DEF SInv, CollectInv
<1>9. CASE SkipContainer(p)
  <2>1. workloads' = workloads /\ p \notin Running
    BY <1>1, <1>9 DEF SkipContainer, Running
  <2>2. Collected' = Collected
    BY <2>1 DEF Collected
  <2>3. Running' \subseteq pending' \cup Collected'
    BY <1>1, <1>5, <1>8, <2>1, <2>2
  <2>4. CollectInv'
    BY <1>1, <1>7, <1>8, <2>1, <2>3 DEF CollectInv
  <2>5. RefusedInv' /\ LinkInv'
    BY <1>1, <2>1 DEF SInv, RefusedInv, LinkInv
  <2>. QED BY <1>4, <2>4, <2>5 DEF SInv
<1>10. CASE CollectContainer(p)
  <2>1. PICK w \in Candidates(p) : ~Collides(w) /\ workloads' = workloads \cup {w}
    BY <1>10 DEF CollectContainer
  <2>2. PICK inherited \in RuntimeLabels(canonical[p[1]].labels), own \in RuntimeLabels(merged[p].labels) :
          w = WorkloadOf(p[1], merged[p], Override(inherited, own))
    BY <2>1 DEF Candidates
  <2>3. w.service = p[1] /\ w.id = p[2] /\ w.primary = PrimaryOf(read.views, canonical, p[1])
    <3>1. merged[p].id = p[2]
      BY <1>1 DEF IInv, MergedInv
    <3>. QED BY <2>2, <3>1 DEF WorkloadOf
  <2>4. p \in Running
    BY <1>1, <1>10 DEF CollectContainer, Running
  <2>5. CollectedRight(w)'
    <3>1. <<w.service, w.id>> = p
      BY <1>1, <2>3
    <3>2. p \in (Running \ pending)'
      BY <1>1, <1>5, <2>4
    <3>3. w = WorkloadOf(p[1], merged[p], Override(inherited, own))'
      BY <1>6, <1>1, <2>2
    <3>. QED BY <1>1, <2>2, <2>3, <3>1, <3>2, <3>3 DEF CollectedRight
  <2>6. Collected' = Collected \cup {p}
    BY <1>1, <2>1, <2>3 DEF Collected
  <2>7. Running' \subseteq pending' \cup Collected'
    BY <1>1, <1>5, <1>8, <2>6
  <2>8. IsFiniteSet(workloads') /\ Cardinality(workloads') <= MaxWorkloads
    <3>1. Cardinality(workloads) \in Nat
      BY <1>8, FS_CardinalityType
    <3>2. w \notin workloads => Cardinality(workloads) < MaxWorkloads
      BY <2>1, <3>1, LimitAssumption DEF Collides
    <3>3. /\ IsFiniteSet(workloads \cup {w})
          /\ Cardinality(workloads \cup {w}) =
               IF w \in workloads THEN Cardinality(workloads) ELSE Cardinality(workloads) + 1
      BY <1>8, FS_AddElement
    <3>. QED BY <1>8, <2>1, <3>1, <3>2, <3>3, LimitAssumption
  <2>9. \A v \in workloads' : CollectedRight(v)'
    BY <1>7, <1>8, <2>1, <2>5
  <2>10. CollectInv'
    BY <1>1, <2>7, <2>8, <2>9 DEF CollectInv
  <2>11. RefusedInv'
    BY <1>1 DEF SInv, RefusedInv
  <2>12. LinkInv'
    BY <1>1, <2>1, <2>3 DEF SInv, LinkInv
  <2>. QED BY <1>4, <2>10, <2>11, <2>12 DEF SInv
<1>. QED BY <1>9, <1>10

LEMMA SnapshotStep == IInv /\ IInv' /\ SInv /\ [Next]_vars => SInv'
<1>. SUFFICES ASSUME IInv, IInv', SInv, [Next]_vars PROVE SInv'
  OBVIOUS
<1>0. /\ phase \in {"host", "networks", "stacks", "build"} =>
           /\ merged = Unmerged /\ network = Absent
           /\ phase \in {"host", "networks", "stacks", "build"} => workloads = {}
  BY DEF IInv, MergedInv, WorkloadsInv, SInv, RefusedInv
<1>1. CASE UNCHANGED vars
  BY <1>1, SnapshotIdleStep DEF vars, building, links
<1>2. CASE MetadataChanges \/ RequestFails
  BY <1>2, SnapshotIdleStep DEF MetadataChanges, RequestFails
<1>3. CASE ReadHost \/ ReadNetworks \/ ReadStacks
  <2>1. CASE ReadHost /\ phase' = "refused"
    <3>1. UNCHANGED building /\ network = Absent /\ merged' = Unmerged /\ workloads' = {}
          /\ network' = Absent
      BY <1>0, <2>1 DEF ReadHost, building
    <3>2. OriginInv'
      BY <3>1 DEF OriginInv, Unmerged
    <3>3. CollectInv'
      BY <2>1, <3>1, FS_EmptySet, LimitAssumption DEF CollectInv
    <3>4. RefusedInv' /\ LinkInv'
      BY <2>1, <3>1 DEF RefusedInv, LinkInv
    <3>. QED BY <3>2, <3>3, <3>4 DEF SInv
  <2>2. CASE phase' # "refused"
    <3>1. /\ phase \in {"host", "networks", "stacks"} /\ phase' \in {"networks", "stacks", "build"}
          /\ merged' = merged /\ workloads' = workloads /\ network' = network
      BY <1>3, <2>2 DEF ReadHost, ReadNetworks, ReadStacks, building
    <3>. QED BY <1>0, <3>1, EarlyStep
  <2>. QED BY <1>3, <2>1, <2>2 DEF ReadNetworks, ReadStacks
<1>4. CASE RefuseTopology
  BY <1>0, <1>4, SnapshotIdleStep DEF RefuseTopology, Refuse
<1>5. CASE BuildServices
  <2>1. /\ phase = "build" /\ phase' = "merge" /\ merged' = merged /\ workloads' = workloads
        /\ serviceLinks' = ServiceLinks(read.views, canonical)'
    BY <1>5 DEF BuildServices
  <2>. QED BY <1>0, <2>1, EarlyStep
<1>6. CASE MergeNext
  <2>1. PICK q \in pending : MergeReport(q[1], q[2]) \/ RefuseReport(q[1], q[2])
    BY <1>6 DEF MergeNext
  <2>2. CASE MergeReport(q[1], q[2])
    BY <2>2, MergeKeepsSnapshot
  <2>3. CASE RefuseReport(q[1], q[2])
    <3>1. Cause
      BY <2>3, RefusedReportIsCause DEF SInv
    <3>. QED BY <2>3, <3>1, SnapshotIdleStep DEF RefuseReport, Refuse
  <2>. QED BY <2>1, <2>2, <2>3
<1>7. CASE EndMerge \/ ReturnSnapshot
  BY <1>7, EndKeepsSnapshot
<1>8. CASE CollectNext
  <2>1. PICK p \in pending : SkipContainer(p) \/ CollectContainer(p) \/ RefuseContainer(p)
    BY <1>8 DEF CollectNext
  <2>2. CASE SkipContainer(p) \/ CollectContainer(p)
    BY <2>2, CollectKeepsSnapshot
  <2>3. CASE RefuseContainer(p)
    <3>1. Cause
      BY <2>3, RefusedContainerIsCause DEF SInv
    <3>. QED BY <2>3, <3>1, SnapshotIdleStep DEF RefuseContainer, Refuse
  <2>. QED BY <2>1, <2>2, <2>3
<1>9. CASE NextPoll
  <2>1. phase' = "host" /\ merged' = Unmerged /\ workloads' = {} /\ network' = Absent
    BY <1>9 DEF NextPoll
  <2>. QED BY <2>1, EarlyStep
<1>. QED BY <1>1, <1>2, <1>3, <1>4, <1>5, <1>6, <1>7, <1>8, <1>9 DEF Next

LEMMA SnapshotInvariance == Spec => [](IInv /\ SInv)
BY Invariance, InitSnapshot, SnapshotStep, PTL DEF Spec

-----------------------------------------------------------------------------
(* When all is collected there was nothing to refuse.                      *)
LEMMA DoneHasNoCause ==
  ASSUME IInv, SInv, phase = "done"
  PROVE  Collected = Listed /\ ~Cause
<1>1. Listed = Running
  BY ListedIsRunning DEF SInv
<1>2. Collected = Listed
  BY <1>1 DEF SInv, CollectInv, Collected, CollectedRight
<1>3. ASSUME NEW s \in Service, NEW c \in Container PROVE ~Disagree(s, c)
  <2>. SUFFICES ASSUME NEW a \in ReportsOf(s, c), NEW b \in ReportsOf(s, c)
       PROVE  /\ \A f \in Field : Absent \notin {a.known[f], b.known[f]} => a.known[f] = b.known[f]
              /\ \A k \in Text, x, y \in Text :
                   <<k, x>> \in a.labels /\ <<k, y>> \in b.labels => x = y
    BY DEF Disagree
  <2>. DEFINE m == merged[<<s, c>>]
  <2>1. a \in Done(s, c) /\ b \in Done(s, c)
    BY DEF Done
  <2>2. m # Absent /\ Covers(m, a) /\ Covers(m, b)
    BY <2>1 DEF IInv, ReportsInv
  <2>3. m \in ReportType
    BY <2>2 DEF IInv, MergedInv
  <2>4. \A p, q \in m.labels : p[1] = q[1] => p = q
    BY <2>3 DEF ReportType, LabelMap
  <2>5. ASSUME NEW k, NEW x, NEW y, <<k, x>> \in a.labels, <<k, y>> \in b.labels
        PROVE  x = y
    <3>1. <<k, x>> \in m.labels /\ <<k, y>> \in m.labels
      BY <2>2, <2>5 DEF Covers
    <3>2. <<k, x>> = <<k, y>>
      BY <2>4, <3>1
    <3>. QED BY <3>2
  <2>6. ASSUME NEW f \in Field, Absent \notin {a.known[f], b.known[f]}
        PROVE  a.known[f] = b.known[f]
    BY <2>2, <2>6 DEF Covers
  <2>. QED BY <2>5, <2>6
<1>4. ASSUME NEW p \in Listed, NEW q \in Listed, p[2] = q[2] PROVE p = q
  <2>1. PICK v \in workloads : p = <<v.service, v.id>>
    BY <1>2 DEF Collected
  <2>2. PICK w \in workloads : q = <<w.service, w.id>>
    BY <1>2 DEF Collected
  <2>3. v = w
    BY <1>4, <2>1, <2>2 DEF IInv, WorkloadsInv
  <2>. QED BY <2>1, <2>2, <2>3
<1>5. Cardinality(Listed) <= MaxWorkloads
  <2>1. IsFiniteSet(workloads) /\ Cardinality(workloads) <= MaxWorkloads
    BY DEF SInv, CollectInv
  <2>2. [w \in workloads |-> <<w.service, w.id>>] \in Surjection(workloads, Collected)
    BY DEF Collected, Surjection
  <2>3. IsFiniteSet(Collected) /\ Cardinality(Collected) <= Cardinality(workloads)
    BY <2>1, <2>2, FS_Surjection
  <2>4. Cardinality(Collected) \in Nat /\ Cardinality(workloads) \in Nat
    BY <2>1, <2>3, FS_CardinalityType
  <2>. QED BY <1>2, <2>1, <2>3, <2>4, LimitAssumption
<1>6. Cardinality(Listed) \in Nat
  <2>1. IsFiniteSet(Service \X Container)
    BY FiniteAssumption, FS_Product
  <2>2. Listed \in SUBSET (Service \X Container)
    BY DEF Listed
  <2>. QED BY <2>1, <2>2, FS_Subset, FS_CardinalityType
<1>7. ~Cause
  BY <1>3, <1>4, <1>5, <1>6, LimitAssumption DEF Cause
<1>. QED BY <1>2, <1>7

(* A topology is refused exactly when it contradicts itself or is too large, *)
(* in whatever order its views are merged and its containers collected.     *)
THEOREM RefusalIsOfWhatWasRead == Spec => []RefusalIsDetermined
<1>1. IInv /\ SInv => RefusalIsDetermined
  <2>. SUFFICES ASSUME IInv, SInv, phase \in {"done", "refused"}, network # Absent
       PROVE  phase = "refused" <=> Cause
    BY DEF RefusalIsDetermined, Cause
  <2>1. phase = "refused" => Cause
    BY DEF SInv, RefusedInv
  <2>2. phase = "done" => ~Cause
    BY DoneHasNoCause
  <2>. QED BY <2>1, <2>2
<1>. QED BY <1>1, SnapshotInvariance, PTL

(* A declared link joins the primaries that the workloads of the two        *)
(* services carry.                                                         *)
THEOREM LinksAreFound == Spec => []LinksMeetWorkloads
<1>1. IInv /\ SInv => LinksMeetWorkloads
  <2>. SUFFICES ASSUME SInv, phase = "done",
                       NEW v \in read.views, NEW link \in v.links,
                       NEW x \in workloads, NEW y \in workloads, x.service = v.service,
                       NEW u \in read.views, u.service = y.service,
                       \/ u.path = link[1]
                       \/ u.path = link[2] /\ \A t \in read.views : t.path # link[1]
       PROVE  <<x.primary, y.primary>> \in serviceLinks
    BY DEF LinksMeetWorkloads
  <2>1. y.service \in Target(read.views, link)
    <3>1. CASE u.path = link[1]
      BY <3>1 DEF Target, AtPath
    <3>2. CASE u.path = link[2] /\ \A t \in read.views : t.path # link[1]
      BY <3>2 DEF Target, AtPath
    <3>. QED BY <3>1, <3>2
  <2>2. <<x.service, y.service>> \in DeclaredLinks(read.views)
    BY <2>1 DEF DeclaredLinks
  <2>3. /\ x.primary = PrimaryOf(read.views, canonical, x.service)
        /\ y.primary = PrimaryOf(read.views, canonical, y.service)
        /\ serviceLinks = ServiceLinks(read.views, canonical)
    BY DEF SInv, LinkInv
  <2>. QED BY <2>2, <2>3 DEF ServiceLinks
<1>. QED BY <1>1, SnapshotInvariance, PTL

-----------------------------------------------------------------------------
(* The types of what is built, and the view each service is taken from.     *)
CanonInv ==
  phase \in {"merge", "collect", "done"} =>
    /\ \A s \in Service :
         IF Variants(read.views, s) = {} THEN canonical[s] = Absent
         ELSE canonical[s] \in First(Variants(read.views, s))
    /\ \A v \in read.views : v.service \in Service

LEMMA CanonStep == IInv /\ IInv' /\ CanonInv /\ [Next]_vars => CanonInv'
<1>. SUFFICES ASSUME IInv, IInv', CanonInv, [Next]_vars PROVE CanonInv'
  OBVIOUS
<1>1. CASE BuildServices
  <2>1. /\ phase' = "merge" /\ read' = read
        /\ \A s \in Service :
             IF Variants(read.views, s) = {} THEN canonical'[s] = Absent
             ELSE canonical'[s] \in First(Variants(read.views, s))
        /\ \A v \in read.views : v.service # Absent
    BY <1>1 DEF BuildServices, Buildable, Listable
  <2>2. \A v \in read.views : v \in ViewType
    BY DEF IInv, ReadInv
  <2>3. \A v \in read.views : v.service \in Service
    BY <2>1, <2>2 DEF ViewType
  <2>. QED BY <2>1, <2>3 DEF CanonInv
<1>2. CASE /\ read' = read /\ canonical' = canonical
           /\ phase' \in {"merge", "collect", "done"} => phase \in {"merge", "collect", "done"}
  BY <1>2 DEF CanonInv
<1>3. CASE phase' \notin {"merge", "collect", "done"}
  BY <1>3 DEF CanonInv
<1>4. \/ BuildServices
      \/ phase' \notin {"merge", "collect", "done"}
      \/ /\ read' = read /\ canonical' = canonical
         /\ phase' \in {"merge", "collect", "done"} => phase \in {"merge", "collect", "done"}
  <2>1. CASE UNCHANGED vars
    BY <2>1 DEF vars
  <2>2. CASE MetadataChanges \/ RequestFails \/ RefuseTopology
    BY <2>2 DEF MetadataChanges, RequestFails, RefuseTopology, Refuse, building
  <2>3. CASE ReadHost \/ ReadNetworks \/ ReadStacks \/ NextPoll
    BY <2>3 DEF ReadHost, ReadNetworks, ReadStacks, NextPoll
  <2>4. CASE MergeNext
    BY <2>4 DEF MergeNext, MergeReport, RefuseReport, Refuse, building
  <2>5. CASE EndMerge \/ ReturnSnapshot
    BY <2>5 DEF EndMerge, ReturnSnapshot, building
  <2>6. CASE CollectNext
    BY <2>6 DEF CollectNext, SkipContainer, CollectContainer, RefuseContainer, Refuse, building
  <2>. QED BY <1>1, <2>1, <2>2, <2>3, <2>4, <2>5, <2>6 DEF Next
<1>. QED BY <1>1, <1>2, <1>3, <1>4

LEMMA CanonInvariance == Spec => []CanonInv
<1>1. Init => CanonInv
  BY DEF Init, CanonInv
<1>. QED BY <1>1, CanonStep, Invariance, PTL DEF Spec

(* Folding labels loses no key and makes up no value.                      *)
IsFolding(n, labels) ==
  /\ \A l \in labels : Fold[l[1]] \in DOMAIN n
  /\ \A k \in DOMAIN n : \E l \in labels : Fold[l[1]] = k /\ n[k] = Fold[l[2]]

LEMMA FoldedLabels ==
  ASSUME NEW labels, NEW n \in RuntimeLabels(labels)
  PROVE  IsFolding(n, labels)
BY DEF RuntimeLabels, IsFolding

(* The workloads of a snapshot are those of the running containers of the   *)
(* network, and are what their reports say, in whatever order they come.    *)
THEOREM SnapshotIsOfWhatWasRead == Spec => []SnapshotIsDetermined
<1>1. IInv /\ SInv /\ CanonInv => SnapshotIsDetermined
  <2>. SUFFICES ASSUME IInv, SInv, CanonInv, phase = "done", NEW w \in workloads
       PROVE  /\ Says(w.service, w.id, "host", w.host)
              /\ Says(w.service, w.id, "ip", w.ip)
              /\ w.system <=> \/ w.stack \in read.system
                              \/ \E v \in read.views : v.service = w.service /\ v.system
                              \/ \E r \in ReportsOf(w.service, w.id) : r.system
              /\ \A k \in DOMAIN w.labels : MayHave(w.service, w.id, k, w.labels[k])
              /\ \A k \in Text : MustHave(w.service, w.id, k) => k \in DOMAIN w.labels
    BY DoneHasNoCause DEF SnapshotIsDetermined, Collected
  <2>. DEFINE s == w.service
              c == w.id
              m == merged[<<s, c>>]
  <2>1. CollectedRight(w)
    BY DEF SInv, CollectInv
  <2>2. s \in Service /\ c \in Container /\ m # Absent /\ Runs(m, network)
    BY <2>1 DEF CollectedRight, Running
  <2>3. PICK inherited \in RuntimeLabels(canonical[s].labels), own \in RuntimeLabels(m.labels) :
          w = WorkloadOf(s, m, Override(inherited, own))
    BY <2>1 DEF CollectedRight
  <2>4. /\ w.host = m.known["host"] /\ w.ip = m.known["ip"] /\ w.stack = canonical[s].stack
        /\ w.labels = Override(inherited, own)
    BY <2>3 DEF WorkloadOf
  <2>9. w.system = (\/ canonical[s].stack \in read.system
                    \/ \E v \in Variants(read.views, s) : v.system
                    \/ m.system)
    <3>. DEFINE sys == \/ canonical[s].stack \in read.system
                       \/ \E v \in Variants(read.views, s) : v.system
                       \/ m.system
    <3>1. w = [id |-> m.id, ip |-> m.known["ip"], host |-> m.known["host"],
               stack |-> canonical[s].stack, service |-> s,
               primary |-> PrimaryOf(read.views, canonical, s),
               system |-> sys, labels |-> Override(inherited, own)]
      BY ONLY <2>3, Zenon DEF WorkloadOf
    <3>. HIDE DEF sys
    <3>2. w.system = sys
      BY ONLY <3>1
    <3>. QED BY ONLY <3>2, Zenon DEF sys
  <2>5. \A r \in ReportsOf(s, c) : r \in Done(s, c) /\ Covers(m, r)
    BY <2>2 DEF Done, IInv, ReportsInv
  <2>6. Says(s, c, "host", w.host) /\ Says(s, c, "ip", w.ip)
    <3>1. ASSUME NEW f \in Field, m.known[f] # Absent PROVE Says(s, c, f, m.known[f])
      BY <2>2, <3>1 DEF IInv, MergedInv, Says
    <3>2. m.known["host"] # Absent /\ m.known["ip"] # Absent
      <4>1. Absent \notin network.subnet
        BY NetworkTyped, AbsentAssumption
      <4>. QED BY <2>2, <4>1 DEF Runs
    <3>3. "host" \in Field /\ "ip" \in Field
      BY DEF Field
    <3>. QED BY <2>4, <3>1, <3>2, <3>3
  <2>7. w.system <=> \/ w.stack \in read.system
                     \/ \E v \in read.views : v.service = s /\ v.system
                     \/ \E r \in ReportsOf(s, c) : r.system
    <3>1. m.system <=> \E r \in ReportsOf(s, c) : r.system
      <4>1. m.system => \E r \in ReportsOf(s, c) : r.system
        BY <2>2 DEF SInv, OriginInv
      <4>2. \A r \in Done(s, c) : r.system => m.system
        BY <2>2 DEF SInv, OriginInv
      <4>. QED BY <2>5, <4>1, <4>2
    <3>2. (\E v \in Variants(read.views, s) : v.system)
            <=> (\E v \in read.views : v.service = s /\ v.system)
      BY DEF Variants
    <3>. QED BY <2>4, <2>9, <3>1, <3>2
  <2>8. m.labels = OwnLabels(s, c)
    <3>1. \A l \in m.labels : \E r \in ReportsOf(s, c) : l \in r.labels
      BY <2>2 DEF SInv, OriginInv
    <3>2. \A r \in ReportsOf(s, c) : r.labels \subseteq m.labels
      BY <2>5 DEF Covers
    <3>. QED BY <3>1, <3>2 DEF OwnLabels
  <2>10. canonical[s] \in First(Variants(read.views, s))
    <3>1. PICK r \in ReportsOf(s, c) : r.state = "running"
      BY <2>2 DEF SInv, OriginInv, Runs
    <3>2. Variants(read.views, s) # {}
      BY <3>1 DEF ReportsOf
    <3>. QED BY <2>2, <3>2 DEF CanonInv
  <2>11. IsFolding(own, OwnLabels(s, c))
    BY <2>3, <2>8, FoldedLabels
  <2>12. IsFolding(inherited, canonical[s].labels)
    BY <2>3, FoldedLabels
  <2>13. /\ DOMAIN w.labels = DOMAIN inherited \cup DOMAIN own
         /\ \A k \in DOMAIN w.labels :
              w.labels[k] = IF k \in DOMAIN own THEN own[k] ELSE inherited[k]
    BY <2>4 DEF Override
  <2>14. ASSUME NEW k \in DOMAIN w.labels
         PROVE  MayHave(s, c, k, w.labels[k])
    <3>1. CASE k \in DOMAIN own
      <4>1. PICK l \in OwnLabels(s, c) : Fold[l[1]] = k /\ own[k] = Fold[l[2]]
        BY <2>11, <3>1 DEF IsFolding
      <4>. QED BY <2>13, <3>1, <4>1 DEF MayHave
    <3>2. CASE k \notin DOMAIN own
      <4>1. {l \in OwnLabels(s, c) : Fold[l[1]] = k} = {}
        BY <2>11, <3>2 DEF IsFolding
      <4>2. PICK l \in canonical[s].labels : Fold[l[1]] = k /\ inherited[k] = Fold[l[2]]
        BY <2>12, <2>13, <3>2 DEF IsFolding
      <4>3. l \in UNION {v.labels : v \in First(Variants(read.views, s))}
        BY <2>10, <4>2
      <4>. QED BY <2>13, <3>2, <4>1, <4>2, <4>3 DEF MayHave
    <3>. QED BY <3>1, <3>2
  <2>15. ASSUME NEW k \in Text, MustHave(s, c, k)
         PROVE  k \in DOMAIN w.labels
    BY <2>10, <2>11, <2>12, <2>13, <2>15 DEF MustHave, IsFolding
  <2>. QED BY <2>6, <2>7, <2>14, <2>15
<1>. QED BY <1>1, SnapshotInvariance, CanonInvariance, PTL

-----------------------------------------------------------------------------
(* Types.  What a workload is made of has its type because the view and the *)
(* reports it comes from have theirs.                                      *)
LEMMA PrimaryIsService ==
  ASSUME NEW views, \A v \in views : v.service \in Service, NEW canon, NEW s \in Service
  PROVE  PrimaryOf(views, canon, s) \in Service
<1>. DEFINE named == AtPath(views, canon[s].primary)
<1>1. named \subseteq Service
  BY DEF AtPath
<1>2. CASE PrimaryOf(views, canon, s) = s
  BY <1>2
<1>3. CASE PrimaryOf(views, canon, s) # s
  <2>1. named # {} /\ PrimaryOf(views, canon, s) = CHOOSE t \in named : TRUE
    BY <1>3 DEF PrimaryOf
  <2>. QED BY <1>1, <2>1
<1>. QED BY <1>2, <1>3

LEMMA LinksJoinServices ==
  ASSUME NEW views, \A v \in views : v.service \in Service, NEW canon
  PROVE  ServiceLinks(views, canon) \subseteq Service \X Service
<1>1. DeclaredLinks(views) \subseteq Service \X Service
  <2>1. \A path : AtPath(views, path) \subseteq Service
    BY DEF AtPath
  <2>2. \A link : Target(views, link) \subseteq Service
    BY <2>1 DEF Target
  <2>. QED BY <2>2 DEF DeclaredLinks
<1>2. \A p \in DeclaredLinks(views) :
        /\ PrimaryOf(views, canon, p[1]) \in Service
        /\ PrimaryOf(views, canon, p[2]) \in Service
  BY <1>1, PrimaryIsService
<1>. QED BY <1>2 DEF ServiceLinks

LEMMA FoldedLabelsTyped ==
  ASSUME NEW labels \in LabelMap, NEW n \in RuntimeLabels(labels)
  PROVE  DOMAIN n \subseteq Text /\ \A k \in DOMAIN n : n[k] \in Text
<1>1. \A l \in labels : Fold[l[1]] \in Text /\ Fold[l[2]] \in Text
  BY FoldAssumption DEF LabelMap
<1>2. n \in [{Fold[l[1]] : l \in labels} -> {Fold[l[2]] : l \in labels}]
  BY DEF RuntimeLabels
<1>. QED BY <1>1, <1>2

LEMMA OverrideTyped ==
  ASSUME NEW inherited, DOMAIN inherited \subseteq Text,
         \A k \in DOMAIN inherited : inherited[k] \in Text,
         NEW own, DOMAIN own \subseteq Text, \A k \in DOMAIN own : own[k] \in Text
  PROVE  Override(inherited, own) \in UNION {[keys -> Text] : keys \in SUBSET Text}
<1>1. DOMAIN inherited \cup DOMAIN own \in SUBSET Text
  OBVIOUS
<1>2. Override(inherited, own) \in [DOMAIN inherited \cup DOMAIN own -> Text]
  BY DEF Override
<1>. QED BY <1>1, <1>2

(* The view a service is taken from, when a container of it is merged.      *)
LEMMA CanonicalTyped ==
  ASSUME IInv, SInv, CanonInv, phase \in {"merge", "collect", "done"},
         NEW s \in Service, NEW c \in Container, merged[<<s, c>>] # Absent,
         merged[<<s, c>>].state = "running"
  PROVE  canonical[s] \in ViewType
<1>1. PICK r \in ReportsOf(s, c) : r.state = "running"
  BY DEF SInv, OriginInv
<1>2. Variants(read.views, s) # {}
  BY <1>1 DEF ReportsOf
<1>3. canonical[s] \in read.views
  BY <1>2 DEF CanonInv, First, Variants
<1>. QED BY <1>3 DEF IInv, ReadInv

LEMMA CandidatesTyped ==
  ASSUME IInv, SInv, CanonInv, phase = "collect", NEW p \in pending, Runs(merged[p], network),
         NEW w \in Candidates(p)
  PROVE  w \in WorkloadType
<1>1. p \in Service \X Container /\ merged[p] # Absent
  BY DEF IInv, PendingInv
<1>. DEFINE s == p[1]
            m == merged[p]
<1>2. s \in Service /\ p[2] \in Container /\ p = <<s, p[2]>>
  BY <1>1
<1>3. m \in ReportType /\ m.id = p[2] /\ m.state = "running"
  BY <1>1, <1>2 DEF IInv, MergedInv, Runs
<1>4. canonical[s] \in ViewType
  BY <1>1, <1>2, <1>3, CanonicalTyped
<1>5. PICK inherited \in RuntimeLabels(canonical[s].labels), own \in RuntimeLabels(m.labels) :
        w = WorkloadOf(s, m, Override(inherited, own))
  BY DEF Candidates
<1>6. Override(inherited, own) \in UNION {[keys -> Text] : keys \in SUBSET Text}
  <2>1. canonical[s].labels \in LabelMap /\ m.labels \in LabelMap
    BY <1>3, <1>4 DEF ViewType, ReportType
  <2>. QED BY <1>5, <2>1, FoldedLabelsTyped, OverrideTyped
<1>7. m.known["host"] \in Host /\ m.known["ip"] \in Address
  <2>1. m.known["host"] \in Host \cup {Absent} /\ m.known["host"] # Absent
    BY <1>3 DEF ReportType, Runs
  <2>2. m.known["ip"] \in network.subnet /\ network.subnet \subseteq Address
    BY NetworkTyped DEF Runs
  <2>. QED BY <2>1, <2>2
<1>8. PrimaryOf(read.views, canonical, s) \in Service
  BY <1>2, PrimaryIsService DEF CanonInv
<1>9. canonical[s].stack \in Stack
  BY <1>4 DEF ViewType
<1>. DEFINE sys == \/ canonical[s].stack \in read.system
                   \/ \E v \in Variants(read.views, s) : v.system
                   \/ m.system
<1>10. sys \in BOOLEAN
  BY ONLY Zenon
<1>11. w = [id |-> m.id, ip |-> m.known["ip"], host |-> m.known["host"],
            stack |-> canonical[s].stack, service |-> s,
            primary |-> PrimaryOf(read.views, canonical, s),
            system |-> sys, labels |-> Override(inherited, own)]
  BY ONLY <1>5, Zenon DEF WorkloadOf
<1>. HIDE DEF sys
<1>. QED BY <1>2, <1>3, <1>6, <1>7, <1>8, <1>9, <1>10, <1>11 DEF WorkloadType

(* Every variable but the phase and what is read.                          *)
BuiltTypeOK ==
  /\ network \in NetworkType \cup {Absent}
  /\ canonical \in [Service -> ViewType \cup {Absent}]
  /\ workloads \subseteq WorkloadType
  /\ serviceLinks \subseteq Service \X Service
  /\ containerLinks \subseteq Container \X Container

PendingTypeOK ==
  \/ phase = "merge" /\ pending \subseteq Reports(read.views)
  \/ pending \subseteq {p \in Service \X Container : merged[p] # Absent}
  \/ phase = "refused"

ReadTypeOK ==
  /\ phase \in {"host", "networks", "stacks", "build", "merge", "collect", "done",
                "refused", "failed"}
  /\ read.host \in Host \cup {Absent}
  /\ read.views \subseteq UNION {w.views : w \in World}

LEMMA TypesTogether == IInv => (TypeOK <=> BuiltTypeOK /\ PendingTypeOK /\ ReadTypeOK)
BY DEF IInv, ReadInv, MergedInv, TypeOK, BuiltTypeOK, PendingTypeOK, ReadTypeOK

LEMMA ReadTypeStep == IInv /\ ReadTypeOK /\ [Next]_vars => ReadTypeOK'
<1>. SUFFICES ASSUME IInv, ReadTypeOK, [Next]_vars PROVE ReadTypeOK'
  OBVIOUS
<1>1. world \in World /\ world.host \in Host \cup {Absent}
  BY WorldAssumption DEF IInv, ReadInv, WorldType
<1>2. CASE UNCHANGED vars
  BY <1>2 DEF vars, ReadTypeOK
<1>3. CASE MetadataChanges \/ RequestFails \/ RefuseTopology \/ BuildServices
  BY <1>3 DEF MetadataChanges, RequestFails, RefuseTopology, Refuse, BuildServices, building,
              ReadTypeOK
<1>4. CASE ReadHost \/ ReadNetworks \/ ReadStacks
  <2>1. DOMAIN read = {"host", "networks", "system", "views", "repeats"}
    BY DEF IInv, ReadInv
  <2>2. /\ phase' \in {"networks", "stacks", "build", "refused"}
        /\ read'.host \in {read.host, world.host}
        /\ read'.views \in {read.views, world.views}
    BY <1>4, <2>1 DEF ReadHost, ReadNetworks, ReadStacks
  <2>. QED BY <1>1, <2>2 DEF ReadTypeOK
<1>5. CASE MergeNext
  BY <1>5 DEF MergeNext, MergeReport, RefuseReport, Refuse, building, ReadTypeOK
<1>6. CASE EndMerge \/ ReturnSnapshot
  BY <1>6 DEF EndMerge, ReturnSnapshot, building, ReadTypeOK
<1>7. CASE CollectNext
  BY <1>7 DEF CollectNext, SkipContainer, CollectContainer, RefuseContainer, Refuse, building,
              ReadTypeOK
<1>8. CASE NextPoll
  BY <1>8 DEF NextPoll, Unread, ReadTypeOK
<1>. QED BY <1>2, <1>3, <1>4, <1>5, <1>6, <1>7, <1>8 DEF Next

LEMMA BuiltTypeStep ==
  IInv /\ IInv' /\ SInv /\ CanonInv /\ CanonInv' /\ BuiltTypeOK /\ [Next]_vars => BuiltTypeOK'
<1>. SUFFICES ASSUME IInv, IInv', SInv, CanonInv, CanonInv', BuiltTypeOK, [Next]_vars
     PROVE  BuiltTypeOK'
  OBVIOUS
<1>1. CASE UNCHANGED building
  BY <1>1 DEF building, links, BuiltTypeOK
<1>2. CASE BuildServices
  <2>1. phase' = "merge" /\ read' = read /\ workloads' = workloads
        /\ containerLinks' = containerLinks
    BY <1>2 DEF BuildServices
  <2>2. PICK i \in Eligible(read.networks) : network' = read.networks[i]
    BY <1>2 DEF BuildServices
  <2>3. network' \in NetworkType
    BY <2>2 DEF Eligible, IInv, ReadInv
  <2>4. canonical' \in [Service -> ViewType \cup {Absent}]
    <3>1. canonical' \in [Service -> read.views \cup {Absent}]
      BY <1>2 DEF BuildServices
    <3>2. read.views \subseteq ViewType
      BY DEF IInv, ReadInv
    <3>. QED BY <3>1, <3>2
  <2>5. serviceLinks' \subseteq Service \X Service
    <3>1. \A v \in read.views : v.service \in Service
      BY <2>1 DEF CanonInv
    <3>2. serviceLinks' = ServiceLinks(read.views, canonical')
      BY <1>2 DEF BuildServices
    <3>. QED BY <3>1, <3>2, LinksJoinServices
  <2>. QED BY <2>1, <2>3, <2>4, <2>5 DEF BuiltTypeOK
<1>3. CASE \E p \in pending : CollectContainer(p)
  <2>1. PICK p \in pending : CollectContainer(p)
    BY <1>3
  <2>2. PICK w \in Candidates(p) : workloads' = workloads \cup {w}
    BY <2>1 DEF CollectContainer
  <2>3. w \in WorkloadType
    BY <2>1, <2>2, CandidatesTyped DEF CollectContainer
  <2>4. p \in Service \X Container /\ merged[p] \in ReportType
    BY <2>1 DEF CollectContainer, IInv, PendingInv, MergedInv
  <2>5. merged[p].links \subseteq Container /\ p[2] \in Container
    BY <2>4 DEF ReportType
  <2>6. /\ containerLinks' = containerLinks \cup ({p[2]} \X merged[p].links)
        /\ UNCHANGED <<network, canonical, serviceLinks>>
    BY <2>1 DEF CollectContainer
  <2>. QED BY <2>2, <2>3, <2>5, <2>6 DEF BuiltTypeOK
<1>4. CASE NextPoll
  BY <1>4 DEF NextPoll, BuiltTypeOK
<1>5. CASE UNCHANGED <<network, canonical, workloads, links>>
  BY <1>5 DEF links, BuiltTypeOK
<1>6. CASE MetadataChanges \/ RequestFails \/ ReadHost \/ ReadNetworks \/ ReadStacks
           \/ RefuseTopology \/ ReturnSnapshot \/ UNCHANGED vars
  BY <1>1, <1>6 DEF MetadataChanges, RequestFails, ReadHost, ReadNetworks, ReadStacks,
                    RefuseTopology, Refuse, ReturnSnapshot, vars, building
<1>7. CASE MergeNext
  BY <1>1, <1>5, <1>7 DEF MergeNext, MergeReport, RefuseReport, Refuse
<1>8. CASE EndMerge
  BY <1>5, <1>8 DEF EndMerge
<1>9. CASE CollectNext
  BY <1>1, <1>3, <1>5, <1>9 DEF CollectNext, SkipContainer, RefuseContainer, Refuse
<1>. QED BY <1>2, <1>4, <1>6, <1>7, <1>8, <1>9 DEF Next

LEMMA PendingTypeStep == IInv /\ IInv' /\ PendingTypeOK /\ [Next]_vars => PendingTypeOK'
<1>. SUFFICES ASSUME IInv, IInv', PendingTypeOK, [Next]_vars PROVE PendingTypeOK'
  OBVIOUS
<1>1. CASE phase' = "refused"
  BY <1>1 DEF PendingTypeOK
<1>2. CASE phase' = "merge" \/ phase' = "collect"
  BY <1>2 DEF PendingTypeOK, IInv, PendingInv
<1>3. CASE pending' = {}
  BY <1>3 DEF PendingTypeOK
<1>4. CASE /\ UNCHANGED <<pending, merged>>
           /\ phase \notin {"merge", "refused"}
  BY <1>4 DEF PendingTypeOK
<1>5. CASE UNCHANGED <<pending, merged, phase, read>>
  BY <1>5 DEF PendingTypeOK
<1>6. CASE MetadataChanges \/ RequestFails \/ ReadHost \/ ReadNetworks \/ ReadStacks
           \/ RefuseTopology \/ BuildServices \/ ReturnSnapshot \/ NextPoll \/ UNCHANGED vars
  BY <1>1, <1>2, <1>3, <1>4, <1>5, <1>6
     DEF MetadataChanges, RequestFails, Reading, ReadHost, ReadNetworks, ReadStacks,
         RefuseTopology, Refuse, BuildServices, ReturnSnapshot, NextPoll, vars, building
<1>7. CASE MergeNext
  BY <1>1, <1>2, <1>7 DEF MergeNext, MergeReport, RefuseReport, Refuse
<1>8. CASE EndMerge
  BY <1>2, <1>8 DEF EndMerge
<1>9. CASE CollectNext
  BY <1>1, <1>2, <1>9 DEF CollectNext, SkipContainer, CollectContainer, RefuseContainer, Refuse
<1>. QED BY <1>6, <1>7, <1>8, <1>9 DEF Next

(* Every variable of Snapshot keeps its type: a workload has a host, an     *)
(* address, a stack and a primary, none of them the empty string.           *)
THEOREM SnapshotTypeCorrect == Spec => []TypeOK
<1>1. Init => BuiltTypeOK /\ PendingTypeOK /\ ReadTypeOK
  BY DEF Init, Unread, BuiltTypeOK, PendingTypeOK, ReadTypeOK
<1>2. IInv /\ IInv' /\ SInv /\ CanonInv /\ CanonInv' /\ BuiltTypeOK /\ PendingTypeOK /\ ReadTypeOK
      /\ [Next]_vars => BuiltTypeOK' /\ PendingTypeOK' /\ ReadTypeOK'
  BY ReadTypeStep, BuiltTypeStep, PendingTypeStep
<1>. QED BY <1>1, <1>2, SnapshotInvariance, CanonInvariance, TypesTogether, PTL DEF Spec
=============================================================================
