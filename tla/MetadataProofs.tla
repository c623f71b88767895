---------------------------- MODULE MetadataProofs ----------------------------
(***************************************************************************)
(* What Snapshot returns, for any topology, any number of views and any     *)
(* changes of the metadata between the three requests: merging loses and    *)
(* overwrites no report, and the workloads are well formed, on the network  *)
(* whose policy is returned with them.                                     *)
(***************************************************************************)
EXTENDS Metadata, TLAPS

(* The report m says all that r says.                                      *)
Covers(m, r) ==
  /\ \A f \in Field : r.known[f] \in {Absent, m.known[f]}
  /\ r.labels \subseteq m.labels /\ r.links \subseteq m.links
  /\ r.state = "running" => m.state = "running"

(* The reports of c in s that are merged.                                  *)
Done(s, c) == {r \in ReportsOf(s, c) : phase = "merge" => <<s, r>> \notin pending}

ReadInv ==
  /\ world \in World
  /\ read.views \subseteq ViewType /\ read.networks \in Seq(NetworkType)
  /\ read \in [host : {read.host}, networks : {read.networks}, system : {read.system},
               views : {read.views}, repeats : {read.repeats}]
  /\ phase \in {"networks", "stacks", "build", "merge", "collect", "done"} => read.host # Absent

NetworkInv ==
  phase \in {"merge", "collect", "done"} =>
    /\ \E i \in DOMAIN read.networks : read.networks[i] = network /\ network.default
    /\ network.subnet # {}

PendingInv ==
  /\ phase = "merge" => /\ pending \subseteq Reports(read.views)
                        /\ \A v \in read.views : v.service # Absent
  /\ phase = "collect" => pending \subseteq {p \in Service \X Container : merged[p] # Absent}

MergedInv ==
  /\ merged \in [Service \X Container -> ReportType \cup {Absent}]
  /\ phase \in {"host", "networks", "stacks", "build"} => merged = Unmerged
  /\ \A s \in Service, c \in Container :
       merged[<<s, c>>] # Absent =>
         /\ merged[<<s, c>>].id = c
         /\ \A f \in Field :
              \E r \in ReportsOf(s, c) : r.known[f] = merged[<<s, c>>].known[f]

ReportsInv ==
  phase \in {"merge", "collect", "done"} =>
    \A s \in Service, c \in Container : \A r \in Done(s, c) :
      merged[<<s, c>>] # Absent /\ Covers(merged[<<s, c>>], r)

WorkloadsInv ==
  /\ phase \in {"host", "networks", "stacks", "build", "merge"} => workloads = {}
  /\ \A w \in workloads :
       /\ w.id \in Container /\ w.service \in Service
       /\ w.ip \in network.subnet
       /\ merged[<<w.service, w.id>>] # Absent
       /\ merged[<<w.service, w.id>>].known["network"] = network.id
  /\ \A v, w \in workloads : v.id = w.id => v = w

IInv == ReadInv /\ NetworkInv /\ PendingInv /\ MergedInv /\ ReportsInv /\ WorkloadsInv

-----------------------------------------------------------------------------
LEMMA AbsentIsNoReport ==
  ASSUME NEW r \in ReportType PROVE r # Absent
BY AbsentAssumption

LEMMA MergeIsReport ==
  ASSUME NEW a \in ReportType, NEW b \in ReportType, ~Contradicts(a, b)
  PROVE  Merge(a, b) \in ReportType /\ Merge(a, b).id = a.id
<1>1. Merge(a, b).known \in
        {k \in [Field -> Host \cup Network \cup Address \cup Stack \cup Service \cup {Absent}] :
           /\ k["host"] \in Host \cup {Absent} /\ k["network"] \in Network \cup {Absent}
           /\ k["ip"] \in Address \cup {Absent} /\ k["stack"] \in Stack \cup {Absent}
           /\ k["service"] \in Service \cup {Absent}}
  BY DEF Merge, ReportType, Field
<1>2. a.labels \cup b.labels \in LabelMap
  <2>1. /\ a.labels \in SUBSET (Text \X Text) /\ b.labels \in SUBSET (Text \X Text)
        /\ \A p, q \in a.labels : p[1] = q[1] => p = q
        /\ \A p, q \in b.labels : p[1] = q[1] => p = q
    BY DEF ReportType, LabelMap
  <2>2. \A p \in a.labels, q \in b.labels : p[1] = q[1] => p[2] = q[2]
    BY DEF Contradicts, ContradictsInLabels
  <2>3. \A p \in a.labels, q \in b.labels : p[1] = q[1] => p = q
    BY <2>1, <2>2
  <2>4. \A p, q \in a.labels \cup b.labels : p[1] = q[1] => p = q
    BY <2>1, <2>3
  <2>. QED BY <2>1, <2>4 DEF LabelMap
<1>3. Merge(a, b).state \in {"running", "stopped", Absent} /\ Merge(a, b).system \in BOOLEAN
  BY DEF Merge, ReportType
<1>4. Merge(a, b).links \in SUBSET Container
  BY DEF Merge, ReportType
<1>5. Merge(a, b).id = a.id /\ a.id \in Container \cup {Absent}
  BY DEF Merge, ReportType
<1>6. Merge(a, b).labels \in LabelMap
  BY <1>2 DEF Merge
<1>. QED BY <1>1, <1>3, <1>4, <1>5, <1>6 DEF Merge, ReportType

(* Merging keeps what either report says, when they do not contradict.     *)
LEMMA MergeCovers ==
  ASSUME NEW a \in ReportType, NEW b \in ReportType, ~Contradicts(a, b)
  PROVE  /\ \A r : Covers(a, r) => Covers(Merge(a, b), r)
         /\ Covers(Merge(a, b), b)
         /\ \A f \in Field : Merge(a, b).known[f] \in {a.known[f], b.known[f]}
<1>1. \A f \in Field : \/ a.known[f] = Absent \/ b.known[f] = Absent
                       \/ a.known[f] = b.known[f]
  BY DEF Contradicts, ContradictsInFields
<1>2. \A f \in Field :
        Merge(a, b).known[f] = IF a.known[f] = Absent THEN b.known[f] ELSE a.known[f]
  BY DEF Merge
<1>3. /\ Merge(a, b).labels = a.labels \cup b.labels
      /\ Merge(a, b).links = a.links \cup b.links
      /\ Merge(a, b).state = IF a.state = Absent \/ b.state = "running" THEN b.state ELSE a.state
  BY DEF Merge
<1>4. Absent # "running"
  BY AbsentAssumption
<1>5. ASSUME NEW r, Covers(a, r) PROVE Covers(Merge(a, b), r)
  BY <1>2, <1>3, <1>4, <1>5 DEF Covers
<1>6. Covers(Merge(a, b), b)
  BY <1>1, <1>2, <1>3, <1>4 DEF Covers
<1>. QED BY <1>2, <1>5, <1>6

LEMMA CoversItself ==
  ASSUME NEW r PROVE Covers(r, r)
BY DEF Covers

LEMMA ReportOfPending ==
  ASSUME PendingInv, ReadInv, phase = "merge", NEW q \in pending
  PROVE  /\ q = <<q[1], q[2]>> /\ q[1] \in Service /\ q[2] \in ReportType
         /\ q[2].id \in Container /\ q[2] \in ReportsOf(q[1], q[2].id)
<1>1. PICK v \in read.views : q \in {v.service} \X {r \in v.reports : r.id # Absent}
  BY DEF PendingInv, Reports
<1>2. v \in ViewType /\ v.service # Absent
  BY DEF ReadInv, PendingInv
<1>3. v.service \in Service /\ v.reports \subseteq ReportType
  BY <1>2 DEF ViewType
<1>4. q[2].id \in Container
  BY <1>1, <1>3 DEF ReportType
<1>5. q[2] \in ReportsOf(q[1], q[2].id)
  BY <1>1 DEF ReportsOf, Variants
<1>. QED BY <1>1, <1>3, <1>4, <1>5

LEMMA InitInv == Init => IInv
<1>. SUFFICES ASSUME Init PROVE IInv
  OBVIOUS
<1>1. ReadInv
  BY DEF Init, ReadInv, Unread
<1>2. NetworkInv /\ PendingInv /\ ReportsInv /\ WorkloadsInv
  BY DEF Init, NetworkInv, PendingInv, ReportsInv, WorkloadsInv
<1>3. MergedInv
  BY DEF Init, MergedInv, Unmerged
<1>. QED BY <1>1, <1>2, <1>3 DEF IInv

(* A step that changes neither what was read nor what was built, and goes to *)
(* a phase that promises no more, keeps the invariant.                     *)
LEMMA IdleStep ==
  ASSUME IInv, UNCHANGED <<read, building>>, world' \in World,
         \/ phase' \in {"refused", "failed"}
         \/ phase' = phase
  PROVE  IInv'
<1>1. \A s, c : ReportsOf(s, c)' = ReportsOf(s, c)
  BY DEF ReportsOf, Variants
<1>2. ReadInv'
  BY DEF IInv, ReadInv
<1>3. NetworkInv' /\ PendingInv'
  BY DEF IInv, NetworkInv, PendingInv, building
<1>4. MergedInv'
  BY <1>1 DEF IInv, MergedInv, building
<1>5. ReportsInv'
  <2>1. CASE phase' = phase
    <3>1. \A s, c : Done(s, c)' = Done(s, c)
      BY <1>1, <2>1 DEF Done, building
    <3>. QED BY <2>1, <3>1 DEF IInv, ReportsInv, building
  <2>2. CASE phase' \in {"refused", "failed"}
    BY <2>2 DEF ReportsInv
  <2>. QED BY <2>1, <2>2
<1>6. WorkloadsInv'
  BY DEF IInv, WorkloadsInv, building
<1>. QED BY <1>2, <1>3, <1>4, <1>5, <1>6 DEF IInv

LEMMA ReadStep ==
  ASSUME IInv, ReadHost \/ ReadNetworks \/ ReadStacks
  PROVE  IInv'
<1>1. /\ phase \in {"host", "networks", "stacks"}
      /\ phase' \in {"networks", "stacks", "build", "refused"}
      /\ merged' = merged /\ merged = Unmerged /\ workloads' = workloads /\ workloads = {}
      /\ world' = world
  BY DEF IInv, ReadHost, ReadNetworks, ReadStacks, building, MergedInv, WorkloadsInv
<1>2. ReadInv'
  <2>1. world \in WorldType
    BY WorldAssumption DEF IInv, ReadInv
  <2>2. world.views \subseteq ViewType /\ world.networks \in Seq(NetworkType)
    BY <2>1 DEF WorldType
  <2>3. CASE ReadHost
    BY <2>3, <1>1 DEF IInv, ReadInv, ReadHost
  <2>4. CASE ReadNetworks
    BY <2>4, <2>2, <1>1 DEF IInv, ReadInv, ReadNetworks
  <2>5. CASE ReadStacks
    BY <2>5, <2>2, <1>1 DEF IInv, ReadInv, ReadStacks
  <2>. QED BY <2>3, <2>4, <2>5
<1>3. NetworkInv' /\ PendingInv' /\ ReportsInv'
  BY <1>1 DEF NetworkInv, PendingInv, ReportsInv
<1>4. MergedInv'
  <2>1. \A s \in Service, c \in Container : merged'[<<s, c>>] = Absent
    BY <1>1 DEF Unmerged
  <2>. QED BY <1>1, <2>1 DEF IInv, MergedInv
<1>5. WorkloadsInv'
  BY <1>1 DEF WorkloadsInv
<1>. QED BY <1>2, <1>3, <1>4, <1>5 DEF IInv

LEMMA BuildStep == IInv /\ BuildServices => IInv'
<1>. SUFFICES ASSUME IInv, BuildServices PROVE IInv'
  OBVIOUS
<1>1. /\ phase = "build" /\ phase' = "merge"
      /\ world' = world /\ read' = read /\ merged' = merged /\ workloads' = workloads
      /\ pending' = Reports(read.views)
  BY DEF BuildServices
<1>2. \A s, c : ReportsOf(s, c)' = ReportsOf(s, c)
  BY <1>1 DEF ReportsOf, Variants
<1>3. ReadInv'
  BY <1>1 DEF IInv, ReadInv
<1>4. NetworkInv'
  BY <1>1 DEF BuildServices, NetworkInv, Eligible
<1>5. PendingInv'
  BY <1>1 DEF BuildServices, Buildable, Listable, PendingInv
<1>6. MergedInv'
  BY <1>1, <1>2 DEF IInv, MergedInv
<1>7. ReportsInv'
  <2>1. ASSUME NEW s \in Service, NEW c \in Container, NEW r \in ReportsOf(s, c)
        PROVE  <<s, r>> \in Reports(read.views)
    <3>1. PICK v \in read.views : v.service = s /\ r \in v.reports
      BY <2>1 DEF ReportsOf, Variants
    <3>2. r.id # Absent
      BY <2>1, AbsentAssumption DEF ReportsOf
    <3>. QED BY <3>1, <3>2 DEF Reports
  <2>2. \A s \in Service, c \in Container : Done(s, c)' = {}
    BY <1>1, <1>2, <2>1 DEF Done
  <2>. QED BY <2>2 DEF ReportsInv
<1>8. WorkloadsInv'
  BY <1>1 DEF IInv, WorkloadsInv
<1>. QED BY <1>3, <1>4, <1>5, <1>6, <1>7, <1>8 DEF IInv

LEMMA MergeStep ==
  ASSUME IInv, NEW q \in pending, MergeReport(q[1], q[2])
  PROVE  IInv'
<1>. DEFINE s0 == q[1]
            r0 == q[2]
            m0 == merged[<<s0, r0.id>>]
            m1 == IF m0 = Absent THEN r0 ELSE Merge(m0, r0)
<1>1. /\ phase = "merge" /\ phase' = "merge"
      /\ world' = world /\ read' = read /\ network' = network /\ workloads' = workloads
      /\ merged' = [merged EXCEPT ![<<s0, r0.id>>] = m1]
      /\ pending' = pending \ {<<s0, r0>>}
      /\ ~Contradicted(s0, r0)
  BY DEF MergeReport
<1>2. /\ q = <<s0, r0>> /\ s0 \in Service /\ r0 \in ReportType
      /\ r0.id \in Container /\ r0 \in ReportsOf(s0, r0.id)
  BY <1>1, ReportOfPending DEF IInv
<1>3. \A s, c : ReportsOf(s, c)' = ReportsOf(s, c)
  BY <1>1 DEF ReportsOf, Variants
<1>4. /\ m0 \in ReportType \cup {Absent}
      /\ m0 # Absent => ~Contradicts(m0, r0) /\ m0.id = r0.id
  BY <1>1, <1>2 DEF IInv, MergedInv, Contradicted
<1>5. /\ m1 \in ReportType /\ m1 # Absent /\ m1.id = r0.id
      /\ Covers(m1, r0)
      /\ m0 # Absent => \A r : Covers(m0, r) => Covers(m1, r)
      /\ \A f \in Field : m1.known[f] = r0.known[f] \/ (m0 # Absent /\ m1.known[f] = m0.known[f])
  <2>1. CASE m0 = Absent
    BY <2>1, <1>2, AbsentIsNoReport, CoversItself
  <2>2. CASE m0 # Absent
    <3>1. m0 \in ReportType /\ ~Contradicts(m0, r0) /\ m1 = Merge(m0, r0)
      BY <2>2, <1>4
    <3>2. m1 \in ReportType /\ m1.id = m0.id
      BY <3>1, <1>2, MergeIsReport
    <3>3. /\ \A r : Covers(m0, r) => Covers(m1, r)
          /\ Covers(m1, r0)
          /\ \A f \in Field : m1.known[f] \in {m0.known[f], r0.known[f]}
      BY <3>1, <1>2, MergeCovers
    <3>. QED BY <2>2, <3>2, <3>3, <1>4, AbsentIsNoReport
  <2>. QED BY <2>1, <2>2
<1>. HIDE DEF m1
<1>6. /\ merged' \in [Service \X Container -> ReportType \cup {Absent}]
      /\ merged'[<<s0, r0.id>>] = m1
      /\ \A s \in Service, c \in Container :
           <<s, c>> # <<s0, r0.id>> => merged'[<<s, c>>] = merged[<<s, c>>]
  BY <1>1, <1>2, <1>5 DEF IInv, MergedInv
<1>7. ReadInv' /\ NetworkInv' /\ PendingInv' /\ WorkloadsInv'
  BY <1>1 DEF IInv, ReadInv, NetworkInv, PendingInv, WorkloadsInv
<1>8. MergedInv'
  <2>1. ASSUME NEW s \in Service, NEW c \in Container, merged'[<<s, c>>] # Absent
        PROVE  /\ merged'[<<s, c>>].id = c
               /\ \A f \in Field :
                    \E r \in ReportsOf(s, c) : r.known[f] = merged'[<<s, c>>].known[f]
    <3>1. CASE <<s, c>> = <<s0, r0.id>>
      <4>1. s = s0 /\ c = r0.id /\ merged'[<<s, c>>] = m1
        BY <3>1, <1>6
      <4>2. ASSUME NEW f \in Field
            PROVE  \E r \in ReportsOf(s0, r0.id) : r.known[f] = m1.known[f]
        <5>1. CASE m1.known[f] = r0.known[f]
          BY <5>1, <1>2
        <5>2. CASE m0 # Absent /\ m1.known[f] = m0.known[f]
          BY <5>2, <4>2, <1>2 DEF IInv, MergedInv
        <5>. QED BY <5>1, <5>2, <1>5
      <4>. QED BY <4>1, <4>2, <1>5
    <3>2. CASE <<s, c>> # <<s0, r0.id>>
      BY <2>1, <3>2, <1>6 DEF IInv, MergedInv
    <3>. QED BY <3>1, <3>2
  <2>. QED BY <1>1, <1>3, <1>6, <2>1 DEF MergedInv
<1>9. ReportsInv'
  <2>1. ASSUME NEW s \in Service, NEW c \in Container, NEW r \in ReportsOf(s, c),
               <<s, r>> \notin pending \ {<<s0, r0>>}
        PROVE  merged'[<<s, c>>] # Absent /\ Covers(merged'[<<s, c>>], r)
    <3>1. r.id = c
      BY DEF ReportsOf
    <3>2. CASE <<s, r>> = <<s0, r0>>
      BY <3>1, <3>2, <1>5, <1>6
    <3>3. CASE <<s, r>> # <<s0, r0>>
      <4>1. r \in Done(s, c)
        BY <2>1, <3>3 DEF Done
      <4>2. merged[<<s, c>>] # Absent /\ Covers(merged[<<s, c>>], r)
        BY <4>1, <1>1 DEF IInv, ReportsInv
      <4>3. CASE <<s, c>> = <<s0, r0.id>>
        <5>1. m0 # Absent /\ Covers(m0, r) /\ merged'[<<s, c>>] = m1
          BY <4>2, <4>3, <1>6
        <5>. QED BY <5>1, <1>5
      <4>4. CASE <<s, c>> # <<s0, r0.id>>
        BY <4>2, <4>4, <1>6
      <4>. QED BY <4>3, <4>4
    <3>. QED BY <3>2, <3>3
  <2>2. ASSUME NEW s \in Service, NEW c \in Container, NEW r \in Done(s, c)'
        PROVE  merged'[<<s, c>>] # Absent /\ Covers(merged'[<<s, c>>], r)
    <3>1. r \in ReportsOf(s, c) /\ <<s, r>> \notin pending \ {<<s0, r0>>}
      BY <1>1, <1>3 DEF Done
    <3>. QED BY <2>1, <3>1
  <2>. QED BY <2>2, <1>1 DEF ReportsInv, Covers
<1>. QED BY <1>7, <1>8, <1>9 DEF IInv

LEMMA EndStep ==
  ASSUME IInv, EndMerge \/ ReturnSnapshot
  PROVE  IInv'
<1>1. /\ phase \in {"merge", "collect"} /\ pending = {} /\ phase' \in {"collect", "done"}
      /\ world' = world /\ read' = read /\ network' = network /\ merged' = merged
      /\ workloads' = workloads
      /\ phase' = "collect" => pending' = {p \in Service \X Container : merged[p] # Absent}
  BY DEF EndMerge, ReturnSnapshot, building
<1>2. \A s, c : ReportsOf(s, c)' = ReportsOf(s, c)
  BY <1>1 DEF ReportsOf, Variants
<1>3. ReadInv' /\ NetworkInv' /\ PendingInv' /\ WorkloadsInv'
  BY <1>1 DEF IInv, ReadInv, NetworkInv, PendingInv, WorkloadsInv
<1>4. MergedInv'
  BY <1>1, <1>2 DEF IInv, MergedInv
<1>5. ReportsInv'
  <2>1. ASSUME NEW s \in Service, NEW c \in Container, NEW r \in Done(s, c)'
        PROVE  merged[<<s, c>>] # Absent /\ Covers(merged[<<s, c>>], r)
    <3>1. r \in Done(s, c)
      BY <1>1, <1>2 DEF Done
    <3>. QED BY <3>1, <1>1 DEF IInv, ReportsInv
  <2>. QED BY <2>1, <1>1 DEF ReportsInv, Covers
<1>. QED BY <1>3, <1>4, <1>5 DEF IInv

(* A container goes on the list with the address and the network that its   *)
(* merged report has, and so that some report of it has.                   *)
LEMMA CollectStep ==
  ASSUME IInv, NEW p \in pending, SkipContainer(p) \/ CollectContainer(p)
  PROVE  IInv'
<1>1. /\ phase = "collect" /\ phase' = "collect" /\ world' = world /\ read' = read
      /\ network' = network /\ merged' = merged /\ pending' = pending \ {p}
      /\ p \in Service \X Container /\ merged[p] # Absent /\ p = <<p[1], p[2]>>
  BY DEF SkipContainer, CollectContainer, IInv, PendingInv
<1>2. \A s, c : ReportsOf(s, c)' = ReportsOf(s, c)
  BY <1>1 DEF ReportsOf, Variants
<1>3. ReadInv' /\ NetworkInv' /\ PendingInv'
  BY <1>1 DEF IInv, ReadInv, NetworkInv, PendingInv
<1>4. MergedInv'
  BY <1>1, <1>2 DEF IInv, MergedInv
<1>5. ReportsInv'
  <2>1. ASSUME NEW s \in Service, NEW c \in Container, NEW r \in Done(s, c)'
        PROVE  merged[<<s, c>>] # Absent /\ Covers(merged[<<s, c>>], r)
    <3>1. r \in Done(s, c)
      BY <1>1, <1>2 DEF Done
    <3>. QED BY <3>1, <1>1 DEF IInv, ReportsInv
  <2>. QED BY <2>1, <1>1 DEF ReportsInv, Covers
<1>6. WorkloadsInv'
  <2>1. CASE SkipContainer(p)
    BY <2>1, <1>1 DEF SkipContainer, IInv, WorkloadsInv
  <2>2. CASE CollectContainer(p)
    <3>1. PICK w \in Candidates(p) : ~Collides(w) /\ workloads' = workloads \cup {w}
      BY <2>2 DEF CollectContainer
    <3>2. merged[p].id = p[2] /\ p[1] \in Service /\ p[2] \in Container
      BY <1>1 DEF IInv, MergedInv
    <3>3. w.id = p[2] /\ w.service = p[1] /\ w.ip = merged[p].known["ip"]
      BY <3>1, <3>2 DEF Candidates, WorkloadOf
    <3>4. Runs(merged[p], network)
      BY <2>2 DEF CollectContainer
    <3>5. /\ w.ip \in network.subnet
          /\ merged[<<w.service, w.id>>] # Absent
          /\ merged[<<w.service, w.id>>].known["network"] = network.id
      BY <1>1, <3>3, <3>4 DEF Runs
    <3>6. \A v \in workloads : v.id = w.id => v = w
      BY <3>1 DEF Collides
    <3>7. \A u, v \in workloads \cup {w} : u.id = v.id => u = v
      BY <3>6 DEF IInv, WorkloadsInv
    <3>8. \A v \in workloads \cup {w} :
            /\ v.id \in Container /\ v.service \in Service /\ v.ip \in network.subnet
            /\ merged[<<v.service, v.id>>] # Absent
            /\ merged[<<v.service, v.id>>].known["network"] = network.id
      BY <3>2, <3>3, <3>5 DEF IInv, WorkloadsInv
    <3>. QED BY <1>1, <3>1, <3>7, <3>8 DEF WorkloadsInv
  <2>. QED BY <2>1, <2>2
<1>. QED BY <1>3, <1>4, <1>5, <1>6 DEF IInv

LEMMA NextPollStep == IInv /\ NextPoll => IInv'
<1>. SUFFICES ASSUME IInv, NextPoll PROVE IInv'
  OBVIOUS
<1>1. ReadInv'
  BY DEF IInv, ReadInv, NextPoll, Unread
<1>2. NetworkInv' /\ PendingInv' /\ ReportsInv' /\ WorkloadsInv'
  BY DEF NextPoll, NetworkInv, PendingInv, ReportsInv, WorkloadsInv
<1>3. MergedInv'
  BY DEF NextPoll, MergedInv, Unmerged
<1>. QED BY <1>1, <1>2, <1>3 DEF IInv

LEMMA StepInv == IInv /\ [Next]_vars => IInv'
<1>. SUFFICES ASSUME IInv, [Next]_vars PROVE IInv'
  OBVIOUS
<1>0. world \in World
  BY DEF IInv, ReadInv
<1>1. CASE UNCHANGED vars
  BY <1>0, <1>1, IdleStep DEF vars, building, links
<1>2. CASE MetadataChanges \/ RequestFails
  BY <1>0, <1>2, IdleStep DEF MetadataChanges, RequestFails
<1>3. CASE ReadHost \/ ReadNetworks \/ ReadStacks
  BY <1>3, ReadStep
<1>4. CASE RefuseTopology
  BY <1>0, <1>4, IdleStep DEF RefuseTopology, Refuse
<1>5. CASE BuildServices
  BY <1>5, BuildStep
<1>6. CASE MergeNext
  <2>1. PICK q \in pending : MergeReport(q[1], q[2]) \/ RefuseReport(q[1], q[2])
    BY <1>6 DEF MergeNext
  <2>2. CASE MergeReport(q[1], q[2])
    BY <2>2, MergeStep
  <2>3. CASE RefuseReport(q[1], q[2])
    BY <1>0, <2>3, IdleStep DEF RefuseReport, Refuse
  <2>. QED BY <2>1, <2>2, <2>3
<1>7. CASE EndMerge \/ ReturnSnapshot
  BY <1>7, EndStep
<1>8. CASE CollectNext
  <2>1. PICK p \in pending : SkipContainer(p) \/ CollectContainer(p) \/ RefuseContainer(p)
    BY <1>8 DEF CollectNext
  <2>2. CASE SkipContainer(p) \/ CollectContainer(p)
    BY <2>2, CollectStep
  <2>3. CASE RefuseContainer(p)
    BY <1>0, <2>3, IdleStep DEF RefuseContainer, Refuse
  <2>. QED BY <2>1, <2>2, <2>3
<1>9. CASE NextPoll
  BY <1>9, NextPollStep
<1>. QED BY <1>1, <1>2, <1>3, <1>4, <1>5, <1>6, <1>7, <1>8, <1>9 DEF Next

LEMMA Invariance == Spec => []IInv
BY InitInv, StepInv, PTL DEF Spec

-----------------------------------------------------------------------------
(* Merging loses no report of a container and overwrites none, in whatever  *)
(* order its views are met.                                                *)
THEOREM MergingLosesNothing == Spec => []MergedViewsAgree
<1>1. IInv => MergedViewsAgree
  <2>. SUFFICES ASSUME IInv, NEW s \in Service, NEW c \in Container, merged[<<s, c>>] # Absent
       PROVE  LET m == merged[<<s, c>>]
                  mergedReports ==
                    IF phase = "merge" THEN {r \in ReportsOf(s, c) : <<s, r>> \notin pending}
                    ELSE ReportsOf(s, c)
              IN /\ \A f \in Field : m.known[f] # Absent =>
                      \E r \in ReportsOf(s, c) : r.known[f] = m.known[f]
                 /\ phase \in {"merge", "collect", "done"} => \A r \in mergedReports :
                      /\ \A f \in Field : r.known[f] \in {Absent, m.known[f]}
                      /\ r.labels \subseteq m.labels /\ r.links \subseteq m.links
                      /\ r.state = "running" => m.state = "running"
    BY DEF MergedViewsAgree
  <2>1. \A f \in Field : merged[<<s, c>>].known[f] # Absent =>
          \E r \in ReportsOf(s, c) : r.known[f] = merged[<<s, c>>].known[f]
    BY DEF IInv, MergedInv
  <2>2. ASSUME phase \in {"merge", "collect", "done"}, NEW r \in Done(s, c)
        PROVE  Covers(merged[<<s, c>>], r)
    BY <2>2 DEF IInv, ReportsInv
  <2>. QED BY <2>1, <2>2 DEF Done, Covers
<1>. QED BY <1>1, Invariance, PTL

(* Whatever changed between the three requests, a policy comes with         *)
(* containers of its own network only.                                     *)
THEOREM PolicyMeetsItsNetwork == Spec => []PolicyIsOfItsNetwork
<1>1. IInv => PolicyIsOfItsNetwork
  <2>. SUFFICES ASSUME IInv, phase = "done" PROVE PolicyIsOfItsNetwork
    BY DEF PolicyIsOfItsNetwork
  <2>1. ASSUME NEW w \in workloads
        PROVE  /\ \E r \in ReportsOf(w.service, w.id) : r.known["network"] = network.id
               /\ \A r \in ReportsOf(w.service, w.id) :
                    r.known["network"] \in {Absent, network.id}
    <3>1. /\ w.service \in Service /\ w.id \in Container
          /\ merged[<<w.service, w.id>>] # Absent
          /\ merged[<<w.service, w.id>>].known["network"] = network.id
      BY DEF IInv, WorkloadsInv
    <3>2. "network" \in Field
      BY DEF Field
    <3>3. \A r \in ReportsOf(w.service, w.id) : Covers(merged[<<w.service, w.id>>], r)
      BY <3>1 DEF IInv, ReportsInv, Done
    <3>4. \E r \in ReportsOf(w.service, w.id) : r.known["network"] = network.id
      BY <3>1, <3>2 DEF IInv, MergedInv
    <3>. QED BY <3>1, <3>2, <3>3, <3>4 DEF Covers
  <2>. QED BY <2>1 DEF IInv, NetworkInv, WorkloadsInv, PolicyIsOfItsNetwork
<1>. QED BY <1>1, Invariance, PTL

(* What Snapshot returns has all that Compile asks of it before the rules.  *)
THEOREM SnapshotsAreWellFormed == Spec => []SnapshotIsWellFormed
<1>1. IInv => SnapshotIsWellFormed
  BY AbsentAssumption DEF IInv, ReadInv, NetworkInv, WorkloadsInv, SnapshotIsWellFormed
<1>. QED BY <1>1, Invariance, PTL
=============================================================================
