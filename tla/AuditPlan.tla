------------------------------ MODULE AuditPlan ------------------------------
(***************************************************************************)
(* The audit (internal/policy/validate.go and plan.go, and runAudit, which  *)
(* calls them): a document is decoded and normalized, or refused, and       *)
(* BuildPlan counts the relationships between workloads that each rule of   *)
(* its policy speaks of.                                                   *)
(*                                                                         *)
(* A document is submitted with lists of stacks, services and workloads,    *)
(* which are sets once it is accepted, and a sequence of rules.  Patterns of *)
(* identifiers, lengths of texts and of the lists within an entry are left  *)
(* out; Absent is a field that is not there, or the empty string.          *)
(***************************************************************************)
EXTENDS Selector, Decoder

CONSTANTS Input,   \* what may be submitted
  MaxStacks, MaxServices, MaxWorkloads, MaxRules, MaxPort   \* limits of model.go; 65535

Within == {"stack", "service", "linked"}

ASSUME LimitAssumption ==
  MaxStacks \in Nat /\ MaxServices \in Nat /\ MaxWorkloads \in Nat
  /\ MaxRules \in Nat /\ MaxPort \in Nat

(* The types of what encoding/json fills the document with (model.go).      *)
RuleType ==
  [within : Within \cup {"other", Absent}, selector : Seq(Written) \cup {Absent},
   group : Text \cup {Absent}, from : Seq(Written) \cup {Absent},
   to : Seq(Written) \cup {Absent}, ports : Seq(Nat \X STRING), action : STRING]

Listings == {"stacks", "services", "workloads"}

(* What a submitted document says, however it lists it.                     *)
Contents(d) == [field \in DOMAIN d |-> IF field \in Listings THEN ToSet(d[field]) ELSE d[field]]

IsDocument(d) ==
  /\ IsFiniteSet(d.stacks) /\ IsFiniteSet(d.services) /\ IsFiniteSet(d.workloads)
  /\ \A s \in d.services :
       /\ DOMAIN s = {"id", "stack", "labels", "primary", "links"}
       /\ s.labels \subseteq Text \X Text
  /\ \A w \in d.workloads :
       /\ DOMAIN w = {"id", "host", "stack", "service", "labels", "links"}
       /\ w.labels \subseteq Text \X Text
  /\ d.rules \in Seq(RuleType)

ASSUME AbsentAssumption ==
  Absent \notin Text \cup Within /\ Absent \notin Seq(Written)

ASSUME DocumentAssumption ==
  \A text \in Input : InputAccepted(text) => IsDocument(Contents(Decoded(text.values[1])))

(* The members of an object are numbered as they are written.               *)
ASSUME InputAssumption ==
  \A text \in Input : Len(text.values) = 1 =>
    \A object \in Objects(text.values[1]) : DOMAIN object.members \subseteq Nat

VARIABLES
  input,
  document,   \* what Decode made of it, then normalized
  phase,      \* "decode", "normalize", "rules", "done" or "refused"
  next,       \* index of the rule to count
  counts      \* RuleCounts and Compilation

vars == <<input, document, phase, next, counts>>

-----------------------------------------------------------------------------
(* validate.go.                                                            *)
Named(things, id) == {t \in things : t.id = id}

(* No identifier is missing, and none is listed twice.                      *)
Identified(things) == \A t \in things : t.id # Absent

ListedOnce(things) == \A i, j \in DOMAIN things : things[i].id = things[j].id => i = j

LabelsAccepted(labels) == \A a, b \in labels : Fold[a[1]] = Fold[b[1]] => a = b

FoldLabels(labels) == {<<Fold[l[1]], Fold[l[2]]>> : l \in labels}

LinksAccepted(thing, things) ==
  /\ IsInjective(thing.links)
  /\ \A i \in DOMAIN thing.links : thing.links[i] # thing.id /\ Named(things, thing.links[i]) # {}

\* Mutant of PrimaryAccepted: the primary may have a primary itself.
PrimaryAcceptedDeep(d, s) ==
  s.primary = Absent \/ \E p \in Named(d.services, s.primary) : p # s /\ p.stack = s.stack

PrimaryAccepted(d, s) ==
  \/ s.primary = Absent
  \/ \E p \in Named(d.services, s.primary) : p # s /\ p.stack = s.stack /\ p.primary = Absent

ServiceAccepted(d, s) ==
  /\ Named(d.stacks, s.stack) # {}
  /\ LabelsAccepted(s.labels)
  /\ PrimaryAccepted(d, s)
  /\ LinksAccepted(s, d.services)

\* Mutant of LabelsInherited: values are compared as they are written.
LabelsInheritedAsWritten(s, w) ==
  \A a \in s.labels, b \in w.labels : a[1] = b[1] => a[2] = b[2]

LabelsInherited(s, w) ==
  \A a \in FoldLabels(s.labels), b \in FoldLabels(w.labels) : a[1] = b[1] => a = b

WorkloadAccepted(d, w) ==
  /\ w.host # Absent
  /\ Named(d.stacks, w.stack) # {}
  /\ \/ w.service = Absent
     \/ \E s \in Named(d.services, w.service) : s.stack = w.stack /\ LabelsInherited(s, w)
  /\ LabelsAccepted(w.labels)
  /\ LinksAccepted(w, d.workloads)

(* normalizePorts; a port is its number and "", "tcp", "udp" or something else. *)
PortsAccepted(ports) ==
  /\ IsInjective(ports)
  /\ \A i \in DOMAIN ports : ports[i][1] \in 1..MaxPort /\ ports[i][2] \in {"", "tcp", "udp"}

(* normalizeRule: exactly one form, and no ports but with from and to.      *)
RuleAccepted(r) ==
  /\ r.action \in {"allow", "deny"}
  /\ \/ /\ r.within \in Within
        /\ r.selector = Absent /\ r.group = Absent /\ r.from = Absent /\ r.to = Absent
        /\ r.ports = << >>
     \/ /\ r.within = Absent /\ r.from = Absent /\ r.to = Absent /\ r.ports = << >>
        /\ \/ r.selector = Absent /\ r.group # Absent
           \/ r.selector # Absent /\ r.group = Absent /\ Accepted(r.selector)
     \/ /\ r.within = Absent /\ r.selector = Absent /\ r.group = Absent
        /\ r.from # Absent /\ r.to # Absent
        /\ Accepted(r.from) /\ Accepted(r.to) /\ PortsAccepted(r.ports)

SizesAccepted(d) ==
  /\ Len(d.stacks) \in 1..MaxStacks /\ Len(d.workloads) \in 1..MaxWorkloads
  /\ Len(d.services) <= MaxServices /\ Len(d.rules) <= MaxRules

ContentsAccepted(d) ==
  /\ d.schema = "v1" /\ d.default \in {"allow", "deny"}
  /\ Identified(d.stacks) /\ Identified(d.services) /\ Identified(d.workloads)
  /\ \A s \in d.services : ServiceAccepted(d, s)
  /\ \A w \in d.workloads : WorkloadAccepted(d, w)
  /\ \E w \in d.workloads : w.host = d.local
  /\ \A i \in DOMAIN d.rules : RuleAccepted(d.rules[i])

DocumentAccepted(d) ==
  /\ SizesAccepted(d)
  /\ ListedOnce(d.stacks) /\ ListedOnce(d.services) /\ ListedOnce(d.workloads)
  /\ ContentsAccepted(Contents(d))

CanonicalOrAbsent(expression) ==
  IF expression = Absent THEN Absent ELSE Canonical(expression)

NormalizeRule(r) ==
  [r EXCEPT !.selector = CanonicalOrAbsent(@), !.from = CanonicalOrAbsent(@),
            !.to = CanonicalOrAbsent(@), !.group = IF @ = Absent THEN Absent ELSE Fold[@]]

Normalized(d) ==
  [d EXCEPT !.services = {[s EXCEPT !.labels = FoldLabels(@)] : s \in @},
            !.workloads = {[w EXCEPT !.labels = FoldLabels(@)] : w \in @},
            !.rules = [i \in DOMAIN @ |-> NormalizeRule(@[i])]]

-----------------------------------------------------------------------------
(* newCompiler.                                                            *)
Root(d, id) ==
  LET s == CHOOSE s \in d.services : s.id = id
  IN IF s.primary = Absent THEN id ELSE s.primary

RootOf(d, w) == IF w.service = Absent THEN Absent ELSE Root(d, w.service)

System(d, w) == \E s \in d.stacks : s.id = w.stack /\ s.system

Labels(d, w) ==
  LET inherited == UNION {s.labels : s \in Named(d.services, w.service)}
  IN w.labels \cup {l \in inherited : \A own \in w.labels : own[1] # l[1]}

Application(d) == {w \in d.workloads : ~System(d, w)}

Here(d, workloads) == {w \in workloads : w.host = d.local}

(* A product per group: local workloads times all workloads of the group.   *)
Products(d, groups) ==
  SumFunction([g \in groups |-> Cardinality(Here(d, g)) * Cardinality(g)])

StackGroups(d) == {{w \in Application(d) : w.stack = s.id} : s \in d.stacks}

ServiceGroups(d) ==
  {{w \in Application(d) : RootOf(d, w) = root} : root \in {Root(d, s.id) : s \in d.services}}

LabelValues(d, key) == {l[2] : l \in {l \in UNION {Labels(d, w) : w \in Application(d)} : l[1] = key}}

LabelGroups(d, key) ==
  {{w \in Application(d) : <<key, value>> \in Labels(d, w)} : value \in LabelValues(d, key)}

(* serviceLinks, between roots, and workloadLinks: both ways.               *)
OneWayLinks(things) ==
  UNION {{t.id} \X {t.links[i] : i \in DOMAIN t.links} : t \in things}

\* Mutant of BothWays: a link is only followed the way it is declared.
OneWay(pairs) == pairs

BothWays(pairs) == pairs \cup {<<p[2], p[1]>> : p \in pairs}

ServiceLinks(d) ==
  BothWays({p \in {<<Root(d, l[1]), Root(d, l[2])>> : l \in OneWayLinks(d.services)} :
              p[1] # p[2]})

WorkloadLinks(d) == BothWays(OneWayLinks(d.workloads))

Sources(d, v) ==
  {u \in Application(d) : \/ <<v.id, u.id>> \in WorkloadLinks(d)
                          \/ <<RootOf(d, v), RootOf(d, u)>> \in ServiceLinks(d)}

Matching(d, expression) ==
  {w \in Application(d) : Matches(ParseOrNil(expression), Labels(d, w))}

-----------------------------------------------------------------------------
(* runAudit.                                                               *)
Init ==
  /\ input \in Input
  /\ document = ZeroConfig
  /\ phase = "decode"
  /\ next = 1
  /\ counts = [relationships |-> 0, portScopes |-> 0, labelGroups |-> 0, zeroMatches |-> 0,
               allow |-> 0]

(* The file cannot be opened or read, or Decode does not take what it holds. *)
ReadFails ==
  /\ phase = "decode"
  /\ phase' = "refused"
  /\ UNCHANGED <<input, document, next, counts>>

Decode ==
  /\ phase = "decode"
  /\ InputAccepted(input)
  /\ phase' = "normalize"
  /\ document' = Decoded(input.values[1])
  /\ UNCHANGED <<input, next, counts>>

Refuse ==
  /\ phase = "normalize"
  /\ ~DocumentAccepted(document)
  /\ phase' = "refused"
  /\ UNCHANGED <<input, document, next, counts>>

Normalize ==
  /\ phase = "normalize"
  /\ DocumentAccepted(document)
  /\ phase' = "rules"
  /\ document' = Normalized(Contents(document))
  /\ UNCHANGED <<input, next, counts>>

Counting == phase = "rules" /\ next <= Len(document.rules)

\* Mutant of Count: the index moves twice.
CountSkipping(relationships, portScopes, labelGroups) ==
  /\ counts' = [counts EXCEPT !.relationships = @ + relationships]
  /\ next' = next + 2
  /\ UNCHANGED <<input, document, phase>>

Count(relationships, portScopes, labelGroups) ==
  /\ counts' = [counts EXCEPT !.relationships = @ + relationships,
                              !.portScopes = @ + portScopes,
                              !.labelGroups = @ + labelGroups,
                              !.zeroMatches = IF relationships = 0 THEN @ + 1 ELSE @,
                              !.allow = IF document.rules[next].action = "allow" THEN @ + 1 ELSE @]
  /\ next' = next + 1
  /\ UNCHANGED <<input, document, phase>>

CountWithinStack ==
  /\ Counting
  /\ document.rules[next].within = "stack"
  /\ Count(Products(document, StackGroups(document)), 0, 0)

CountWithinService ==
  /\ Counting
  /\ document.rules[next].within = "service"
  /\ Count(Products(document, ServiceGroups(document)), 0, 0)

CountWithinLinked ==
  /\ Counting
  /\ document.rules[next].within = "linked"
  /\ LET local == Here(document, Application(document))
     IN Count(SumFunction([v \in local |-> Cardinality(Sources(document, v))]), 0, 0)

CountSelector ==
  /\ Counting
  /\ document.rules[next].selector # Absent
  /\ Count(Products(document, {Matching(document, document.rules[next].selector)}), 0, 0)

CountGroupBy ==
  /\ Counting
  /\ document.rules[next].group # Absent
  /\ LET groups == LabelGroups(document, document.rules[next].group)
     IN Count(Products(document, groups), 0, Cardinality(groups))

CountFromTo ==
  /\ Counting
  /\ document.rules[next].from # Absent
  /\ LET rule == document.rules[next]
         pairs == Cardinality(Matching(document, rule.from))
                    * Cardinality(Here(document, Matching(document, rule.to)))
     IN Count(pairs, pairs * (IF rule.ports = << >> THEN 1 ELSE Len(rule.ports)), 0)

Return ==
  /\ phase = "rules"
  /\ next > Len(document.rules)
  /\ phase' = "done"
  /\ UNCHANGED <<input, document, next, counts>>

Next ==
  \/ ReadFails \/ Decode
  \/ Refuse \/ Normalize
  \/ CountWithinStack \/ CountWithinService \/ CountWithinLinked
  \/ CountSelector \/ CountGroupBy \/ CountFromTo
  \/ Return

Spec == Init /\ [][Next]_vars

-----------------------------------------------------------------------------
(* Properties.                                                             *)
Expressions(d) ==
  UNION {{r.selector, r.from, r.to} \ {Absent} : r \in {d.rules[i] : i \in DOMAIN d.rules}}

(* The index stays within the policy and no count exceeds the rules counted. *)
TypeOK ==
  /\ phase \in {"decode", "normalize", "rules", "done", "refused"}
  /\ next \in 1..(Len(document.rules) + 1)
  /\ \A field \in DOMAIN counts : counts[field] \in Nat
  /\ counts.zeroMatches < next /\ counts.allow < next

(* "Duplicate fields ... are rejected" (README.md:24), so that what is      *)
(* audited is all that was submitted: the document has every member of the  *)
(* input, and inside its values, in the entries of the lists, no member is   *)
(* written over by another.  Keys that differ in case are excluded:         *)
(* decode.go:66 compares them as written, encoding/json does not, and the   *)
(* last one wins.                                                          *)
OneKeyAField(object) ==
  \A i, j \in DOMAIN object.members :
    LET key == object.members[i].key
        other == object.members[j].key
    IN FieldOf[key] = FieldOf[other] => key = other

NothingIsDropped ==
  phase = "normalize" /\ (\A object \in Objects(input.values[1]) : OneKeyAField(object)) =>
    \A object \in Objects(input.values[1]) : \A i \in DOMAIN object.members :
      LET member == object.members[i]
      IN member.value.kind = "atom" =>
           /\ document[FieldOf[member.key]] = member.value.is
           /\ \A keys \in member.value.inside : \A j, k \in DOMAIN keys : keys[j] = keys[k] => j = k

(* "Keys and values are matched case-insensitively.  A negative clause      *)
(* matches only when the label exists and differs" (README.md:77).          *)
Means(expression, labels) ==
  \A i \in DOMAIN expression :
    LET c == expression[i]
        named == {Fold[c.values[j]] : j \in DOMAIN c.values}
    IN \E l \in labels :
         /\ Fold[l[1]] = Fold[c.key]
         /\ c.op \in {"=", "==", "in"} => Fold[l[2]] \in named
         /\ c.op \in {"!=", "notin"} => Fold[l[2]] \notin named

(* MatchSelector finds what an accepted selector says, as it is written and *)
(* for labels as they are written: the binary search finds every value of a *)
(* set clause, in whatever order and case they are listed (selector.go:185). *)
SelectorMeansItsClauses ==
  phase = "normalize" =>
    \A e \in {e \in Expressions(document) : Accepted(e)} : \A w \in ToSet(document.workloads) :
      LabelsAccepted(w.labels) =>
        (Matches(Parse(e), FoldLabels(w.labels)) <=> Means(e, w.labels))

(* A normalized selector is parsed again, each time it is evaluated: it is  *)
(* accepted again and means the same, unless it became too long on the way  *)
(* (selector.go:29).                                                       *)
CanonicalIsStable ==
  phase = "normalize" =>
    \A e \in {e \in Expressions(document) : Accepted(e)} :
      Length(Canonical(e)) <= MaxLength =>
        Accepted(Canonical(e)) /\ Parse(Canonical(e)) = Parse(e)

(* A root is its own root and of the same stack: the relationships within   *)
(* services are those of disjoint groups.                                  *)
RootsAreIdempotent ==
  phase \in {"rules", "done"} =>
    \A s \in document.services :
      \E r \in Named(document.services, Root(document, s.id)) :
        Root(document, r.id) = r.id /\ r.stack = s.stack

(* Which of a workload's and its service's labels is read first never       *)
(* matters: no key has two values (README.md:79).                          *)
LabelsAreUnambiguous ==
  phase \in {"rules", "done"} =>
    \A w \in document.workloads : \A s \in Named(document.services, w.service) :
      \A a, b \in s.labels \cup w.labels : a[1] = b[1] => a = b

(* The policy contract (README.md:66-79): who a rule relates to whom.       *)
Kin(d, a, b) ==
  \E s \in Named(d.services, a), t \in Named(d.services, b) :
    \/ a = b \/ s.primary = b \/ t.primary = a
    \/ s.primary # Absent /\ s.primary = t.primary

Declares(things, from, to) == \E t \in Named(things, from) : \E i \in DOMAIN t.links : t.links[i] = to

Linked(things, a, b) == Declares(things, a, b) \/ Declares(things, b, a)

Says(d, w, expression) ==
  Means(expression, w.labels \cup UNION {s.labels : s \in Named(d.services, w.service)})

ValuesOf(d, w, key) ==
  {l[2] : l \in {l \in w.labels \cup UNION {s.labels : s \in Named(d.services, w.service)} :
                   Fold[l[1]] = Fold[key]}}

Relates(d, r, u, v) ==
  \/ r.within = "stack" /\ u.stack = v.stack
  \/ r.within = "service" /\ Kin(d, u.service, v.service)
  \/ /\ r.within = "linked"
     /\ \/ Linked(d.workloads, u.id, v.id)
        \/ /\ ~Kin(d, u.service, v.service)
           /\ \E s, t \in d.services : /\ Kin(d, s.id, u.service) /\ Kin(d, t.id, v.service)
                                       /\ Linked(d.services, s.id, t.id)
  \/ r.selector # Absent /\ Says(d, u, r.selector) /\ Says(d, v, r.selector)
  \/ r.group # Absent /\ ValuesOf(d, u, r.group) \cap ValuesOf(d, v, r.group) # {}
  \/ r.from # Absent /\ Says(d, u, r.from) /\ Says(d, v, r.to)

Relationships(d, r) ==
  {p \in Application(d) \X Here(d, Application(d)) : Relates(d, r, p[1], p[2])}

(* What a directed rule opens for each pair: any port, or those it lists.    *)
Scopes(r) == IF r.ports = << >> THEN {"any"} ELSE ToSet(r.ports)

(* The estimates are numbers of relationships of the contract: pairs of a   *)
(* workload and a local one, none of them of a system stack, with links     *)
(* taken both ways, and for directed rules once for each port; the label     *)
(* groups are the values a workload has, and no rule that relates nothing    *)
(* goes unnoticed.  A selector whose canonical form is too long is left out: *)
(* plan.go:219 does not look at the error, and counts every workload for it. *)
CountsAreCardinalities ==
  LET rules == document.rules
      counted == 1..(next - 1)
      Pairs(k) == Relationships(document, rules[k])
  IN phase \in {"rules", "done"} /\ (\A e \in Expressions(document) : Accepted(e)) =>
       /\ counts.relationships = SumFunction([k \in counted |-> Cardinality(Pairs(k))])
       /\ counts.zeroMatches = Cardinality({k \in counted : Pairs(k) = {}})
       /\ counts.portScopes =
            SumFunction([k \in {k \in counted : rules[k].from # Absent} |->
                           Cardinality(Pairs(k) \X Scopes(rules[k]))])
       /\ counts.labelGroups =
            SumFunction([k \in {k \in counted : rules[k].group # Absent} |->
                           Cardinality(UNION {ValuesOf(document, w, rules[k].group) :
                                                w \in Application(document)})])
       /\ counts.allow = Cardinality({k \in counted : rules[k].action = "allow"})
=============================================================================
