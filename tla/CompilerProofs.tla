---------------------------- MODULE CompilerProofs ----------------------------
(***************************************************************************)
(* The compiled table decides every packet as the policy contract does, for *)
(* any topology, any number of rules of any form and any packet.           *)
(***************************************************************************)
EXTENDS Compiler, FiniteSetTheorems, TLAPS

LEMMA SnapshotFields ==
  ASSUME NEW s \in Snapshot
  PROVE  /\ s \in SnapshotType
         /\ s.ip \in [Workload -> Subnet]
         /\ s.rules \in Seq(Rule) /\ Len(s.rules) \in Nat
         /\ DOMAIN s.rules = 1..Len(s.rules)
         /\ s.service \in [Workload -> Group \cup {NoGroup}]
         /\ s.stack \in [Workload -> Group]
         /\ s.system \subseteq Workload
         /\ s.containerLinks \subseteq Workload \X Workload
         /\ s.serviceLinks \subseteq Group \X Group
         /\ s.defaultAction \in Action
BY SnapshotAssumption DEF SnapshotType

-----------------------------------------------------------------------------
(* The ends of a policy rule are right when they join the workloads the    *)
(* contract says it relates, and no others.                                *)
AreEndsOf(ends, s, rule) ==
  /\ \A e \in ends : /\ e.sources \subseteq Application(s)
                     /\ e.destinations \subseteq LocalApplication(s)
  /\ \A u \in Application(s), v \in LocalApplication(s) :
       Relates(s, rule, u, v) <=>
         \E e \in ends : u \in e.sources /\ v \in e.destinations

LEMMA GroupEndsRight ==
  ASSUME NEW s \in Snapshot, NEW key \in [Workload -> Group \cup {NoGroup}],
         NEW rule,
         \A u \in Workload, v \in Workload : Relates(s, rule, u, v) <=> SameGroup(key, u, v)
  PROVE  AreEndsOf(GroupEnds(s, key), s, rule)
<1>. USE DEF AreEndsOf
<1>1. ASSUME NEW e \in GroupEnds(s, key)
      PROVE  /\ e.sources \subseteq Application(s)
             /\ e.destinations \subseteq LocalApplication(s)
             /\ \A u \in e.sources, v \in e.destinations : SameGroup(key, u, v)
  BY NoGroupAssumption DEF GroupEnds, Ends, SameGroup
<1>2. ASSUME NEW u \in Application(s), NEW v \in LocalApplication(s), SameGroup(key, u, v)
      PROVE  \E e \in GroupEnds(s, key) : u \in e.sources /\ v \in e.destinations
  <2>1. key[u] \in Group
    BY <1>2 DEF SameGroup, Application
  <2>2. Ends({w \in Application(s) : key[w] = key[u]},
             {w \in LocalApplication(s) : key[w] = key[u]}) \in GroupEnds(s, key)
    BY <2>1 DEF GroupEnds
  <2>. QED BY <1>2, <2>2 DEF Ends, SameGroup
<1>3. Application(s) \subseteq Workload /\ LocalApplication(s) \subseteq Workload
  BY DEF Application, LocalApplication
<1>. QED BY <1>1, <1>2, <1>3

LEMMA StackEndsRight ==
  ASSUME NEW s \in Snapshot, NEW rule, rule.form = "stack"
  PROVE  AreEndsOf(GroupEnds(s, s.stack), s, rule)
<1>1. s.stack \in [Workload -> Group \cup {NoGroup}]
  BY SnapshotFields
<1>2. \A u \in Workload, v \in Workload : Relates(s, rule, u, v) <=> SameGroup(s.stack, u, v)
  BY SnapshotFields, NoGroupAssumption DEF Relates, SameGroup
<1>. QED BY <1>1, <1>2, GroupEndsRight

LEMMA ServiceEndsRight ==
  ASSUME NEW s \in Snapshot, NEW rule, rule.form = "service"
  PROVE  AreEndsOf(GroupEnds(s, s.service), s, rule)
BY SnapshotFields, GroupEndsRight DEF Relates

LEMMA LabelEndsRight ==
  ASSUME NEW s \in Snapshot, NEW rule \in Rule, rule.form = "group"
  PROVE  AreEndsOf(GroupEnds(s, rule.key), s, rule)
BY GroupEndsRight DEF Relates, Rule

LEMMA SelectorEndsRight ==
  ASSUME NEW s \in Snapshot, NEW rule, rule.form = "selector"
  PROVE  AreEndsOf(SelectorEnds(s, rule), s, rule)
BY DEF AreEndsOf, SelectorEnds, Ends, Relates, LocalApplication

LEMMA DirectedEndsRight ==
  ASSUME NEW s \in Snapshot, NEW rule, rule.form = "directed"
  PROVE  AreEndsOf(DirectedEnds(s, rule), s, rule)
BY DEF AreEndsOf, DirectedEnds, Ends, Relates

LEMMA LinkedEndsRight ==
  ASSUME NEW s \in Snapshot, NEW rule, rule.form = "linked"
  PROVE  AreEndsOf(LinkedEnds(s), s, rule)
<1>. DEFINE ServiceEnds(t) ==
              Ends({w \in Application(s) :
                      s.service[w] # NoGroup /\ <<s.service[w], t>> \in s.serviceLinks},
                   {w \in LocalApplication(s) : s.service[w] = t})
            ContainerEnds(t) ==
              Ends({w \in Application(s) : <<w, t>> \in s.containerLinks}, {t})
<1>1. LinkedEnds(s) = {ServiceEnds(t) : t \in Group}
                      \cup {ContainerEnds(t) : t \in LocalApplication(s)}
  BY DEF LinkedEnds
<1>2. ASSUME NEW e \in LinkedEnds(s)
      PROVE  /\ e.sources \subseteq Application(s)
             /\ e.destinations \subseteq LocalApplication(s)
             /\ \A u \in e.sources, v \in e.destinations : Relates(s, rule, u, v)
  <2>1. CASE \E t \in Group : e = ServiceEnds(t)
    BY <2>1, NoGroupAssumption DEF Ends, Relates
  <2>2. CASE \E t \in LocalApplication(s) : e = ContainerEnds(t)
    BY <2>2 DEF Ends, Relates
  <2>. QED BY <1>1, <1>2, <2>1, <2>2
<1>3. ASSUME NEW u \in Application(s), NEW v \in LocalApplication(s), Relates(s, rule, u, v)
      PROVE  \E e \in LinkedEnds(s) : u \in e.sources /\ v \in e.destinations
  <2>1. CASE <<u, v>> \in s.containerLinks
    <3>1. ContainerEnds(v) \in LinkedEnds(s)
      BY <1>1
    <3>. QED BY <2>1, <3>1 DEF Ends
  <2>2. CASE /\ s.service[u] # NoGroup /\ s.service[v] # NoGroup
             /\ <<s.service[u], s.service[v]>> \in s.serviceLinks
    <3>1. s.service[v] \in Group
      BY <2>2, SnapshotFields DEF LocalApplication, Application
    <3>2. ServiceEnds(s.service[v]) \in LinkedEnds(s)
      BY <1>1, <3>1
    <3>. QED BY <2>2, <3>2 DEF Ends
  <2>. QED BY <1>3, <2>1, <2>2 DEF Relates
<1>. QED BY <1>2, <1>3 DEF AreEndsOf

(* The block of a rule matches the packets the rule speaks of.             *)
LEMMA BlockMatches ==
  ASSUME NEW s \in Snapshot, NEW k \in DOMAIN s.rules, NEW ends,
         AreEndsOf(ends, s, s.rules[k]), NEW packet, NEW action
  PROVE  Matches([rules |-> AddressRules(s, s.rules[k], ends), action |-> action], packet)
           <=> Applies(s, k, packet)
<1>. DEFINE rule == s.rules[k]
            Of(e) == [sources      |-> Addresses(s, e.sources),
                      destinations |-> Addresses(s, e.destinations),
                      scopes       |-> Scopes(rule.ports)]
            Full == {d \in ends : d.sources # {} /\ d.destinations # {}}
<1>1. AddressRules(s, rule, ends) = {Of(e) : e \in Full}
  BY DEF AddressRules
<1>2. Matches([rules |-> AddressRules(s, rule, ends), action |-> action], packet) <=>
        \E e \in Full : /\ packet.from \in Addresses(s, e.sources)
                        /\ packet.to \in Addresses(s, e.destinations)
                        /\ packet.scope \in Scopes(rule.ports)
  <2>1. Matches([rules |-> AddressRules(s, rule, ends), action |-> action], packet) <=>
          \E r \in AddressRules(s, rule, ends) : /\ packet.from \in r.sources
                                                /\ packet.to \in r.destinations
                                                /\ packet.scope \in r.scopes
    BY DEF Matches
  <2>2. (\E r \in AddressRules(s, rule, ends) : /\ packet.from \in r.sources
                                                /\ packet.to \in r.destinations
                                                /\ packet.scope \in r.scopes) <=>
        \E e \in Full : /\ packet.from \in Of(e).sources
                        /\ packet.to \in Of(e).destinations
                        /\ packet.scope \in Of(e).scopes
    <3>. HIDE DEF Of, Full
    <3>. QED BY <1>1
  <2>. QED BY <2>1, <2>2
<1>3. (\E e \in Full : /\ packet.from \in Addresses(s, e.sources)
                       /\ packet.to \in Addresses(s, e.destinations)
                       /\ packet.scope \in Scopes(rule.ports)) <=>
      (/\ packet.scope \in Scopes(rule.ports)
       /\ \E e \in ends : \E u \in e.sources, v \in e.destinations :
            s.ip[u] = packet.from /\ s.ip[v] = packet.to)
  BY DEF Addresses
<1>. QED BY <1>2, <1>3 DEF AreEndsOf, Applies

-----------------------------------------------------------------------------
(* How the first match of a table grows with the table.                    *)
Decides(table, packet, action) ==
  \E i \in DOMAIN table : FirstMatch(table, packet, i) /\ table[i].action = action

SaysNothing(table, packet) == \A i \in DOMAIN table : ~Matches(table[i], packet)

LEMMA AppendShape ==
  ASSUME NEW S, NEW table \in Seq(S), NEW block
  PROVE  /\ DOMAIN Append(table, block) = 1..(Len(table) + 1)
         /\ DOMAIN table = 1..Len(table) /\ Len(table) \in Nat
         /\ \A i \in 1..Len(table) : Append(table, block)[i] = table[i]
         /\ Append(table, block)[Len(table) + 1] = block
OBVIOUS

(* A packet decided stays decided, and the same way.                       *)
LEMMA DecidedStays ==
  ASSUME NEW S, NEW table \in Seq(S), NEW block, NEW packet, NEW action,
         Decides(table, packet, action)
  PROVE  Decides(Append(table, block), packet, action)
<1>. DEFINE longer == Append(table, block)
<1>1. PICK i \in DOMAIN table : FirstMatch(table, packet, i) /\ table[i].action = action
  BY DEF Decides
<1>2. /\ DOMAIN longer = 1..(Len(table) + 1)
      /\ DOMAIN table = 1..Len(table) /\ Len(table) \in Nat
      /\ \A j \in 1..Len(table) : longer[j] = table[j]
  BY AppendShape
<1>. HIDE DEF longer
<1>3. i \in DOMAIN longer /\ longer[i] = table[i]
  BY <1>1, <1>2
<1>4. \A j \in 1..(i - 1) : longer[j] = table[j]
  BY <1>1, <1>2
<1>5. FirstMatch(longer, packet, i)
  BY <1>1, <1>3, <1>4 DEF FirstMatch
<1>6. Decides(longer, packet, action)
  BY <1>1, <1>3, <1>5 DEF Decides
<1>. QED BY <1>6 DEF longer

(* A packet not decided yet is decided by the next block, if it matches.   *)
LEMMA BlockDecides ==
  ASSUME NEW S, NEW table \in Seq(S), NEW block, NEW packet, SaysNothing(table, packet)
  PROVE  /\ Matches(block, packet) => Decides(Append(table, block), packet, block.action)
         /\ ~Matches(block, packet) => SaysNothing(Append(table, block), packet)
<1>. DEFINE longer == Append(table, block)
<1>1. /\ DOMAIN longer = 1..(Len(table) + 1)
      /\ DOMAIN table = 1..Len(table) /\ Len(table) \in Nat
      /\ \A j \in 1..Len(table) : longer[j] = table[j]
      /\ longer[Len(table) + 1] = block
  BY AppendShape
<1>. HIDE DEF longer
<1>2. \A j \in 1..Len(table) : ~Matches(longer[j], packet)
  BY <1>1 DEF SaysNothing
<1>3. ASSUME Matches(block, packet) PROVE Decides(longer, packet, block.action)
  <2>1. FirstMatch(longer, packet, Len(table) + 1)
    BY <1>1, <1>2, <1>3 DEF FirstMatch
  <2>. QED BY <1>1, <2>1 DEF Decides
<1>4. ASSUME ~Matches(block, packet) PROVE SaysNothing(longer, packet)
  BY <1>1, <1>2, <1>4 DEF SaysNothing
<1>. QED BY <1>3, <1>4 DEF longer

LEMMA FirstMatchUnique ==
  ASSUME NEW S, NEW rules \in Seq(S), NEW packet, NEW i, NEW j,
         FirstMatch(rules, packet, i), FirstMatch(rules, packet, j)
  PROVE  i = j
<1>1. i \in Nat /\ j \in Nat /\ i >= 1 /\ j >= 1
  BY DEF FirstMatch
<1>. QED BY <1>1 DEF FirstMatch

-----------------------------------------------------------------------------
(* What the table so far says of a packet.  It has decided it, with some   *)
(* action, or it holds nothing that matches it.                            *)
DecidedAs(packet, action) == Decides(plan, packet, action)

Undecided(packet) == SaysNothing(plan, packet)

FromSystem(packet) == packet.from \in Addresses(snapshot, snapshot.system)

ToLocal(packet) == packet.to \in Addresses(snapshot, LocalApplication(snapshot))

(* No rule compiled so far speaks of the packet.                           *)
Silent(packet) == \A k \in 1..(next - 1) : ~Applies(snapshot, k, packet)

RuleSays(packet, action) ==
  \E k \in 1..(next - 1) :
    Governs(snapshot, k, packet) /\ snapshot.rules[k].action = action

(* The three ways in which the table and the contract can agree.           *)
SystemDecided(packet) == FromSystem(packet) /\ DecidedAs(packet, "allow")

RuleDecided(packet) ==
  /\ ~FromSystem(packet)
  /\ \E action \in Action : RuleSays(packet, action) /\ DecidedAs(packet, action)

NotDecided(packet) ==
  /\ ~FromSystem(packet)
  /\ Silent(packet)
  /\ \/ phase = "rules" /\ Undecided(packet)
     \/ phase = "done" /\ ~ToLocal(packet) /\ Undecided(packet)
     \/ phase = "done" /\ ToLocal(packet) /\ DecidedAs(packet, snapshot.defaultAction)

Agreed(packet) == SystemDecided(packet) \/ RuleDecided(packet) \/ NotDecided(packet)

CompInv ==
  /\ snapshot \in Snapshot
  /\ phase \in {"system", "rules", "done", "failed"}
  /\ next \in Nat /\ next >= 1 /\ next <= Len(snapshot.rules) + 1
  /\ plan \in Seq([rules : SUBSET AddressRule, action : Action])
  /\ phase = "system" => plan = << >> /\ next = 1
  /\ phase = "done" => next = Len(snapshot.rules) + 1
  /\ phase \in {"rules", "done"} => \A packet \in Packet : Agreed(packet)

-----------------------------------------------------------------------------
(* The steps.                                                              *)
LEMMA AppendTyped ==
  ASSUME CompInv, NEW rules \in SUBSET AddressRule, NEW action \in Action
  PROVE  Append(plan, [rules |-> rules, action |-> action])
           \in Seq([rules : SUBSET AddressRule, action : Action])
BY DEF CompInv

LEMMA AddressesTyped ==
  ASSUME NEW s \in Snapshot, NEW workloads \in SUBSET Workload
  PROVE  Addresses(s, workloads) \in SUBSET Address
BY SnapshotFields, SubnetAssumption DEF Addresses

LEMMA AddressRulesTyped ==
  ASSUME NEW s \in Snapshot, NEW rule, NEW ends, AreEndsOf(ends, s, rule)
  PROVE  AddressRules(s, rule, ends) \in SUBSET AddressRule
<1>1. ASSUME NEW e \in ends
      PROVE  [sources      |-> Addresses(s, e.sources),
              destinations |-> Addresses(s, e.destinations),
              scopes       |-> Scopes(rule.ports)] \in AddressRule
  <2>1. e.sources \in SUBSET Workload /\ e.destinations \in SUBSET Workload
    BY DEF AreEndsOf, Application, LocalApplication
  <2>2. Scopes(rule.ports) \in SUBSET Scope
    BY DEF Scopes
  <2>. QED BY <2>1, <2>2, AddressesTyped DEF AddressRule
<1>. QED BY <1>1 DEF AddressRules

LEMMA PacketFields ==
  ASSUME NEW packet \in Packet
  PROVE  packet.from \in Address /\ packet.to \in Address /\ packet.scope \in Scope
BY DEF Packet

LEMMA SystemBlockMatches ==
  ASSUME NEW s, NEW packet \in Packet
  PROVE  Matches(SystemBlock(s), packet) <=> packet.from \in Addresses(s, s.system)
<1>. DEFINE r == [sources |-> Addresses(s, s.system), destinations |-> Address, scopes |-> Scope]
<1>1. SystemBlock(s).rules = {r}
  BY DEF SystemBlock
<1>2. r.sources = Addresses(s, s.system) /\ r.destinations = Address /\ r.scopes = Scope
  OBVIOUS
<1>. HIDE DEF r
<1>. QED BY <1>1, <1>2, PacketFields DEF Matches

LEMMA DefaultBlockMatches ==
  ASSUME NEW s, NEW packet \in Packet
  PROVE  Matches(DefaultBlock(s), packet) <=>
           packet.to \in Addresses(s, LocalApplication(s))
<1>. DEFINE r == [sources |-> Address, destinations |-> Addresses(s, LocalApplication(s)),
                  scopes |-> Scope]
<1>1. DefaultBlock(s).rules = {r}
  BY DEF DefaultBlock
<1>2. /\ r.sources = Address /\ r.scopes = Scope
      /\ r.destinations = Addresses(s, LocalApplication(s))
  OBVIOUS
<1>. HIDE DEF r
<1>. QED BY <1>1, <1>2, PacketFields DEF Matches

LEMMA CompInit == Init => CompInv
BY SnapshotFields DEF Init, CompInv

LEMMA SystemStep ==
  ASSUME CompInv, AllowSystem
  PROVE  CompInv'
<1>0. /\ phase = "system" /\ phase' = "rules" /\ plan = << >> /\ next = 1
      /\ UNCHANGED <<snapshot, next>> /\ snapshot \in Snapshot
  BY DEF AllowSystem, CompInv
<1>1. plan' = IF snapshot.system = {} THEN << >> ELSE <<SystemBlock(snapshot)>>
  BY <1>0 DEF AllowSystem
<1>2. plan' \in Seq([rules : SUBSET AddressRule, action : Action])
  <2>1. Addresses(snapshot, snapshot.system) \in SUBSET Address
    BY <1>0, AddressesTyped, SnapshotFields
  <2>2. {[sources      |-> Addresses(snapshot, snapshot.system),
          destinations |-> Address,
          scopes       |-> Scope]} \in SUBSET AddressRule
    BY <2>1 DEF AddressRule
  <2>3. SystemBlock(snapshot) \in [rules : SUBSET AddressRule, action : Action]
    BY <2>2 DEF SystemBlock, Action
  <2>4. ASSUME NEW S, NEW block \in S PROVE << >> \in Seq(S) /\ <<block>> \in Seq(S)
    OBVIOUS
  <2>5. CASE snapshot.system = {}
    BY <1>1, <2>3, <2>4, <2>5
  <2>6. CASE snapshot.system # {}
    BY <1>1, <2>3, <2>4, <2>6
  <2>. QED BY <2>5, <2>6
<1>3. ASSUME NEW packet \in Packet
      PROVE  Agreed(packet)'
  <2>1. Matches(SystemBlock(snapshot), packet) <=> FromSystem(packet)
    BY SystemBlockMatches DEF FromSystem
  <2>2. SystemBlock(snapshot).action = "allow"
    BY DEF SystemBlock
  <2>3. Silent(packet)'
    BY <1>0 DEF Silent
  <2>4. FromSystem(packet)' <=> FromSystem(packet)
    BY <1>0 DEF FromSystem
  <2>5. CASE snapshot.system = {}
    <3>1. ~FromSystem(packet) /\ Undecided(packet)'
      BY <1>1, <2>5 DEF FromSystem, Addresses, Undecided, SaysNothing
    <3>. QED BY <1>0, <2>3, <2>4, <3>1 DEF Agreed, NotDecided
  <2>6. CASE snapshot.system # {}
    <3>1. plan' = <<SystemBlock(snapshot)>>
      BY <1>1, <2>6
    <3>2. CASE FromSystem(packet)
      <4>1. FirstMatch(plan', packet, 1) /\ plan'[1].action = "allow" /\ 1 \in DOMAIN plan'
        BY <2>1, <2>2, <3>1, <3>2 DEF FirstMatch
      <4>2. DecidedAs(packet, "allow")'
        BY <4>1 DEF DecidedAs, Decides
      <4>. QED BY <2>4, <3>2, <4>2 DEF Agreed, SystemDecided
    <3>3. CASE ~FromSystem(packet)
      <4>1. Undecided(packet)'
        BY <2>1, <3>1, <3>3 DEF Undecided, SaysNothing
      <4>. QED BY <1>0, <2>3, <2>4, <3>3, <4>1 DEF Agreed, NotDecided
    <3>. QED BY <3>2, <3>3
  <2>. QED BY <2>5, <2>6
<1>. QED BY <1>0, <1>2, <1>3 DEF CompInv

(* One policy rule, whatever its form, once its ends are the right ones.   *)
LEMMA EmitStep ==
  ASSUME CompInv, phase = "rules", next <= Len(snapshot.rules), NEW ends,
         AreEndsOf(ends, snapshot, snapshot.rules[next]), Emit(ends)
  PROVE  CompInv'
<1>. DEFINE rule == snapshot.rules[next]
            rules == AddressRules(snapshot, rule, ends)
            block == [rules |-> rules, action |-> rule.action]
<1>0. /\ snapshot \in Snapshot /\ next \in DOMAIN snapshot.rules
      /\ rule \in Rule /\ rule.action \in Action /\ next \in Nat
      /\ Len(snapshot.rules) \in Nat
  <2>1. snapshot \in Snapshot /\ next \in Nat /\ next >= 1
    BY DEF CompInv
  <2>2. /\ snapshot.rules \in Seq(Rule) /\ Len(snapshot.rules) \in Nat
        /\ DOMAIN snapshot.rules = 1..Len(snapshot.rules)
    BY <2>1, SnapshotFields
  <2>3. next \in 1..Len(snapshot.rules)
    BY <2>1, <2>2
  <2>4. rule \in Rule
    BY <2>2, <2>3
  <2>5. rule.action \in Action
    BY <2>4 DEF Rule
  <2>. QED BY <2>1, <2>2, <2>3, <2>4, <2>5
<1>1. /\ plan' = IF rules = {} THEN plan ELSE Append(plan, block)
      /\ next' = next + 1
      /\ UNCHANGED <<snapshot, phase>>
  BY DEF Emit
<1>2. rules \in SUBSET AddressRule
  BY <1>0, AddressRulesTyped
<1>3. plan' \in Seq([rules : SUBSET AddressRule, action : Action])
  <2>1. CASE rules = {}
    BY <1>1, <2>1 DEF CompInv
  <2>2. CASE rules # {}
    <3>. HIDE DEF rules
    <3>. QED BY <1>0, <1>1, <1>2, <2>2, AppendTyped
  <2>. QED BY <2>1, <2>2
<1>4. ASSUME NEW packet \in Packet
      PROVE  Agreed(packet)'
  <2>1. Agreed(packet) /\ phase' = "rules"
    BY <1>1 DEF CompInv
  <2>2. Matches(block, packet) <=> Applies(snapshot, next, packet)
    BY <1>0, BlockMatches
  <2>3. rules = {} => ~Applies(snapshot, next, packet)
    BY <2>2 DEF Matches
  <2>4. FromSystem(packet)' <=> FromSystem(packet)
    BY <1>1 DEF FromSystem
  <2>. HIDE DEF rules, block
  <2>5. ASSUME NEW action, DecidedAs(packet, action)
        PROVE  DecidedAs(packet, action)'
    <3>1. CASE rules = {}
      BY <1>1, <2>5, <3>1 DEF DecidedAs
    <3>2. CASE rules # {}
      <4>1. Decides(Append(plan, block), packet, action)
        BY <2>5, DecidedStays DEF DecidedAs, CompInv
      <4>. QED BY <1>1, <3>2, <4>1 DEF DecidedAs
    <3>. QED BY <3>1, <3>2
  <2>6. ASSUME NEW action, RuleSays(packet, action)
        PROVE  RuleSays(packet, action)'
    BY <1>0, <1>1, <2>6 DEF RuleSays
  <2>7. CASE SystemDecided(packet)
    BY <2>4, <2>5, <2>7 DEF SystemDecided, Agreed
  <2>8. CASE RuleDecided(packet)
    BY <2>4, <2>5, <2>6, <2>8 DEF RuleDecided, Agreed
  <2>9. CASE NotDecided(packet)
    <3>1. ~FromSystem(packet) /\ Silent(packet) /\ Undecided(packet)
      BY <2>9 DEF NotDecided
    <3>2. CASE Applies(snapshot, next, packet)
      <4>1. Governs(snapshot, next, packet)
        BY <1>0, <3>1, <3>2 DEF Governs, Silent
      <4>2. PICK action \in Action : action = rule.action
        BY <1>0
      <4>3. next \in 1..(next' - 1)
        BY <1>0, <1>1
      <4>4. RuleSays(packet, action)'
        BY <1>1, <4>1, <4>2, <4>3 DEF RuleSays
      <4>5. block.action = action
        BY <4>2 DEF block
      <4>6. plan' = Append(plan, block)
        BY <1>1, <2>3, <3>2
      <4>7. Decides(Append(plan, block), packet, block.action)
        BY <2>2, <3>1, <3>2, BlockDecides DEF Undecided, CompInv
      <4>8. DecidedAs(packet, action)'
        BY <4>5, <4>6, <4>7 DEF DecidedAs
      <4>. QED BY <2>4, <3>1, <4>4, <4>8 DEF RuleDecided, Agreed
    <3>3. CASE ~Applies(snapshot, next, packet)
      <4>1. Silent(packet)'
        BY <1>0, <1>1, <3>1, <3>3 DEF Silent
      <4>2. Undecided(packet)'
        <5>1. CASE rules = {}
          BY <1>1, <3>1, <5>1 DEF Undecided
        <5>2. CASE rules # {}
          <6>1. SaysNothing(Append(plan, block), packet)
            BY <2>2, <3>1, <3>3, BlockDecides DEF Undecided, CompInv
          <6>. QED BY <1>1, <5>2, <6>1 DEF Undecided
        <5>. QED BY <5>1, <5>2
      <4>. QED BY <2>1, <2>4, <3>1, <4>1, <4>2 DEF NotDecided, Agreed
    <3>. QED BY <3>2, <3>3
  <2>. QED BY <2>1, <2>7, <2>8, <2>9 DEF Agreed
<1>. QED BY <1>0, <1>1, <1>3, <1>4 DEF CompInv

LEMMA RuleStep ==
  ASSUME CompInv, CompileRule
  PROVE  CompInv'
<1>1. PICK forms : Compiling(forms)
  BY DEF CompileRule, CompileWithinStack, CompileWithinService, CompileLinked,
         CompileBetweenSelector, CompileBetweenGroup, CompileDirected
<1>2. /\ phase = "rules" /\ next <= Len(snapshot.rules) /\ snapshot \in Snapshot
      /\ snapshot.rules[next] \in Rule
  BY <1>1, SnapshotFields DEF Compiling, CompInv
<1>3. CASE CompileWithinStack
  BY <1>2, <1>3, StackEndsRight, EmitStep DEF CompileWithinStack, Compiling
<1>4. CASE CompileWithinService
  BY <1>2, <1>4, ServiceEndsRight, EmitStep DEF CompileWithinService, Compiling
<1>5. CASE CompileLinked
  BY <1>2, <1>5, LinkedEndsRight, EmitStep DEF CompileLinked, Compiling
<1>6. CASE CompileBetweenSelector
  BY <1>2, <1>6, SelectorEndsRight, EmitStep DEF CompileBetweenSelector, Compiling
<1>7. CASE CompileBetweenGroup
  BY <1>2, <1>7, LabelEndsRight, EmitStep DEF CompileBetweenGroup, Compiling
<1>8. CASE CompileDirected
  BY <1>2, <1>8, DirectedEndsRight, EmitStep DEF CompileDirected, Compiling
<1>. QED BY <1>3, <1>4, <1>5, <1>6, <1>7, <1>8 DEF CompileRule

LEMMA RefusalStep ==
  ASSUME CompInv, RefuseSelector
  PROVE  CompInv'
<1>1. << >> \in Seq([rules : SUBSET AddressRule, action : Action])
  OBVIOUS
<1>. QED BY <1>1 DEF CompInv, RefuseSelector

LEMMA DefaultStep ==
  ASSUME CompInv, AppendDefault
  PROVE  CompInv'
<1>0. /\ snapshot \in Snapshot /\ phase = "rules" /\ phase' = "done"
      /\ next = Len(snapshot.rules) + 1 /\ UNCHANGED <<snapshot, next>>
      /\ snapshot.defaultAction \in Action
  BY SnapshotFields DEF AppendDefault, CompInv
<1>1. plan' = IF LocalApplication(snapshot) = {} THEN plan
              ELSE Append(plan, DefaultBlock(snapshot))
  BY DEF AppendDefault
<1>2. plan' \in Seq([rules : SUBSET AddressRule, action : Action])
  <2>1. Addresses(snapshot, LocalApplication(snapshot)) \in SUBSET Address
    BY <1>0, AddressesTyped DEF LocalApplication, Application
  <2>2. {[sources      |-> Address,
          destinations |-> Addresses(snapshot, LocalApplication(snapshot)),
          scopes       |-> Scope]} \in SUBSET AddressRule
    BY <2>1 DEF AddressRule
  <2>3. CASE LocalApplication(snapshot) = {}
    BY <1>1, <2>3 DEF CompInv
  <2>4. CASE LocalApplication(snapshot) # {}
    BY <1>0, <1>1, <2>2, <2>4, AppendTyped DEF DefaultBlock
  <2>. QED BY <2>3, <2>4
<1>3. ASSUME NEW packet \in Packet
      PROVE  Agreed(packet)'
  <2>1. Agreed(packet)
    BY <1>0 DEF CompInv
  <2>2. Matches(DefaultBlock(snapshot), packet) <=> ToLocal(packet)
    BY DefaultBlockMatches DEF ToLocal
  <2>3. LocalApplication(snapshot) = {} => ~ToLocal(packet)
    BY DEF ToLocal, Addresses
  <2>4. /\ FromSystem(packet)' <=> FromSystem(packet)
        /\ ToLocal(packet)' <=> ToLocal(packet)
        /\ Silent(packet)' <=> Silent(packet)
        /\ \A action : RuleSays(packet, action)' <=> RuleSays(packet, action)
    BY <1>0 DEF FromSystem, ToLocal, Silent, RuleSays
  <2>5. ASSUME NEW action, DecidedAs(packet, action)
        PROVE  DecidedAs(packet, action)'
    <3>1. CASE LocalApplication(snapshot) = {}
      BY <1>1, <2>5, <3>1 DEF DecidedAs
    <3>2. CASE LocalApplication(snapshot) # {}
      <4>1. Decides(Append(plan, DefaultBlock(snapshot)), packet, action)
        BY <2>5, DecidedStays DEF DecidedAs, CompInv
      <4>. QED BY <1>1, <3>2, <4>1 DEF DecidedAs
    <3>. QED BY <3>1, <3>2
  <2>6. CASE SystemDecided(packet)
    BY <2>4, <2>5, <2>6 DEF SystemDecided, Agreed
  <2>7. CASE RuleDecided(packet)
    BY <2>4, <2>5, <2>7 DEF RuleDecided, Agreed
  <2>8. CASE NotDecided(packet)
    <3>1. ~FromSystem(packet) /\ Silent(packet) /\ Undecided(packet)
      BY <1>0, <2>8 DEF NotDecided
    <3>2. CASE ToLocal(packet)
      <4>1. plan' = Append(plan, DefaultBlock(snapshot))
        BY <1>1, <2>3, <3>2
      <4>2. Decides(Append(plan, DefaultBlock(snapshot)), packet, DefaultBlock(snapshot).action)
        BY <2>2, <3>1, <3>2, BlockDecides DEF Undecided, CompInv
      <4>3. DefaultBlock(snapshot).action = snapshot'.defaultAction
        BY <1>0 DEF DefaultBlock
      <4>4. DecidedAs(packet, snapshot.defaultAction)'
        BY <4>1, <4>2, <4>3 DEF DecidedAs
      <4>. QED BY <1>0, <2>4, <3>1, <3>2, <4>4 DEF NotDecided, Agreed
    <3>3. CASE ~ToLocal(packet)
      <4>1. Undecided(packet)'
        <5>1. CASE LocalApplication(snapshot) = {}
          BY <1>1, <3>1, <5>1 DEF Undecided
        <5>2. CASE LocalApplication(snapshot) # {}
          <6>1. SaysNothing(Append(plan, DefaultBlock(snapshot)), packet)
            BY <2>2, <3>1, <3>3, BlockDecides DEF Undecided, CompInv
          <6>. QED BY <1>1, <5>2, <6>1 DEF Undecided
        <5>. QED BY <5>1, <5>2
      <4>. QED BY <1>0, <2>4, <3>1, <3>3, <4>1 DEF NotDecided, Agreed
    <3>. QED BY <3>2, <3>3
  <2>. QED BY <2>1, <2>6, <2>7, <2>8 DEF Agreed
<1>. QED BY <1>0, <1>2, <1>3, SnapshotFields DEF CompInv

LEMMA CompStep == CompInv /\ [Next]_vars => CompInv'
<1>. SUFFICES ASSUME CompInv, [Next]_vars PROVE CompInv'
  OBVIOUS
<1>1. CASE UNCHANGED vars
  BY <1>1 DEF vars, CompInv, Agreed, SystemDecided, RuleDecided, NotDecided, DecidedAs,
              Undecided, FromSystem, ToLocal, Silent, RuleSays
<1>. QED BY <1>1, SystemStep, RuleStep, RefusalStep, DefaultStep DEF Next

-----------------------------------------------------------------------------
LEMMA CompImplies == CompInv => VerdictIsContract
<1>. SUFFICES ASSUME CompInv, phase = "done", NEW packet \in Packet
              PROVE  Dropped(plan, packet) <=> ContractDrops(snapshot, packet)
  BY DEF VerdictIsContract
<1>0. /\ Agreed(packet) /\ snapshot \in Snapshot
      /\ next = Len(snapshot.rules) + 1 /\ Len(snapshot.rules) \in Nat
      /\ DOMAIN snapshot.rules = 1..Len(snapshot.rules)
      /\ plan \in Seq([rules : SUBSET AddressRule, action : Action])
  BY SnapshotFields DEF CompInv
<1>1. ASSUME NEW action, DecidedAs(packet, action)
      PROVE  Dropped(plan, packet) <=> Enforced(packet) /\ action = "deny"
  BY <1>0, <1>1, FirstMatchUnique DEF DecidedAs, Decides, Dropped
<1>2. CASE SystemDecided(packet)
  BY <1>1, <1>2 DEF SystemDecided, FromSystem, ContractDrops
<1>3. CASE RuleDecided(packet)
  <2>1. ~FromSystem(packet)
    BY <1>3 DEF RuleDecided
  <2>2. PICK action \in Action : RuleSays(packet, action) /\ DecidedAs(packet, action)
    BY <1>3 DEF RuleDecided
  <2>3. PICK k \in DOMAIN snapshot.rules :
          Governs(snapshot, k, packet) /\ snapshot.rules[k].action = action
    BY <1>0, <2>2 DEF RuleSays
  <2>4. \A j \in DOMAIN snapshot.rules : Governs(snapshot, j, packet) => j = k
    BY <1>0, <2>3 DEF Governs
  <2>5. Applies(snapshot, k, packet)
    BY <2>3 DEF Governs
  <2>6. ContractDrops(snapshot, packet) <=> Enforced(packet) /\ action = "deny"
    BY <2>1, <2>3, <2>4, <2>5 DEF ContractDrops, FromSystem
  <2>. QED BY <1>1, <2>2, <2>6
<1>4. CASE NotDecided(packet)
  <2>1. ~FromSystem(packet) /\ \A k \in DOMAIN snapshot.rules : ~Applies(snapshot, k, packet)
    BY <1>0, <1>4 DEF NotDecided, Silent
  <2>2. ContractDrops(snapshot, packet) <=>
          Enforced(packet) /\ ToLocal(packet) /\ snapshot.defaultAction = "deny"
    BY <2>1 DEF ContractDrops, FromSystem, ToLocal, Governs
  <2>3. CASE ~ToLocal(packet) /\ Undecided(packet)
    BY <2>2, <2>3 DEF Undecided, SaysNothing, Dropped, FirstMatch
  <2>4. CASE ToLocal(packet) /\ DecidedAs(packet, snapshot.defaultAction)
    BY <1>1, <2>2, <2>4
  <2>. QED BY <1>4, <2>3, <2>4 DEF NotDecided
<1>. QED BY <1>0, <1>2, <1>3, <1>4 DEF Agreed

(* For every topology, policy and packet: what the kernel does with the    *)
(* compiled rules is what the policy contract says.                        *)
THEOREM CompiledPolicyIsEnforced == Spec => []VerdictIsContract
BY CompInit, CompStep, CompImplies, PTL DEF Spec

(* The count of rules without effect.                                      *)
Counted == zeroMatch \in Nat

LEMMA CountStep == Counted /\ [Next]_vars => Counted'
BY DEF Counted, Next, vars, AllowSystem, AppendDefault, RefuseSelector, CompileRule, CompileWithinStack,
       CompileWithinService, CompileLinked, CompileBetweenSelector, CompileBetweenGroup,
       CompileDirected, Emit

LEMMA CompTyped == CompInv /\ Counted => TypeOK
<1>. SUFFICES ASSUME CompInv, Counted PROVE TypeOK
  OBVIOUS
<1>1. next \in 1..(Len(snapshot.rules) + 1)
  BY SnapshotFields DEF CompInv
<1>. QED BY <1>1 DEF Counted, CompInv, TypeOK, Block

(* Every variable of Compile keeps its type, for every snapshot: in          *)
(* particular the loop never leaves the policy and every block of the plan  *)
(* is made of address rules.                                               *)
THEOREM CompilerTypeCorrect == Spec => []TypeOK
<1>1. Init => Counted
  BY DEF Counted, Init
<1>. QED BY <1>1, CompInit, CompStep, CountStep, CompTyped, PTL DEF Spec

-----------------------------------------------------------------------------
(* Compile has read every selector of the rules behind it, and has stopped *)
(* at one it cannot read.                                                  *)
ReadSoFar ==
  /\ \A k \in 1..(next - 1) : ~SelectorFails(snapshot, snapshot.rules[k])
  /\ phase = "failed" =>
       next \in DOMAIN snapshot.rules /\ SelectorFails(snapshot, snapshot.rules[next])

LEMMA ReadStep ==
  ASSUME CompInv, ReadSoFar, [Next]_vars
  PROVE  ReadSoFar'
<1>0. next \in Nat /\ next >= 1 /\ next <= Len(snapshot.rules) + 1
      /\ DOMAIN snapshot.rules = 1..Len(snapshot.rules) /\ Len(snapshot.rules) \in Nat
  BY SnapshotFields DEF CompInv
<1>1. CASE UNCHANGED vars \/ AllowSystem \/ AppendDefault
  BY <1>1 DEF vars, AllowSystem, AppendDefault, ReadSoFar
<1>2. CASE RefuseSelector
  BY <1>0, <1>2 DEF RefuseSelector, ReadSoFar
<1>3. CASE CompileRule
  <2>1. ~SelectorFails(snapshot, snapshot.rules[next])
    BY <1>3 DEF CompileRule, CompileWithinStack, CompileWithinService, CompileLinked,
            CompileBetweenSelector, CompileBetweenGroup, CompileDirected, Compiling
  <2>2. snapshot' = snapshot /\ next' = next + 1 /\ phase' = "rules"
    BY <1>3 DEF CompileRule, CompileWithinStack, CompileWithinService, CompileLinked,
            CompileBetweenSelector, CompileBetweenGroup, CompileDirected, Compiling, Emit
  <2>. QED BY <1>0, <2>1, <2>2 DEF ReadSoFar
<1>. QED BY <1>1, <1>2, <1>3 DEF Next

(* Every host guards its workloads with the whole policy or refuses it, and *)
(* refuses it only for a selector it had to read and could not.             *)
THEOREM UnreadSelectorsRefuse == Spec => []SelectorErrorsRefuse
<1>1. Init => ReadSoFar
  BY DEF Init, ReadSoFar
<1>2. CompInv /\ ReadSoFar => SelectorErrorsRefuse
  <2>. SUFFICES ASSUME CompInv, ReadSoFar, phase \in {"done", "failed"}
                PROVE  phase = "failed" <=>
                         \E k \in DOMAIN snapshot.rules :
                           SelectorFails(snapshot, snapshot.rules[k])
    BY DEF SelectorErrorsRefuse, SelectorFails, Application, LocalApplication
  <2>1. phase = "done" => DOMAIN snapshot.rules = 1..(next - 1)
    BY SnapshotFields DEF CompInv
  <2>. QED BY <2>1 DEF ReadSoFar
<1>. QED BY <1>1, <1>2, CompInit, CompStep, ReadStep, PTL DEF Spec

-----------------------------------------------------------------------------
LEMMA SomePair ==
  ASSUME NEW A, NEW B, NEW pairs \in SUBSET (A \X B), pairs # {}
  PROVE  \E a \in A, b \in B : <<a, b>> \in pairs
OBVIOUS

(* A rule yields no address rule exactly when it speaks of no packet.      *)
LEMMA SomeScope ==
  ASSUME NEW ports \in SUBSET (Number \X {"tcp", "udp", ""})
  PROVE  \E sc \in Scope : sc \in Scopes(ports)
<1>1. CASE ports = {}
  <2>1. <<0, "icmp">> \in Scope
    BY DEF Scope
  <2>2. Scopes(ports) = Scope
    BY <1>1 DEF Scopes
  <2>. QED BY <2>1, <2>2, Zenon
<1>2. CASE ports # {}
  <2>1. PICK n \in Number, protocol \in {"tcp", "udp", ""} : <<n, protocol>> \in ports
    <3>. DEFINE Protocol == {"tcp", "udp", ""}
    <3>1. ports \in SUBSET (Number \X Protocol)
      OBVIOUS
    <3>. HIDE DEF Protocol
    <3>2. \E n \in Number, protocol \in Protocol : <<n, protocol>> \in ports
      BY <1>2, <3>1, SomePair
    <3>. QED BY <3>2 DEF Protocol
  <2>2. \A sc \in Scope : sc \in ports \/ <<sc[1], "">> \in ports => sc \in Scopes(ports)
    BY <1>2 DEF Scopes
  <2>3. CASE protocol = ""
    <3>1. <<n, "tcp">> \in Scope
      BY <2>1 DEF Scope
    <3>2. <<n, "tcp">>[1] = n
      OBVIOUS
    <3>3. <<<<n, "tcp">>[1], "">> \in ports
      BY <2>1, <2>3, <3>2
    <3>4. <<n, "tcp">> \in Scopes(ports)
      BY <2>2, <3>1, <3>3
    <3>. QED BY <3>1, <3>4, Zenon
  <2>4. CASE protocol # ""
    <3>1. <<n, protocol>> \in Scope
      BY <2>1, <2>4 DEF Scope
    <3>2. <<n, protocol>> \in Scopes(ports)
      BY <2>1, <2>2, <3>1
    <3>. QED BY <3>1, <3>2, Zenon
  <2>. QED BY <2>3, <2>4
<1>. QED BY <1>1, <1>2

LEMMA EmptyMeansSilent ==
  ASSUME NEW s \in Snapshot, NEW k \in DOMAIN s.rules, NEW ends,
         AreEndsOf(ends, s, s.rules[k])
  PROVE  AddressRules(s, s.rules[k], ends) = {} <=> \A packet \in Packet : ~Applies(s, k, packet)
<1>. DEFINE rule == s.rules[k]
            rules == AddressRules(s, rule, ends)
<1>1. \A packet : Matches([rules |-> rules, action |-> "deny"], packet) <=> Applies(s, k, packet)
  BY BlockMatches
<1>2. ASSUME rules = {}, NEW packet PROVE ~Applies(s, k, packet)
  BY <1>1, <1>2 DEF Matches
<1>3. ASSUME rules # {} PROVE \E packet \in Packet : Applies(s, k, packet)
  <2>1. PICK e \in ends : e.sources # {} /\ e.destinations # {}
    BY <1>3 DEF AddressRules
  <2>2. PICK u \in e.sources, v \in e.destinations : TRUE
    BY <2>1
  <2>3. u \in Application(s) /\ v \in LocalApplication(s)
    BY <2>2 DEF AreEndsOf
  <2>4. Relates(s, rule, u, v)
    BY <2>2, <2>3 DEF AreEndsOf
  <2>5. rule \in Rule
    BY SnapshotFields
  <2>6. PICK sc \in Scope : sc \in Scopes(rule.ports)
    BY <2>5, SomeScope DEF Rule
  <2>7. s.ip[u] \in Address /\ s.ip[v] \in Address
    BY <2>3, SnapshotFields, SubnetAssumption DEF Application, LocalApplication
  <2>. DEFINE packet == [from |-> s.ip[u], to |-> s.ip[v], scope |-> sc, established |-> FALSE]
  <2>8. packet \in Packet
    BY <2>7 DEF Packet
  <2>9. packet.scope = sc /\ packet.from = s.ip[u] /\ packet.to = s.ip[v]
    OBVIOUS
  <2>. HIDE DEF packet
  <2>10. Applies(s, k, packet)
    BY <2>3, <2>4, <2>6, <2>9 DEF Applies
  <2>. QED BY <2>8, <2>10
<1>. QED BY <1>2, <1>3

LEMMA RuleEmits ==
  ASSUME CompInv, CompileRule
  PROVE  /\ snapshot \in Snapshot /\ phase = "rules" /\ next \in DOMAIN snapshot.rules
         /\ next \in Nat /\ next >= 1
         /\ \E ends : AreEndsOf(ends, snapshot, snapshot.rules[next]) /\ Emit(ends)
<1>1. PICK forms : Compiling(forms)
  BY DEF CompileRule, CompileWithinStack, CompileWithinService, CompileLinked,
         CompileBetweenSelector, CompileBetweenGroup, CompileDirected
<1>2. /\ phase = "rules" /\ next \in DOMAIN snapshot.rules /\ snapshot \in Snapshot
      /\ snapshot.rules[next] \in Rule /\ next \in Nat /\ next >= 1
  BY <1>1, SnapshotFields DEF Compiling, CompInv
<1>3. CASE CompileWithinStack
  BY <1>2, <1>3, StackEndsRight DEF CompileWithinStack, Compiling
<1>4. CASE CompileWithinService
  BY <1>2, <1>4, ServiceEndsRight DEF CompileWithinService, Compiling
<1>5. CASE CompileLinked
  BY <1>2, <1>5, LinkedEndsRight DEF CompileLinked, Compiling
<1>6. CASE CompileBetweenSelector
  BY <1>2, <1>6, SelectorEndsRight DEF CompileBetweenSelector, Compiling
<1>7. CASE CompileBetweenGroup
  BY <1>2, <1>7, LabelEndsRight DEF CompileBetweenGroup, Compiling
<1>8. CASE CompileDirected
  BY <1>2, <1>8, DirectedEndsRight DEF CompileDirected, Compiling
<1>. QED BY <1>2, <1>3, <1>4, <1>5, <1>6, <1>7, <1>8 DEF CompileRule

SilentRules == {k \in 1..(next - 1) : \A packet \in Packet : ~Applies(snapshot, k, packet)}

LEMMA SilentRulesFinite == CompInv => IsFiniteSet(SilentRules) /\ next \notin SilentRules
<1>. SUFFICES ASSUME CompInv PROVE IsFiniteSet(SilentRules) /\ next \notin SilentRules
  OBVIOUS
<1>1. IsFiniteSet(1..(next - 1)) /\ next \notin 1..(next - 1)
  BY FS_Interval DEF CompInv
<1>. QED BY <1>1, FS_Subset DEF SilentRules

LEMMA HonestStep ==
  ASSUME CompInv, ZeroMatchIsHonest, [Next]_vars
  PROVE  ZeroMatchIsHonest'
<1>1. CASE UNCHANGED vars \/ AllowSystem \/ AppendDefault \/ RefuseSelector
  BY <1>1 DEF vars, AllowSystem, AppendDefault, RefuseSelector, ZeroMatchIsHonest
<1>2. CASE CompileRule
  <2>1. PICK ends : AreEndsOf(ends, snapshot, snapshot.rules[next]) /\ Emit(ends)
    BY <1>2, RuleEmits
  <2>2. /\ snapshot \in Snapshot /\ next \in DOMAIN snapshot.rules /\ next \in Nat /\ next >= 1
    BY <1>2, RuleEmits
  <2>. DEFINE silent == \A packet \in Packet : ~Applies(snapshot, next, packet)
              rules == AddressRules(snapshot, snapshot.rules[next], ends)
  <2>3. rules = {} <=> silent
    BY <2>1, <2>2, EmptyMeansSilent
  <2>4. /\ zeroMatch' = IF rules = {} THEN zeroMatch + 1 ELSE zeroMatch
        /\ next' = next + 1 /\ snapshot' = snapshot
    BY <2>1 DEF Emit
  <2>5. SilentRules' = IF silent THEN SilentRules \cup {next} ELSE SilentRules
    <3>1. 1..(next' - 1) = (1..(next - 1)) \cup {next}
      BY <2>2, <2>4
    <3>. QED BY <2>4, <3>1 DEF SilentRules
  <2>6. Cardinality(SilentRules \cup {next}) = Cardinality(SilentRules) + 1
    BY SilentRulesFinite, FS_AddElement
  <2>7. zeroMatch = Cardinality(SilentRules)
    BY <1>2, RuleEmits DEF ZeroMatchIsHonest, SilentRules
  <2>8. zeroMatch' = Cardinality(SilentRules')
    <3>. HIDE DEF silent, rules
    <3>. QED BY <2>3, <2>4, <2>5, <2>6, <2>7
  <2>. QED BY <2>8 DEF ZeroMatchIsHonest, SilentRules
<1>. QED BY <1>1, <1>2 DEF Next

(* The count of rules without effect that /status publishes is the number of *)
(* rules that speak of no packet, for every snapshot.                       *)
THEOREM ZeroMatchIsRight == Spec => []ZeroMatchIsHonest
<1>1. Init => ZeroMatchIsHonest
  <2>. SUFFICES ASSUME Init PROVE ZeroMatchIsHonest
    OBVIOUS
  <2>1. next = 1 /\ zeroMatch = 0 /\ 1..(1 - 1) = {}
    BY DEF Init
  <2>2. SilentRules = {}
    BY <2>1 DEF SilentRules
  <2>. QED BY <2>1, <2>2, FS_EmptySet DEF ZeroMatchIsHonest, SilentRules
<1>. QED BY <1>1, CompInit, CompStep, HonestStep, PTL DEF Spec
=============================================================================
