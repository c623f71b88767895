------------------------------- MODULE Compiler -------------------------------
(***************************************************************************)
(* The live rule compiler (internal/enforcement/compiler.go): Compile turns *)
(* a snapshot of the topology and its policy into the ordered rules of one *)
(* host's table, and RenderNFT (firewall.go) gives them to the kernel.     *)
(*                                                                         *)
(* One step is one policy rule, in the submitted order, with what precedes *)
(* the rules (system workloads) and what follows them (the default).  The  *)
(* address rules that one policy rule yields carry its action, so their    *)
(* order among themselves decides nothing and they form one block.         *)
(*                                                                         *)
(* A selector stands for the set of workloads it matches, and a group_by   *)
(* label for the value each workload has under it.  A policy holds selectors *)
(* in their canonical form, and one that grew past the 1024 bytes of        *)
(* parseSelector on the way (module Selector) cannot be read again: Compile *)
(* returns the error of the first such selector it evaluates.              *)
(***************************************************************************)
EXTENDS Naturals, Sequences, FiniteSets

CONSTANTS
  Workload,  \* the workloads of the topology
  Address,   \* the addresses of packets
  Subnet,    \* those of the managed network
  Host,
  Group,     \* identifiers of stacks and primary services, values of a label
  NoGroup,   \* a workload without primary service, or without the label
  Number,    \* port numbers
  Snapshot   \* the inputs of Compile

Action == {"allow", "deny"}

(* What a rule can tell of a packet but its addresses; <<0, "icmp">> is any *)
(* packet that has no tcp or udp port.                                     *)
Scope == (Number \X {"tcp", "udp"}) \cup {<<0, "icmp">>}

Packet == [from : Address, to : Address, scope : Scope, established : BOOLEAN]

Rule ==
  [form   : {"stack", "service", "linked", "selector", "group", "directed"},
   from   : SUBSET Workload,                      \* between.selector, from
   to     : SUBSET Workload,
   unread : SUBSET {"from", "to"},                \* selectors MatchSelector refuses
   key    : [Workload -> Group \cup {NoGroup}],   \* between.group_by
   ports  : SUBSET (Number \X {"tcp", "udp", ""}),
   action : Action]

SnapshotType ==
  [local          : Host,
   ip             : [Workload -> Subnet],
   host           : [Workload -> Host],
   stack          : [Workload -> Group],
   service        : [Workload -> Group \cup {NoGroup}],
   system         : SUBSET Workload,
   serviceLinks   : SUBSET (Group \X Group),
   containerLinks : SUBSET (Workload \X Workload),
   rules          : Seq(Rule),
   defaultAction  : Action]

ASSUME SubnetAssumption == Subnet \subseteq Address
ASSUME NumberAssumption == Number \subseteq Nat \ {0}  \* see normalizePorts
ASSUME NoGroupAssumption == NoGroup \notin Group
ASSUME SnapshotAssumption == Snapshot \subseteq SnapshotType

AddressRule ==
  [sources : SUBSET Address, destinations : SUBSET Address, scopes : SUBSET Scope]

Block == [rules : SUBSET AddressRule, action : Action]

VARIABLES
  snapshot,   \* the argument of Compile
  phase,      \* "system", "rules", "done", or "failed": an error is returned
  next,       \* index of the policy rule to compile
  plan,       \* plan.Rules, in blocks
  zeroMatch   \* plan.ZeroMatchCount

vars == <<snapshot, phase, next, plan, zeroMatch>>

TypeOK ==
  /\ snapshot \in Snapshot
  /\ phase \in {"system", "rules", "done", "failed"}
  /\ next \in 1..(Len(snapshot.rules) + 1)
  /\ plan \in Seq(Block)
  /\ zeroMatch \in Nat

-----------------------------------------------------------------------------
Application(s) == Workload \ s.system

LocalApplication(s) == {w \in Application(s) : s.host[w] = s.local}

Addresses(s, workloads) == {s.ip[w] : w \in workloads}

(* A port without protocol is both of them; no ports is any packet.        *)
Scopes(ports) ==
  IF ports = {} THEN Scope
  ELSE {sc \in Scope : sc \in ports \/ <<sc[1], "">> \in ports}

(* appendAddressRule, for the source and destination workloads of one call; *)
(* a call without sources or without destinations appends nothing.         *)
AddressRules(s, rule, ends) ==
  {[sources      |-> Addresses(s, e.sources),
    destinations |-> Addresses(s, e.destinations),
    scopes       |-> Scopes(rule.ports)] :
     e \in {d \in ends : d.sources # {} /\ d.destinations # {}}}

Ends(sources, destinations) ==
  [sources |-> sources, destinations |-> destinations]

(* The groups of compileWithin and of between.group_by.                    *)
GroupEnds(s, key) ==
  {Ends({w \in Application(s) : key[w] = g},
        {w \in LocalApplication(s) : key[w] = g}) : g \in Group}

(* compileLinked: towards the target of a link, from all its sources.      *)
LinkedEnds(s) ==
  {Ends({w \in Application(s) :
           s.service[w] # NoGroup /\ <<s.service[w], target>> \in s.serviceLinks},
        {w \in LocalApplication(s) : s.service[w] = target}) : target \in Group}
  \cup
  {Ends({w \in Application(s) : <<w, target>> \in s.containerLinks}, {target}) :
     target \in LocalApplication(s)}

SelectorEnds(s, rule) ==
  {Ends(Application(s) \cap rule.from, LocalApplication(s) \cap rule.from)}

DirectedEnds(s, rule) ==
  {Ends(Application(s) \cap rule.from, LocalApplication(s) \cap rule.to)}

\* Mutant of SelectorFails: the error is not looked at, as in plan.go:219.
SelectorErrorIgnored(s, rule) == FALSE

(* The error returns of compileBetween and compileDirected: a selector is  *)
(* read once for each workload it is asked about, the selector of the       *)
(* destinations only about those of this host.                             *)
SelectorFails(s, rule) ==
  \/ /\ rule.form \in {"selector", "directed"}
     /\ "from" \in rule.unread /\ Application(s) # {}
  \/ /\ rule.form = "directed"
     /\ "to" \in rule.unread /\ LocalApplication(s) # {}

-----------------------------------------------------------------------------
SystemBlock(s) ==
  [rules  |-> {[sources      |-> Addresses(s, s.system),
                destinations |-> Address,
                scopes       |-> Scope]},
   action |-> "allow"]

DefaultBlock(s) ==
  [rules  |-> {[sources      |-> Address,
                destinations |-> Addresses(s, LocalApplication(s)),
                scopes       |-> Scope]},
   action |-> s.defaultAction]

Init ==
  /\ snapshot \in Snapshot
  /\ phase = "system"
  /\ next = 1
  /\ plan = << >>
  /\ zeroMatch = 0

AllowSystem ==
  /\ phase = "system"
  /\ phase' = "rules"
  /\ plan' = IF snapshot.system = {} THEN plan ELSE Append(plan, SystemBlock(snapshot))
  /\ UNCHANGED <<snapshot, next, zeroMatch>>

Compiling(forms) ==
  /\ phase = "rules"
  /\ next <= Len(snapshot.rules)
  /\ snapshot.rules[next].form \in forms
  /\ ~SelectorFails(snapshot, snapshot.rules[next])

\* Mutants of Emit: a rule is skipped; the block goes in front; ends are
\* counted in place of address rules.
EmitSkipping(ends) ==
  LET rule == snapshot.rules[next]
      rules == AddressRules(snapshot, rule, ends)
  IN /\ plan' = IF rules = {} THEN plan
                ELSE Append(plan, [rules |-> rules, action |-> rule.action])
     /\ zeroMatch' = IF rules = {} THEN zeroMatch + 1 ELSE zeroMatch
     /\ next' = next + 2
     /\ UNCHANGED <<snapshot, phase>>

EmitInFront(ends) ==
  LET rule == snapshot.rules[next]
      rules == AddressRules(snapshot, rule, ends)
  IN /\ plan' = IF rules = {} THEN plan
                ELSE <<[rules |-> rules, action |-> rule.action]>> \o plan
     /\ zeroMatch' = IF rules = {} THEN zeroMatch + 1 ELSE zeroMatch
     /\ next' = next + 1
     /\ UNCHANGED <<snapshot, phase>>

EmitByEnds(ends) ==
  LET rule == snapshot.rules[next]
      rules == AddressRules(snapshot, rule, ends)
  IN /\ plan' = IF rules = {} THEN plan
                ELSE Append(plan, [rules |-> rules, action |-> rule.action])
     /\ zeroMatch' = IF ends = {} THEN zeroMatch + 1 ELSE zeroMatch
     /\ next' = next + 1
     /\ UNCHANGED <<snapshot, phase>>

Emit(ends) ==
  LET rule == snapshot.rules[next]
      rules == AddressRules(snapshot, rule, ends)
  IN /\ plan' = IF rules = {} THEN plan
                ELSE Append(plan, [rules |-> rules, action |-> rule.action])
     /\ zeroMatch' = IF rules = {} THEN zeroMatch + 1 ELSE zeroMatch
     /\ next' = next + 1
     /\ UNCHANGED <<snapshot, phase>>

CompileWithinStack ==
  Compiling({"stack"}) /\ Emit(GroupEnds(snapshot, snapshot.stack))

CompileWithinService ==
  Compiling({"service"}) /\ Emit(GroupEnds(snapshot, snapshot.service))

CompileLinked ==
  Compiling({"linked"}) /\ Emit(LinkedEnds(snapshot))

CompileBetweenSelector ==
  Compiling({"selector"}) /\ Emit(SelectorEnds(snapshot, snapshot.rules[next]))

CompileBetweenGroup ==
  Compiling({"group"}) /\ Emit(GroupEnds(snapshot, snapshot.rules[next].key))

CompileDirected ==
  Compiling({"directed"}) /\ Emit(DirectedEnds(snapshot, snapshot.rules[next]))

(* Compile returns an empty plan with the error.                           *)
RefuseSelector ==
  /\ phase = "rules"
  /\ next <= Len(snapshot.rules)
  /\ SelectorFails(snapshot, snapshot.rules[next])
  /\ phase' = "failed"
  /\ plan' = << >>
  /\ zeroMatch' = 0
  /\ UNCHANGED <<snapshot, next>>

AppendDefault ==
  /\ phase = "rules"
  /\ next = Len(snapshot.rules) + 1
  /\ phase' = "done"
  /\ plan' = IF LocalApplication(snapshot) = {} THEN plan
             ELSE Append(plan, DefaultBlock(snapshot))
  /\ UNCHANGED <<snapshot, next, zeroMatch>>

CompileRule ==
  \/ CompileWithinStack
  \/ CompileWithinService
  \/ CompileLinked
  \/ CompileBetweenSelector
  \/ CompileBetweenGroup
  \/ CompileDirected

Next ==
  \/ AllowSystem
  \/ CompileRule
  \/ RefuseSelector
  \/ AppendDefault

Spec == Init /\ [][Next]_vars

-----------------------------------------------------------------------------
(* What the kernel does with the rules RenderNFT writes: a packet between  *)
(* two addresses of the subnet that opens a connection meets the first     *)
(* rule that matches it, and returns to the host's other chains if none    *)
(* does.                                                                   *)
Matches(block, packet) ==
  \E r \in block.rules : /\ packet.from \in r.sources
                         /\ packet.to \in r.destinations
                         /\ packet.scope \in r.scopes

FirstMatch(rules, packet, i) ==
  /\ i \in DOMAIN rules
  /\ Matches(rules[i], packet)
  /\ \A j \in 1..(i - 1) : ~Matches(rules[j], packet)

Enforced(packet) ==
  packet.from \in Subnet /\ packet.to \in Subnet /\ ~packet.established

Dropped(rules, packet) ==
  /\ Enforced(packet)
  /\ \E i \in DOMAIN rules : FirstMatch(rules, packet, i) /\ rules[i].action = "deny"

-----------------------------------------------------------------------------
(* The policy contract (README.md, "Policy contract"), workload by workload, *)
(* with links taken in the direction the compiler gives them.              *)
SameGroup(key, u, v) == key[u] = key[v] /\ key[u] # NoGroup

Relates(s, rule, u, v) ==
  \/ rule.form = "stack" /\ s.stack[u] = s.stack[v]
  \/ rule.form = "service" /\ SameGroup(s.service, u, v)
  \/ rule.form = "group" /\ SameGroup(rule.key, u, v)
  \/ rule.form = "selector" /\ u \in rule.from /\ v \in rule.from
  \/ rule.form = "directed" /\ u \in rule.from /\ v \in rule.to
  \/ /\ rule.form = "linked"
     /\ \/ <<u, v>> \in s.containerLinks
        \/ /\ s.service[u] # NoGroup /\ s.service[v] # NoGroup
           /\ <<s.service[u], s.service[v]>> \in s.serviceLinks

(* Rule k speaks of a packet when it relates workloads with its addresses, *)
(* the destination on this host.                                           *)
Applies(s, k, packet) ==
  /\ packet.scope \in Scopes(s.rules[k].ports)
  /\ \E u \in Application(s), v \in LocalApplication(s) :
       /\ s.ip[u] = packet.from
       /\ s.ip[v] = packet.to
       /\ Relates(s, s.rules[k], u, v)

Governs(s, k, packet) ==
  /\ k \in DOMAIN s.rules
  /\ Applies(s, k, packet)
  /\ \A j \in 1..(k - 1) : ~Applies(s, j, packet)

ContractDrops(s, packet) ==
  /\ Enforced(packet)
  /\ packet.from \notin Addresses(s, s.system)
  /\ \/ \E k \in DOMAIN s.rules :
          Governs(s, k, packet) /\ s.rules[k].action = "deny"
     \/ /\ \A k \in DOMAIN s.rules : ~Applies(s, k, packet)
        /\ packet.to \in Addresses(s, LocalApplication(s))
        /\ s.defaultAction = "deny"

(* The table drops the packets the contract drops and no others: rules in  *)
(* the submitted order, then the default action; system workloads may      *)
(* start anything; traffic to other hosts' workloads, to system workloads, *)
(* to and from other networks, and replies, pass.                          *)
VerdictIsContract ==
  phase = "done" =>
    \A packet \in Packet : Dropped(plan, packet) <=> ContractDrops(snapshot, packet)

(* A host either guards its workloads with every rule of the policy or is   *)
(* told that it cannot: no table is built from which a rule is missing, or  *)
(* widened, because its selector cannot be read, and nothing else makes     *)
(* Compile fail.  It follows that a policy that was accepted can be refused *)
(* by some hosts only: a host without application workloads still compiles  *)
(* a directed rule whose destinations cannot be read.                      *)
SelectorErrorsRefuse ==
  phase \in {"done", "failed"} =>
    (phase = "failed" <=>
       \E k \in DOMAIN snapshot.rules :
         LET rule == snapshot.rules[k]
         IN \/ /\ rule.form = "selector" /\ "from" \in rule.unread
               /\ \E w \in Workload : w \notin snapshot.system
            \/ /\ rule.form = "directed" /\ "from" \in rule.unread
               /\ \E w \in Workload : w \notin snapshot.system
            \/ /\ rule.form = "directed" /\ "to" \in rule.unread
               /\ \E w \in Workload \ snapshot.system : snapshot.host[w] = snapshot.local)

(* ZeroMatchCount, which /status publishes, is the number of rules that    *)
(* speak of no packet this host could see.                                 *)
ZeroMatchIsHonest ==
  phase # "failed" =>
    zeroMatch = Cardinality({k \in 1..(next - 1) :
                               \A packet \in Packet : ~Applies(snapshot, k, packet)})

(* "Service links and direct workload links are treated as bidirectional   *)
(* relationships for within: linked" (README.md:79).                       *)
LinkedWorkloads(s, u, v) ==
  \/ <<u, v>> \in s.containerLinks
  \/ <<s.service[u], s.service[v]>> \in s.serviceLinks

LinksAreBidirectional ==
  /\ phase = "done"
  /\ snapshot.rules # << >>
  /\ snapshot.rules[1].form = "linked"
  /\ snapshot.rules[1].action = "allow"
  => \A u, v \in LocalApplication(snapshot), packet \in Packet :
       /\ LinkedWorkloads(snapshot, u, v) \/ LinkedWorkloads(snapshot, v, u)
       /\ packet.from = snapshot.ip[u]
       /\ packet.to = snapshot.ip[v]
       => ~Dropped(plan, packet)
=============================================================================
