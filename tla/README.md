# A TLA+ verification of the network policy manager

This directory holds TLA+ modules that model the program of this repository,
TLC configurations that check them on small instances, and theorems about them
that TLAPS checks for every value of the constants. `PROJECT.json` lists the
runs, the theorems, the hazards the properties aim at, and for every definition
the source lines it models. Paths below are relative to the repository's root;
line numbers refer to the commit the modules were written from.

## The system

The program is one binary. `serve` runs an agent on every host: it polls the
metadata service, compiles the policy for the workloads of its host and keeps
one nftables table, `inet pasturestack_policy`, equal to the result. `cleanup
--yes` removes that table. Without a command the binary audits a policy
document offline.

| Component | Source | State it keeps | Operations |
|---|---|---|---|
| Reconcile loop | `internal/enforcement/manager.go` | `appliedHash`, `lastPlan`/`havePlan`, `status`, the ticker | `Run`, `reconcile`, `recordFailure`, `Status` |
| Firewall backend | `internal/enforcement/firewall.go` | the kernel's table (outside the process) | `Apply`, `Cleanup`: three nft processes each; `RenderNFT` |
| Serve and cleanup | `cmd/network-policy-manager/main.go` | the port, the context, two channels | `runServe`, `runCleanup` |
| Live compiler | `internal/enforcement/compiler.go` | none | `Compile`, `FailOpenPlan` |
| Metadata client | `internal/enforcement/metadata.go` | none | three GETs, `buildSnapshot` |
| Policy validation, selectors | `internal/policy/validate.go`, `selector.go` | none | `NormalizePolicy`, `MatchSelector` |
| Audit compiler, decoder | `internal/policy/plan.go`, `decode.go` | none | `BuildPlan`, `Decode` |
| Audit command | `cmd/network-policy-manager/main.go` | none | `runAudit`: read, decode, plan, or refuse |
| Health endpoints | `manager.go:181` | none | `/healthz`, `/readyz`, `/status` |

How they interact: `runServe` listens on the health port, starts the HTTP server
and the goroutine of `Run`, and waits for a signal or for either of them.
`reconcile` calls the metadata client, `Compile` and `Apply` in sequence, on one
goroutine; `/status` reads what it published under a lock. Nothing is
persisted: what survives a restart is the table in the kernel, which the next
agent, and any operator with `cleanup --yes`, can change at any time.

What is hard here is therefore not locking. It is that the agent never reads
the kernel's table back: it remembers a digest (`appliedHash`) and trusts it.
Everything that lets the memory and the kernel drift apart, a lost exit status,
a second process, a shutdown that overlaps a start, a failure half way, is where
the hazards are. The compiler is hard in another way: the order of its rules and
the split between local and remote workloads decide every packet.

What makes each component correct:

* backend: the kernel never holds a mixture of two plans, and no replacement
  goes through a moment without a table;
* loop: "ready" is true of the kernel; enforcement is given up only after
  `FailOpenAfter` without success, and then it is given up; it comes back;
* serve: one agent writes at a time; cleanup follows the loop; a signal ends the
  process; a successor ends up enforcing;
* compiler: every packet gets the verdict of the policy contract of `README.md`, or
  the host is told that it cannot have the policy;
* metadata client: what is refused and what is returned depend on what was read,
  not on the order in which it is merged; a snapshot is well formed (one host,
  unique identifiers, addresses in the subnet), which is what `Compile` asks of it
  before it comes to the rules;
* decoder: nothing of what was submitted is silently dropped;
* validation and selectors: normal forms are stable, and mean the same; roots and
  labels are unambiguous;
* audit compiler: its counts are those of the relations of the policy contract.

## Modules

`NFTBackend` models `Apply` and `Cleanup`. A call is a record with the step it
is at (`list`, `check`, `commit`, then `ok` or `failed`), what `tableExists`
returned and whether its context is done. The kernel runs a transaction
atomically; an nft process can fail, be killed before it starts, or commit and be
killed before it exits. A script without `delete table` that meets a table
appends to it: the table is then no longer `exact`. A plan is identified with its
digest: a policy, or the allow-only plan derived from one. The constant `Faults`
selects what the environment may do, so that each property is checked, and
proved, under exactly the faults it survives.

`Manager` EXTENDS it with the loop of one agent: `pc` is the position of the
goroutine, `memory` the fields of `Manager`, one action per outcome of a stage.
`RecordFailure` is part of whatever action fails, as in the code. Instants are
ages, counted in poll intervals. `source` is the policy the next snapshot would
compile to, or `NoPolicy` for every way in which metadata or compilation fail.
Around the loop: ticks, metadata changes, SIGTERM, clock steps, crash, restart
and operators that run `cleanup --yes`.

`Serve` EXTENDS `NFTBackend` with the life of several agents on one host: the
main goroutine of each (port, select, join with its timeout, shutdown, cleanup,
exit) and the loop again, without its clock: whether a failing loop with a policy
in force opens is left open, which covers every clock. A `Run` that refuses the
intervals it was configured with (`manager.go:38-55`) is a loop that is `failed`
from the start (`RunFails`). That this loop may stand
for the one of `Manager` is itself a property: `LoopIsServed` maps `Manager` to a
host of `Serve` with one agent (`Unclocked`) and says that every step in the life of
a container, an operator's own apart, is one that `Serve` allows.

The image runs the binary as the first process of its own PID namespace, so the
end of an agent is the end of the nft it started last, which may or may not have
committed: `CallerDies` is both outcomes.

`Compiler` models `Compile` and what the kernel does with the rules `RenderNFT`
writes. One step is one policy rule. The address rules of one policy rule have one
action, so a block of them is a set. A selector stands for the workloads it
matches. Some cannot be read any more: `NormalizePolicy` keeps the canonical form,
which may be longer than what was submitted, and `MatchSelector` reads it under the
same limit of 1024 bytes. A rule names those of its selectors in `unread`;
`SelectorFails` says when the code comes to read one, which depends on the workloads
of the host, and `RefuseSelector` is `Compile` returning its error. The policy contract is written independently of the compiler, packet by
packet over pairs of workloads (`ContractDrops`), and the compiled table is
compared with it.

`Enforcement` is the abstract specification of an agent: a table that is absent,
enforces a policy or is open, what the agent wants to put there, what a ready
agent vouches for, and how old its last success is. It has no processes, digests
or retries. The table changes in one step to what was wanted; an attempt succeeds
only over its own table; the open table is wanted only when the last success is
stale. `Manager` implements it: `Promise == INSTANCE Enforcement WITH ...` maps
`wanted` to the plan of the agent's call, `table` to the kernel, `published` to a
ready status and `success` to the age of the last success, and `KeepsPromise` is
the abstract specification as a property.

`Metadata` models `Snapshot`. Between the three requests the metadata service may
move to any of its states (`World`). A service is listed in views, a view may be listed twice (`repeats`: the limit
counts listings, not services), and a view reports containers; a network may have
no uuid; `buildSnapshot` is one action per iteration of each of its
loops (views of a service, reports, containers), and the order of the iterations
that follow a listing or a map is left open. A path is the rank of `stack/name`. A
label map whose keys collide once lowered becomes any map that keeps one of each.
A container's own label stands before that of its service, as in the live code.

`Selector` has the selector language as operators: clauses, lengths, parsing,
canonical form, `sort.Strings` as a sorting permutation, the binary search of
`sort.SearchStrings`. `Decoder` has `Decode`: an input is a number of JSON values
of a size; a value is broken, an atom or an object with a sequence of members, and
an atom has `inside` the key sequences of the objects in its arrays, which are
scanned for repeated keys like any other. A
field takes the value of the last member given for it, and of the last object when
several are read into the same struct.
`AuditPlan` EXTENDS both with `NormalizePolicy` and `BuildPlan`. A submitted
document lists its stacks, services and workloads, and an entry may be listed twice;
what is normalized is the sets of what was listed (`Contents`), once the lists are
known to be short enough and to list nothing twice (`SizesAccepted`, `ListedOnce`).
The module is `runAudit`:
decode, normalize, count one rule per step, and refuse at the point where the code
returns an error. The contract it is compared with (`Relates`) is written over
pairs of workloads, without roots, adjacency or group indexes; all five counts that
`Compilation` and `RuleCounts` take from the loop are compared with it: the pairs,
the ports opened for pairs, the values of grouped labels, the rules that relate
nothing and those that allow.

`MCManager`, `MCServe`, `MCCompiler`, `MCMetadata` and `MCAudit` give the
constants small values. Theorems are in `NFTBackendProofs`, `ManagerProofs`
(with the refinement), `ServeProofs`, `CompilerProofs`, `MetadataProofs`,
`SnapshotProofs`, `AuditProofs` and `CountProofs`. Operators marked as mutants are changed forms
of an action or a helper; no specification uses them, and each property is known
to fail when its mutant takes the place of the original.

## Runs

| Run | Instance | Shows |
|---|---|---|
| `manager_operator` | agent and operator, 2 policies, every fault but `list` | `TypeOK`, `ExactlyOneTable`, `NoGap`, `RemovedMeansGone`, `LoopIsServed` |
| `manager_truthful` | agent, 2 policies; nft failures, SIGTERM, crashes | `KeepsPromise`, `ReadyIsEnforced`, `OpensOnlyWhenStale`, `EnforcementReturns`, `StaleIsBounded` |
| `manager_lost_exit` | agent; lost exit status | `EnforcementReturns` fails |
| `manager_shutdown` | agent; SIGTERM | `ShutdownKeepsPolicy` fails |
| `manager_cold_start` | agent; no fault | `AnyStaleTableOpens` fails |
| `serve_safety` | 2 agents, both cleaning up; every fault of the module | `TypeOK`, `CleanupAfterLoop`, `OneWriter` |
| `serve_live` | 2 agents, none cleaning up; nft failures, crashes | `SignalEndsAgent`, `SuccessorEnforces` |
| `serve_cleanup` | 2 agents, the first cleaning up; no fault | `SuccessorEnforces` fails |
| `compiler` | 3 workloads, 2 hosts, up to 2 of 11 rules, 3 of them with a selector that cannot be read | `TypeOK`, `VerdictIsContract`, `ZeroMatchIsHonest`, `SelectorErrorsRefuse` |
| `compiler_links` | the same snapshots | `LinksAreBidirectional` fails |
| `metadata` | two services and a sidekick, changing metadata | `TypeOK`, `MergedViewsAgree`, `RefusalIsDetermined`, `SnapshotIsDetermined`, `PolicyIsOfItsNetwork`, `SnapshotIsWellFormed`, `LinksMeetWorkloads` |
| `audit` | documents of up to 2 rules, and inputs that are none | `TypeOK`, `NothingIsDropped`, `SelectorMeansItsClauses`, `CanonicalIsStable`, `RootsAreIdempotent`, `LabelsAreUnambiguous`, `CountsAreCardinalities` |

The bounds. Two policies are what it takes to return to an earlier one, the
case in which a remembered digest misleads; only policies are ever compared, so a
third adds nothing the two do not show. `StaleLimit = 2` separates "no success in
this poll" from "stale"; `AttemptSpan = 1` lets an attempt span a poll interval,
so that ticks are coalesced and an attempt succeeds with an old timestamp. The
bound limits the length of an attempt to 1 interval, which the code's deadlines
of 10 s imply for the default interval of 20 s. One operator suffices to remove
the table under the agent at every step. Two agents are one update of the image.
In `Compiler` every pair of rules of the catalogue meets in both orders, on
placements with all, some and none of the workloads local, with and without a
shared address, a system workload and links of both kinds; a rule's verdict
depends on pairs of workloads only.

In `Metadata` a service has up to three views and a container up to three
reports: enough for a field that only the second report knows and the third
contradicts, for a container in two services, for views that tie, for keys
that collide once lowered, and for a container's label that contradicts its
service's. Two networks are one that is replaced by another
between two requests. `MaxServices = 3` and `MaxWorkloads = 2` are small so that
both limits are reached, the first one by listing a service twice as well. In `AuditPlan` there are two stacks, one of them a system
stack, a service with a sidekick, another service, up to four workloads on two
hosts, and every form of rule, alone and after a directed one. The selectors have
every operator, values out of order and in both cases, clauses that become equal
once lowered, and spaces that make the canonical form longer than the expression;
with `MaxLength = 20` there are canonical forms on either side of the limit, and
with `MaxInputBytes = 2` an input beyond its own; `MaxStacks = 2` and
`MaxServices = 3` are exceeded by a stack and a service too many. Documents that `NormalizePolicy`
refuses are among them: chains of primaries, identifiers given twice or missing,
entries listed twice, lists that are empty or too long,
unknown links, conflicting labels, bad ports and selectors.

All bounds are constants of the
configurations; the theorems hold for any value of them.

Deadlock is checked except in `compiler`, `compiler_links` and `audit`, where the
function that is modelled returns.

### Fairness

`Manager`: the goroutine runs (`WF` of its steps), time passes, a started nft
process ends or meets its deadline, and nft does not refuse for ever: a call
retried again and again gets through each process some day (`SF` for each of the
three). The last is an assumption about the kernel, not the code; without it
nothing can be enforced. Nothing obliges metadata to return, an operator to act,
a container to restart or a signal to arrive: the liveness properties have such
conditions on their left. `Serve` assumes the same of every agent, the main
goroutine included; nobody is obliged to start one. `Compiler`, `Metadata` and `AuditPlan` state safety only, without
fairness.

### What fails, and why

Five properties state what the documentation says and the code does not do; each
has a run that finds it violated.

* `manager_lost_exit`: an Apply whose nft commits and is killed before it exits
  is an error, and `appliedHash` still names the plan before it. When that policy
  comes back, the digests agree, nothing is applied, and the agent is `ready`
  over the wrong table until the policy changes again.
* `manager_shutdown`: SIGTERM cancels the snapshot in progress; the loop takes
  that for a metadata failure, and an agent whose last success is old enough
  opens the table as it stops, although metadata is back.
* `manager_cold_start`: an agent that restarts without metadata has no plan, so
  the stale bound does not apply to the table it finds.
* `serve_cleanup`: the health port, which alone keeps two agents apart, is freed
  before the cleanup runs. The successor applies, the predecessor deletes, and
  the successor believes its table is there.
* `compiler_links`: `within: linked` is documented and audited as bidirectional,
  and compiled in the direction of the link.

Two more disagreements are in the models of passing runs, whose properties state
what the code does:

* `compiler` (`SelectorErrorsRefuse`): `README.md:81` says "The selector and directed
  forms are compiled by the live agent", and a policy that was accepted can hold a
  selector whose canonical form is too long to be read again. Compiling it then
  fails at every poll of the hosts whose workloads the rule is asked about
  (`compiler.go:208-211`, `257-260`, `265-268`), and enforcement there stays as it
  was or opens. The property says that
  such a rule is never dropped or widened instead. Hosts need not agree: one
  without application workloads compiles a directed rule whose destinations another
  host cannot read.
* `metadata` (`SnapshotIsDetermined`): a label of a container silently overrides
  that of its service in the live path (`metadata.go:253-256`). `README.md:79` says
  "a conflicting value is rejected", which is what the audit does
  (`validate.go:126-130`): the same topology passes the one and fails the other. The
  property says which value the live agent uses; it does not say that the
  documentation agrees.

### Seen while modelling

These are behaviours of the code that no property covers: a property excludes the
case by name or by a precondition, or allows it. They are not runs, because the
documentation is silent or too general to be refuted by one; `PROJECT.json` lists
them as hazards without a property, or says of a hazard which part is left.

* `metadata.go:529`: keys that differ only in case are lowered while iterating over
  a map; which value stays changes from one snapshot to the next, and so may the
  plan, against the "deterministic rule compilation" of `README.md:18`.
* `metadata.go:245`: when the default network is replaced between the second and
  the third request, every container is of another network; the snapshot has no
  workloads and is accepted.
* `plan.go:219` drops the error of parsing a canonical selector. One that became
  too long, because `canonicalClause` writes spaces around `in` and `notin`, has no
  clauses and matches every workload, so the audit's counts of its rule are too
  high. `CountsAreCardinalities` is stated for policies whose canonical selectors
  still parse.
* `decode.go:66` compares keys as written, `encoding/json` in any case: of two
  fields that differ in case, one is dropped, against "Duplicate fields ... are
  rejected" (`README.md:24`). `NothingIsDropped` leaves such keys out.
* `firewall.go:69`: any failure of `nft list` is taken for an absent table, and an
  Apply then adds its rules behind the old ones: the fault `list` of `NFTBackend`,
  which `ExactlyOneTable` excludes.
* `main.go:178` and `main.go:203` report a removal when `nft list` failed for
  another reason than absence, or was cut by its deadline: `RemovedMeansGone`
  claims neither.
* `main.go:203`: an operator's `cleanup --yes` under a serving agent is never noticed:
  the digest test does not read the table back. `NoGap` says who removed it, and the
  liveness properties are stated without operators.
* `metadata.go:236`: two workloads may report one address; the rules of one then
  apply to the other, in the contract of `Compiler` as well, which is about addresses.

## Proofs

TLC checks the small instances; TLAPS proves the following for every set of
callers and policies, every bound, every topology and policy.

* `TypeCorrect`: `Spec => []TypeOK` of `Manager`. Its invariant adds that the
  agent's call is an Apply exactly while `pc` says so and that the other callers
  only clean up.
* `TableIsNeverDropped`: `NoGap`. Only `KernelFrame`'s steps change the kernel,
  and a transaction leaves no table only for a cleanup, which the agent never
  runs.
* `OneExactTable`: `ExactlyOneTable`, unless `"list"` is among the faults. The
  invariant is not inductive as it stands: it needs that an Apply past its list
  that found no table still meets none, because nobody else creates one.
* `ReadinessIsTrue`: `ReadyIsEnforced`, from `ExitStatusIsTruth`: no fault
  separates an exit status from the kernel, and no operator acts. The invariant
  says that the kernel holds the plan of `appliedHash` whenever there is one, or
  that of an Apply that has returned, and that `status` agrees with both.
* `OpensWhenStale`: `OpensOnlyWhenStale`, for a clock that does not step. The
  invariant ties the age read by the attempt to the time since the last success.
* `ServeTypeCorrect`, `CleanupComesLast` and `OneLoopWrites`: `TypeOK`,
  `CleanupAfterLoop` and `OneWriter` of `Serve`, for any number of agents and every fault: while a loop can be in a
  call, its main goroutine stands before the shutdown and holds the port.
* `CompiledPolicyIsEnforced`: `VerdictIsContract`. After each policy rule, either
  the packet comes from a system workload and the first match allows it, or some
  rule governs it and the first match has its action, or no rule so far speaks of
  it and nothing matches. Each form of rule is shown once to produce the right
  ends (`StackEndsRight` ... `LinkedEndsRight`), which makes one argument about
  appending a block enough for all of them.
* `ZeroMatchIsRight` and `CompilerTypeCorrect`: `ZeroMatchIsHonest` and `TypeOK` of
  `Compiler`. The count is the cardinality of the rules that were silent; a block
  of rules is empty exactly when its policy rule speaks of no packet.
* `UnreadSelectorsRefuse`: `SelectorErrorsRefuse`. The invariant says that no rule
  compiled so far had a selector that failed on this host, and that a compilation
  that failed stands at one that does.
* `RemovalIsTrue`: `RemovedMeansGone`, unless `"list"` is among the faults: a
  cleanup that found no table, or committed, leaves none while nobody else creates
  one.
* `LoopImplementsPromise`: `KeepsPromise`, while exit statuses are true, no
  operator acts and the clock does not step (`FaultsAreKept`). Every action of
  `Manager` is shown to map to an action of `Enforcement` or to a stutter, from the
  invariant of `ReadinessIsTrue` and that of `OpensWhenStale`.
* `LoopIsOneOfServe`: `LoopIsServed`, under every fault. `Serve` knows neither
  `lastPlan` nor `FailOpen`; the invariant says that an agent with a last plan that
  has not opened has just that plan in `appliedHash`, so that it opens from what
  `Serve` lets it open from, and does not open again.
* `MergingLosesNothing`, `PolicyMeetsItsNetwork` and `SnapshotsAreWellFormed`:
  `MergedViewsAgree`, `PolicyIsOfItsNetwork` and `SnapshotIsWellFormed` of `Metadata`. The
  invariant says that a merged report covers the reports merged so far and has
  nothing else.
* `SnapshotTypeCorrect`, `RefusalIsOfWhatWasRead`, `SnapshotIsOfWhatWasRead` and
  `LinksAreFound`: `TypeOK`, `RefusalIsDetermined`, `SnapshotIsDetermined` and
  `LinksMeetWorkloads` of `Metadata`. A refusal carries its cause in the invariant:
  two reports merged that disagree, a container collected before under another
  service, or as many collected as are allowed and one more. In the other
  direction, at the end of each loop nothing is left in `pending`, and what was
  collected is `Listed`. Of a service with views the canonical one is kept, which
  is what makes labels a function of what was read, but for the keys of one map
  that differ in case and views that sort as equal: of those the theorem says only
  that the value is one that was written.
* `SelectorsSayWhatTheyMean` and `CanonicalSelectorsStay`: `SelectorMeansItsClauses`
  and `CanonicalIsStable` of `AuditPlan`, for any texts and numbers of values. The
  binary search is a recursive function and the sort a `CHOOSE` of a permutation:
  that the one is defined everywhere and right, and that the other exists, is shown
  by least counterexample (`LeastNatural`).
* `RootsAreRoots` and `LabelsHaveOneValue`: `RootsAreIdempotent` and
  `LabelsAreUnambiguous`. The invariant says that the document being counted is the
  normal form of one that every check accepted.
* `AllThatIsSubmittedIsAudited`: `NothingIsDropped`. The document of the invariant
  is the one decoded from an input that was scanned, arrays included; a field that one member of an
  object is given for is filled from that member, and the object that holds it is
  the only one read into its struct, because no key of either was repeated.
* `CountsAreRight` and `AuditTypeCorrect`: `CountsAreCardinalities` and `TypeOK` of
  `AuditPlan`, for any document, policy and number of rules. The program adds up
  products of group sizes; the contract speaks of pairs. `SumIsCardinality` carries
  the one to the other: a sum is the size of a union of disjoint sets, one per
  summand, and so does not depend on the order of summation. What is left for each
  form of rule is set theory: which pairs the groups of the form make
  (`StackPairs`, `ServicePairs`, `LinkedPairs`, `SelectorPairs`, `GroupPairs`,
  `FromToPairs`), that no pair is in two of them, because a workload has one root and
  one value of a label, and that those are the pairs the contract relates, because
  kin services are those of one root (`KinIsSameRoot`) and a canonical selector
  matches what it says. The inductive invariant (`CountInv`) adds to the property
  that the document is the normal form of an accepted one and that nothing was
  counted before the first rule.

Assumptions: those the modules name (`PlanAssumption`, `SelfAssumption`,
`SnapshotAssumption` and so on: distinguished values are distinct, bounds are
naturals, snapshots are well formed), all evaluated by TLC on every run, and the
ones a theorem states on `Faults`. Those of the audit are what `encoding/json`
guarantees of a filled `Config`: `DocumentAssumption` gives its fields the types of
`model.go` and makes its collections finite, `InputAssumption` numbers the members
of an object, and `AbsentAssumption` tells an absent field from any value.

The prover has no induction over data to cite. Three recursive definitions are
nevertheless proved about, the binary search, the sort and the sum over a set: a
claim is shown by the least natural number for which it fails (`LeastNatural`,
from the well-foundedness of strict inclusion of finite sets), and that the
recursive function exists is one of the claims.

Only model-checked: all liveness (the prover has no rule for fairness and
`ENABLED` here): `EnforcementReturns`, `StaleIsBounded`, `SignalEndsAgent`,
`SuccessorEnforces`; and the five properties that fail. Every safety and action
property of a passing run is a theorem.

## Not modelled

* Health endpoints: the handlers copy the status, which is a variable of
  `Manager`, and keep no state.
* Image, packaging and repository scripts: no part of the running program.
* In `manager.go`, log throttling, failure counts and the counts of `/status`
  other than `ZeroMatchCount`: they change nothing else.
* In `firewall.go`, the error paths of `RenderNFT` for plans that `Compile` does not
  produce. In `compiler.go`, the errors of lines 18-41 for snapshots that are not
  well formed (`SnapshotIsWellFormed` is why they do not occur); the errors of
  selectors that cannot be read again do occur, and are modelled.
* In `metadata.go`, HTTP and JSON syntax, the number of stacks, stacks
  without an identifier or listed twice.
* In `internal/policy`, patterns of identifiers (an empty one excepted), lengths
  of texts, the limits on the labels, links and ports within one entry, the scan of
  a selector for commas and parentheses; the digest, the inventory and the counts of
  rule forms that an audit prints.
* In `main.go`, flags and printing.

What is left out are texts, formats and the limits of one entry: their conditions
are about single values, which unit tests reach and the properties here do not tell apart.

## Order of the development

1. `NFTBackend`, `Manager`, `Serve`, `Compiler`, with the table and the packet.
2. `Enforcement`, and `Manager` shown to implement it.
3. `Metadata`: what a snapshot is made of, in every order.
4. `Selector`, `Decoder`, `AuditPlan`: the offline path against the same contract.
5. The theorems about each, after TLC had agreed with their invariants.

What a next version could take up: a composition of `Metadata` with `Compiler`, so
that two orders of merging are followed to two tables, and of `Compiler` with
`AuditPlan`, so that the audit of a snapshot is compared with its table.
