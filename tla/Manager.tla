------------------------------- MODULE Manager -------------------------------
(***************************************************************************)
(* The reconcile loop of one agent (internal/enforcement/manager.go):      *)
(* Run, reconcile and recordFailure over the firewall backend, with the    *)
(* things that happen to it: metadata that changes, fails and comes back,  *)
(* ticks that arrive during an attempt, SIGTERM, death and restart of the  *)
(* container, steps of the wall clock, and operators who run "cleanup      *)
(* --yes" on the same host.                                                *)
(*                                                                         *)
(* Time is counted in poll intervals.  The source's instants appear as     *)
(* ages: age is time.Now() - status.LastSuccess, nowAge is the value that  *)
(* difference had when reconcile read the clock, nowLag the time since.    *)
(***************************************************************************)
EXTENDS NFTBackend

CONSTANTS
  Self,         \* the agent; the other callers are operators running cleanup
  NoPolicy,     \* metadata fails, or holds nothing Compile accepts
  StaleLimit,   \* FailOpenAfter
  AttemptSpan   \* bound: poll intervals one attempt may last

ASSUME SelfAssumption == Self \in Caller
ASSUME NoPolicyAssumption == NoPolicy \notin Policy
ASSUME StaleLimitAssumption == StaleLimit \in Nat \ {0}  \* checked by Run
ASSUME AttemptSpanAssumption == AttemptSpan \in Nat

VARIABLES
  source,       \* the policy a snapshot would compile to now
  pc,           \* where the goroutine in Run stands
  ticker,       \* the channel of time.NewTicker, which holds one tick
  cancelled,    \* the context of Run is done
  appliedHash,  \* manager.appliedHash
  lastPlan,     \* manager.lastPlan, NoPlan while manager.havePlan is false
  status,       \* Status, PolicySHA256 and FailOpen of manager.status
  age, nowAge, nowLag,
  staleFor      \* history: time since the last success that no clock step moves

memory == <<appliedHash, lastPlan, status>>
ages == <<age, nowAge, nowLag, staleFor>>
vars == <<kernel, call, source, pc, ticker, cancelled, memory, ages>>

Status == [state  : {"starting", "ready", "degraded"},
           digest : Plan \cup {NoPlan},
           open   : BOOLEAN]

TypeOK ==
  /\ BackendTypeOK
  /\ source \in Policy \cup {NoPolicy}
  /\ pc \in {"start", "snapshot", "apply", "open", "idle", "stopped"}
  /\ ticker \in {"none", "empty", "full"}
  /\ cancelled \in BOOLEAN
  /\ appliedHash \in Plan \cup {NoPlan}
  /\ lastPlan \in [kind : {"policy"}, of : Policy] \cup {NoPlan}
  /\ status \in Status
  /\ age \in 0..StaleLimit
  /\ nowAge \in 0..StaleLimit
  /\ nowLag \in 0..AttemptSpan
  /\ staleFor \in 0..StaleLimit

-----------------------------------------------------------------------------
FreshStatus == [state |-> "starting", digest |-> NoPlan, open |-> FALSE]

(* The table an earlier agent left, if any, was applied by the same code.  *)
Init ==
  /\ kernel \in {Exact(plan) : plan \in Plan} \cup {NoTable}
  /\ call = [c \in Caller |-> NoCall]
  /\ source \in Policy \cup {NoPolicy}
  /\ pc = "start"
  /\ ticker = "none"
  /\ cancelled = FALSE
  /\ appliedHash = NoPlan
  /\ lastPlan = NoPlan
  /\ status = FreshStatus
  /\ age = 0 /\ nowAge = 0 /\ nowLag = 0 /\ staleFor = 0

-----------------------------------------------------------------------------
(* The loop of Run.                                                        *)

(* reconcile reads the clock and starts Snapshot.                          *)
BeginAttempt ==
  /\ pc' = "snapshot"
  /\ nowAge' = age
  /\ UNCHANGED <<kernel, call, source, cancelled, memory, age, nowLag, staleFor>>

RunStart ==
  /\ pc = "start"
  /\ BeginAttempt
  /\ UNCHANGED ticker

ReceiveTick ==
  /\ pc = "idle"
  /\ ticker = "full"
  /\ ticker' = "empty"
  /\ BeginAttempt

(* select picks either ready channel: a pending tick may win over Done.    *)
Stop ==
  /\ pc = "idle"
  /\ cancelled
  /\ pc' = "stopped"
  /\ UNCHANGED <<kernel, call, source, ticker, cancelled, memory, ages>>

(* reconcile returns to the loop; Run makes the ticker after the first one. *)
EndAttempt ==
  /\ pc' = "idle"
  /\ ticker' = IF ticker = "none" THEN "empty" ELSE ticker
  /\ nowLag' = 0

-----------------------------------------------------------------------------
(* recordFailure, at whatever stage the attempt failed.                    *)

\* Mutants of MustOpen: the age is not compared; an open agent opens again;
\* only a ready agent opens.
MustOpenAtOnce == lastPlan # NoPlan /\ ~status.open

MustOpenAgain == lastPlan # NoPlan /\ nowAge >= StaleLimit

MustOpenFromReady ==
  lastPlan # NoPlan /\ ~status.open /\ nowAge >= StaleLimit /\ status.state = "ready"

MustOpen == lastPlan # NoPlan /\ ~status.open /\ nowAge >= StaleLimit

(* The fail-open Apply has a context of its own, which SIGTERM leaves alone. *)
BeginOpen ==
  /\ pc' = "open"
  /\ call' = [call EXCEPT ![Self] = ApplyCall(FailOpenPlan(lastPlan), FALSE)]
  /\ UNCHANGED <<ticker, nowLag>>

RecordFailure ==
  /\ status' = [status EXCEPT !.state = "degraded"]
  /\ \/ MustOpen /\ BeginOpen
     \/ ~MustOpen /\ EndAttempt /\ call' = [call EXCEPT ![Self] = NoCall]
  /\ UNCHANGED <<kernel, source, cancelled, appliedHash, lastPlan, age, nowAge, staleFor>>

-----------------------------------------------------------------------------
(* reconcile, once Snapshot and Compile are through.                       *)

(* LastSuccess becomes the instant at which this attempt read the clock.   *)
Publish(plan) ==
  /\ lastPlan' = plan
  /\ status' = [state |-> "ready", digest |-> plan, open |-> FALSE]
  /\ age' = IF nowLag < StaleLimit THEN nowLag ELSE StaleLimit
  /\ staleFor' = age'
  /\ EndAttempt
  /\ UNCHANGED <<source, cancelled, nowAge>>

SnapshotFails ==
  /\ pc = "snapshot"
  /\ source = NoPolicy \/ cancelled
  /\ RecordFailure

\* Mutant of Unchanged: the last compiled plan is taken for the last applied.
UnchangedSinceCompile(plan) == plan = lastPlan

(* "plan.Digest != manager.appliedHash" is the only test before Apply.     *)
Unchanged(plan) == plan = appliedHash

SnapshotUnchanged ==
  /\ pc = "snapshot"
  /\ source # NoPolicy
  /\ Unchanged(Compiled(source))
  /\ Publish(Compiled(source))
  /\ UNCHANGED <<kernel, call, appliedHash>>

(* Apply gets the context of the attempt, which SIGTERM may have ended.    *)
SnapshotChanged ==
  /\ pc = "snapshot"
  /\ source # NoPolicy
  /\ ~Unchanged(Compiled(source))
  /\ pc' = "apply"
  /\ call' = [call EXCEPT ![Self] = ApplyCall(Compiled(source), cancelled)]
  /\ UNCHANGED <<kernel, source, ticker, cancelled, memory, ages>>

ApplySucceeds ==
  /\ pc = "apply"
  /\ Succeeded(Self)
  /\ appliedHash' = call[Self].plan
  /\ Publish(call[Self].plan)
  /\ call' = [call EXCEPT ![Self] = NoCall]
  /\ UNCHANGED kernel

ApplyFails ==
  /\ pc = "apply"
  /\ Failed(Self)
  /\ RecordFailure

\* Mutant of OpenSucceeds: appliedHash is not brought up to date.
OpenSucceedsHashKept ==
  /\ pc = "open"
  /\ Succeeded(Self)
  /\ status' = [status EXCEPT !.digest = call[Self].plan, !.open = TRUE]
  /\ call' = [call EXCEPT ![Self] = NoCall]
  /\ EndAttempt
  /\ UNCHANGED <<kernel, source, cancelled, appliedHash, lastPlan, age, nowAge, staleFor>>

OpenSucceeds ==
  /\ pc = "open"
  /\ Succeeded(Self)
  /\ appliedHash' = call[Self].plan
  /\ status' = [state |-> "degraded", digest |-> call[Self].plan, open |-> TRUE]
  /\ call' = [call EXCEPT ![Self] = NoCall]
  /\ EndAttempt
  /\ UNCHANGED <<kernel, source, cancelled, lastPlan, age, nowAge, staleFor>>

OpenFails ==
  /\ pc = "open"
  /\ Failed(Self)
  /\ call' = [call EXCEPT ![Self] = NoCall]
  /\ EndAttempt
  /\ UNCHANGED <<kernel, source, cancelled, memory, age, nowAge, staleFor>>

-----------------------------------------------------------------------------
(* What happens around the loop.                                           *)

Later(n) == IF n < StaleLimit THEN n + 1 ELSE n

InAttempt == pc \in {"snapshot", "apply", "open"}

(* A poll interval passes.  A tick that finds the channel full is dropped. *)
PollElapses ==
  /\ pc # "stopped"
  /\ InAttempt => nowLag < AttemptSpan
  /\ nowLag' = IF InAttempt THEN nowLag + 1 ELSE nowLag
  /\ age' = Later(age)
  /\ staleFor' = Later(staleFor)
  /\ ticker' = IF ticker = "none" THEN "none" ELSE "full"
  /\ UNCHANGED <<kernel, call, source, pc, cancelled, memory, nowAge>>

MetadataChanges ==
  /\ source' \in (Policy \cup {NoPolicy}) \ {source}
  /\ UNCHANGED <<kernel, call, pc, ticker, cancelled, memory, ages>>

(* SIGTERM ends the context of Run and, with it, that of the attempt.      *)
Signal ==
  /\ "signal" \in Faults
  /\ ~cancelled
  /\ pc # "stopped"
  /\ cancelled' = TRUE
  /\ call' = [call EXCEPT ![Self].expired = @ \/ (pc = "apply" /\ Running(Self))]
  /\ UNCHANGED <<kernel, source, pc, ticker, memory, ages>>

(* UTC() strips the monotonic reading, so a step of the wall clock moves   *)
(* every age.  An attempt compares instants it has read already: a step    *)
(* during an attempt is a step after it.                                   *)
ClockStep ==
  /\ "clock" \in Faults
  /\ pc = "idle"
  /\ age' \in (0..StaleLimit) \ {age}
  /\ UNCHANGED <<kernel, call, source, pc, ticker, cancelled, memory, nowAge,
                 nowLag, staleFor>>

ResetMemory ==
  /\ appliedHash' = NoPlan
  /\ lastPlan' = NoPlan
  /\ status' = FreshStatus
  /\ age' = 0 /\ nowAge' = 0 /\ nowLag' = 0 /\ staleFor' = 0
  /\ ticker' = "none"

Crash ==
  /\ "crash" \in Faults
  /\ pc # "stopped"
  /\ pc' = "stopped"
  /\ CallerDies(Self)
  /\ ResetMemory
  /\ UNCHANGED <<source, cancelled>>

(* A new container starts where the old one is gone; the table is there.   *)
Restart ==
  /\ pc = "stopped"
  /\ pc' = "start"
  /\ cancelled' = FALSE
  /\ ResetMemory
  /\ UNCHANGED <<kernel, call, source>>

OperatorCleanup(c) ==
  /\ "operator" \in Faults
  /\ call[c].op = "none"
  /\ call' = [call EXCEPT ![c] = CleanupCall]
  /\ UNCHANGED <<kernel, source, pc, ticker, cancelled, memory, ages>>

OperatorExits(c) ==
  /\ Succeeded(c) \/ Failed(c)
  /\ call' = [call EXCEPT ![c] = NoCall]
  /\ UNCHANGED <<kernel, source, pc, ticker, cancelled, memory, ages>>

Backend(c) ==
  /\ NFTStep(c) \/ Expire(c)
  /\ UNCHANGED <<source, pc, ticker, cancelled, memory, ages>>

-----------------------------------------------------------------------------
ManagerStep ==
  \/ RunStart
  \/ ReceiveTick
  \/ Stop
  \/ SnapshotFails
  \/ SnapshotUnchanged
  \/ SnapshotChanged
  \/ ApplySucceeds
  \/ ApplyFails
  \/ OpenSucceeds
  \/ OpenFails

Operator(c) == OperatorCleanup(c) \/ OperatorExits(c)

Environment ==
  \/ PollElapses
  \/ MetadataChanges
  \/ Signal
  \/ ClockStep
  \/ Crash
  \/ Restart

Next ==
  \/ ManagerStep
  \/ Environment
  \/ \E c \in Caller : Backend(c)
  \/ \E c \in Caller \ {Self} : Operator(c)

Spec == Init /\ [][Next]_vars

(* The goroutine runs, time passes, a started nft process ends, and nft is *)
(* not refused for ever: a call that is made again and again gets through  *)
(* each of its three processes some day before its deadline.               *)
NFTGetsThrough ==
  /\ SF_vars(~call[Self].expired /\ ListTable(Self) /\ Backend(Self))
  /\ SF_vars(CheckPasses(Self) /\ Backend(Self))
  /\ SF_vars(CommitSucceeds(Self) /\ Backend(Self))

Fairness ==
  /\ WF_vars(ManagerStep)
  /\ WF_vars(PollElapses)
  /\ WF_vars(NFTStep(Self) /\ Backend(Self))
  /\ NFTGetsThrough

FairSpec == Spec /\ Fairness

-----------------------------------------------------------------------------
(* Safety.                                                                 *)

(* The kernel never holds a mixture of two plans: whatever fails or races, *)
(* a packet meets one plan's rules and no others.  It takes tableExists to *)
(* have seen the table the transaction then meets.                         *)
ExactlyOneTable == kernel # NoTable => kernel.exact

(* Replacement leaves no gap: only an operator's cleanup takes the table   *)
(* away, no failure, signal, crash or restart of the agent does.           *)
NoGap ==
  [][kernel # NoTable /\ kernel' = NoTable =>
       \E c \in Caller \ {Self} : call[c].op = "cleanup"]_vars

(* "removed the exact owned firewall table" (main.go:207) is true: when a   *)
(* cleanup in time reports success, the table is gone, though the agent     *)
(* applies and replaces it meanwhile.  It takes nft list to fail only for   *)
(* want of the table; a list that the deadline cuts short is such a failure *)
(* too (main.go:201, firewall.go:69).                                      *)
RemovedMeansGone ==
  [][\A c \in Caller :
       call[c].op = "cleanup" /\ Running(c) /\ ~call[c].expired /\ Succeeded(c)'
         => kernel' = NoTable]_vars

(* The plan the agent has in force: the one its digest test remembers, or  *)
(* the one it has just applied and not recorded yet.                       *)
InForce == IF Succeeded(Self) THEN call[Self].plan ELSE appliedHash

(* What /readyz says is true: an agent that answers "ready" has the kernel *)
(* enforcing the policy whose digest it publishes, or the newer one it is  *)
(* about to publish, and nothing but that, never the allow-only table.     *)
ReadyIsEnforced ==
  status.state = "ready" =>
    /\ ~status.open
    /\ InForce.kind = "policy"
    /\ kernel = Exact(InForce)
    /\ ~Succeeded(Self) => InForce = status.digest

(* Enforcement is given up only when no attempt has succeeded for          *)
(* FailOpenAfter, and never for a table of another agent.                  *)
OpensOnlyWhenStale ==
  [][IsOpen(kernel)' /\ ~IsOpen(kernel) =>
       staleFor >= StaleLimit /\ lastPlan # NoPlan]_vars

(* A shutdown does not decide to fail open: SIGTERM that interrupts a      *)
(* snapshot is not a failure of metadata (README.md:20).                   *)
ShutdownKeepsPolicy ==
  [][cancelled /\ source # NoPolicy /\ pc = "snapshot" => pc' # "open"]_vars

-----------------------------------------------------------------------------
(* The promise this loop keeps, with its memory, its calls and the kernel  *)
(* seen as what is wanted, in force and vouched for.                       *)
View(plan) ==
  IF plan = NoPlan THEN [kind |-> "nothing"]
  ELSE IF plan.kind = "open" THEN [kind |-> "open"]
  ELSE plan

Promise == INSTANCE Enforcement WITH
  offered   <- source,
  wanted    <- View(call[Self].plan),
  table     <- IF kernel = NoTable THEN View(NoPlan) ELSE View(kernel.plan),
  published <- IF status.state = "ready" THEN View(status.digest) ELSE View(NoPlan),
  success   <- IF lastPlan = NoPlan THEN "never"
               ELSE IF staleFor < StaleLimit THEN "recent" ELSE "stale"

(* The reconcile loop implements the promise: through failed transactions, *)
(* deadlines, SIGTERM, crashes and restarts the table changes in one step  *)
(* to a plan that was wanted, an attempt succeeds only over its own table, *)
(* and nothing but a stale success leads to the allow-only table.          *)
KeepsPromise == Promise!Spec

-----------------------------------------------------------------------------
(* The loop without its clock, as module Serve puts it beside the main     *)
(* goroutine and the agents of the host.                                   *)
Unclocked == INSTANCE Serve WITH
  Agent     <- {Self},
  Cleaning  <- {},
  Nobody    <- "nobody",
  Caller    <- {Self} \X {"loop", "main"},
  call      <- [c \in {Self} \X {"loop", "main"} |->
                  IF c[2] = "loop" THEN call[Self] ELSE NoCall],
  port      <- Self,
  main      <- [a \in {Self} |-> "select"],
  loop      <- [a \in {Self} |-> CASE pc = "start" -> "idle"
                                  [] pc = "stopped" -> "returned"
                                  [] OTHER -> pc],
  cancelled <- [a \in {Self} |-> cancelled],
  applied   <- [a \in {Self} |-> appliedHash],
  said      <- [a \in {Self} |-> "nothing"]

(* Serve's loop may stand for this one: while the container lives, each     *)
(* step here is one Serve allows, whatever the clock, lastPlan and status   *)
(* decide.  An agent that fails open does so once, and from the plan that   *)
(* its digest test remembers (manager.go:152, 164).                        *)
LoopIsServed ==
  [][~Crash /\ ~Restart =>
       \/ [Unclocked!Next]_(Unclocked!vars)
       \/ \E c \in Caller \ {Self} : Backend(c)]_vars

-----------------------------------------------------------------------------
(* Liveness.                                                               *)

(* Reconciliation restores enforcement when valid metadata returns: once   *)
(* metadata stays at p and the agent stays up, the kernel comes to enforce *)
(* exactly p, and stays so (README.md:99).                                 *)
EnforcementReturns ==
  \A p \in Policy :
    <>[](source = p /\ pc # "stopped" /\ ~cancelled) =>
      <>[](kernel = Exact(Compiled(p)) /\ status.state = "ready")

(* Stale enforcement is bounded: an agent that once succeeded and whose    *)
(* metadata then stays away comes to hold the allow-only table and to say  *)
(* so, unless it is gone.                                                  *)
StaleIsBounded ==
  <>[](source = NoPolicy /\ lastPlan # NoPlan /\ pc # "stopped") =>
    <>[](IsOpen(kernel) /\ status.open)

(* The same of any table, one that an earlier agent left included          *)
(* (README.md:99).                                                         *)
AnyStaleTableOpens ==
  <>[](source = NoPolicy /\ pc # "stopped") => <>(kernel = NoTable \/ IsOpen(kernel))
=============================================================================
