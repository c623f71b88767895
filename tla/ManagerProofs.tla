---------------------------- MODULE ManagerProofs ----------------------------
(***************************************************************************)
(* Theorems about the reconcile loop, for any number of operators, any set *)
(* of policies and any bounds, and that it implements Enforcement.          *)
(***************************************************************************)
EXTENDS Manager, NFTBackendProofs

-----------------------------------------------------------------------------
(* Where the loop stands decides which call of the backend it is in, and   *)
(* operators only ever clean up.                                           *)
PolicyPlan == [kind : {"policy"}, of : Policy]

CallOfLoop ==
  /\ pc \in {"apply", "open"} => call[Self].op = "apply"
  /\ pc \notin {"apply", "open"} => call[Self].op = "none"
  /\ pc = "apply" => call[Self].plan \in PolicyPlan
  /\ pc = "open" => lastPlan # NoPlan /\ call[Self].plan = FailOpenPlan(lastPlan)

CallsOfOthers == \A c \in Caller \ {Self} : call[c].op \in {"none", "cleanup"}

TypeInv == TypeOK /\ CallOfLoop /\ CallsOfOthers

LEMMA PolicyPlanShape ==
  /\ PolicyPlan \subseteq Plan
  /\ \A p \in Policy : Compiled(p) \in PolicyPlan
  /\ \A plan \in PolicyPlan : FailOpenPlan(plan) \in Plan /\ plan # NoPlan
BY PlanShape, PlanAssumption DEF PolicyPlan, Plan, Compiled, FailOpenPlan

LEMMA CallShape ==
  /\ NoCall \in Call
  /\ CleanupCall \in Call
  /\ \A plan \in Plan, done \in BOOLEAN : ApplyCall(plan, done) \in Call
BY DEF Call, NoCall, CleanupCall, ApplyCall

LEMMA FreshStatusType == FreshStatus \in Status
BY DEF FreshStatus, Status

LEMMA TypeInit == Init => TypeInv
<1>. SUFFICES ASSUME Init PROVE TypeInv
  OBVIOUS
<1>1. kernel \in Table \cup {NoTable}
  <2>1. kernel = NoTable \/ \E plan \in Plan : kernel = Exact(plan)
    BY Zenon DEF Init
  <2>. QED BY <2>1, PlanShape
<1>2. TypeOK
  <2>1. BackendTypeOK
    BY <1>1, CallShape DEF Init, BackendTypeOK
  <2>2. status \in Status
    BY FreshStatusType DEF Init
  <2>3. /\ age \in 0..StaleLimit /\ nowAge \in 0..StaleLimit /\ staleFor \in 0..StaleLimit
        /\ nowLag \in 0..AttemptSpan
    BY StaleLimitAssumption, AttemptSpanAssumption DEF Init
  <2>. QED BY <2>1, <2>2, <2>3 DEF Init, TypeOK
<1>3. CallOfLoop /\ CallsOfOthers
  BY SelfAssumption DEF Init, CallOfLoop, CallsOfOthers, NoCall
<1>. QED BY <1>2, <1>3 DEF TypeInv

(* The typing of the call the loop is in, when it is in one.               *)
LEMMA LoopCall ==
  ASSUME TypeInv, pc \in {"apply", "open"}
  PROVE  call[Self].plan \in Plan /\ call[Self].op = "apply"
<1>1. CASE pc = "apply"
  BY <1>1, PolicyPlanShape DEF TypeInv, CallOfLoop
<1>2. CASE pc = "open"
  BY <1>2, PolicyPlanShape DEF TypeInv, CallOfLoop, TypeOK, PolicyPlan
<1>. QED BY <1>1, <1>2

(* recordFailure keeps the types, at whatever stage the attempt failed.    *)
LEMMA TypeRecordFailure ==
  ASSUME TypeInv, RecordFailure, pc \in {"snapshot", "apply"}
  PROVE  TypeInv'
<1>. USE DEF TypeInv, TypeOK, BackendTypeOK
<1>1. status' \in Status
  BY DEF RecordFailure, Status
<1>2. CASE MustOpen /\ BeginOpen
  <2>1. lastPlan \in PolicyPlan /\ lastPlan # NoPlan /\ FailOpenPlan(lastPlan) \in Plan
    BY <1>2, PolicyPlanShape DEF MustOpen, PolicyPlan
  <2>2. call' \in [Caller -> Call] /\ call'[Self] = ApplyCall(FailOpenPlan(lastPlan), FALSE)
    BY <1>2, <2>1, CallShape, SelfAssumption DEF BeginOpen
  <2>3. TypeOK'
    BY <1>1, <1>2, <2>2 DEF RecordFailure, BeginOpen
  <2>4. CallOfLoop'
    BY <1>2, <2>1, <2>2 DEF RecordFailure, BeginOpen, CallOfLoop, ApplyCall
  <2>5. CallsOfOthers'
    BY <1>2 DEF BeginOpen, CallsOfOthers
  <2>. QED BY <2>3, <2>4, <2>5
<1>3. CASE EndAttempt /\ call' = [call EXCEPT ![Self] = NoCall]
  <2>1. call' \in [Caller -> Call] /\ call'[Self] = NoCall
    BY <1>3, CallShape, SelfAssumption
  <2>2. TypeOK'
    BY <1>1, <1>3, <2>1, AttemptSpanAssumption DEF RecordFailure, EndAttempt
  <2>3. CallOfLoop'
    BY <1>3, <2>1 DEF EndAttempt, CallOfLoop, NoCall
  <2>4. CallsOfOthers'
    BY <1>3 DEF CallsOfOthers
  <2>. QED BY <2>2, <2>3, <2>4
<1>. QED BY <1>2, <1>3 DEF RecordFailure

(* Publish types what it writes.                                           *)
LEMMA TypePublish ==
  ASSUME TypeInv, NEW plan \in PolicyPlan, Publish(plan)
  PROVE  /\ lastPlan' \in PolicyPlan /\ status' \in Status
         /\ age' \in 0..StaleLimit /\ staleFor' \in 0..StaleLimit
         /\ nowLag' \in 0..AttemptSpan
         /\ pc' = "idle" /\ ticker' \in {"none", "empty", "full"}
         /\ UNCHANGED <<source, cancelled, nowAge>>
BY PolicyPlanShape, StaleLimitAssumption, AttemptSpanAssumption
DEF TypeInv, TypeOK, Publish, EndAttempt, Status

-----------------------------------------------------------------------------
(* Each action keeps the types.                                            *)
LEMMA TypeManagerStep ==
  ASSUME TypeInv, ManagerStep
  PROVE  TypeInv'
<1>. USE SelfAssumption
<1>1. CASE RunStart \/ ReceiveTick
  BY <1>1 DEF RunStart, ReceiveTick, BeginAttempt, TypeInv, TypeOK, BackendTypeOK,
              CallOfLoop, CallsOfOthers, memory
<1>2. CASE Stop
  BY <1>2 DEF Stop, TypeInv, TypeOK, BackendTypeOK, CallOfLoop, CallsOfOthers,
              memory, ages
<1>3. CASE SnapshotFails
  BY <1>3, TypeRecordFailure DEF SnapshotFails
<1>4. CASE SnapshotUnchanged
  <2>1. Compiled(source) \in PolicyPlan
    BY <1>4, PolicyPlanShape DEF SnapshotUnchanged, TypeInv, TypeOK
  <2>2. Publish(Compiled(source)) /\ UNCHANGED <<kernel, call, appliedHash>>
    BY <1>4 DEF SnapshotUnchanged
  <2>. HIDE DEF Publish
  <2>3. TypeOK'
    BY <2>1, <2>2, TypePublish DEF TypeInv, TypeOK, BackendTypeOK, PolicyPlan
  <2>4. CallOfLoop' /\ CallsOfOthers'
    BY <1>4, <2>1, <2>2, TypePublish DEF TypeInv, CallOfLoop, CallsOfOthers, SnapshotUnchanged
  <2>. QED BY <2>3, <2>4 DEF TypeInv
<1>5. CASE SnapshotChanged
  <2>1. Compiled(source) \in PolicyPlan /\ Compiled(source) \in Plan
    BY <1>5, PolicyPlanShape DEF SnapshotChanged, TypeInv, TypeOK
  <2>2. /\ call' \in [Caller -> Call]
        /\ call'[Self] = ApplyCall(Compiled(source), cancelled)
        /\ \A c \in Caller \ {Self} : call'[c] = call[c]
    BY <1>5, <2>1, CallShape DEF SnapshotChanged, TypeInv, TypeOK, BackendTypeOK
  <2>3. TypeOK'
    BY <1>5, <2>2 DEF SnapshotChanged, TypeInv, TypeOK, BackendTypeOK, memory, ages
  <2>4. CallOfLoop' /\ CallsOfOthers'
    BY <1>5, <2>1, <2>2 DEF SnapshotChanged, TypeInv, CallOfLoop, CallsOfOthers, ApplyCall
  <2>. QED BY <2>3, <2>4 DEF TypeInv
<1>6. CASE ApplySucceeds
  <2>1. call[Self].plan \in PolicyPlan /\ call[Self].plan \in Plan
    BY <1>6, PolicyPlanShape DEF ApplySucceeds, TypeInv, CallOfLoop
  <2>2. /\ Publish(call[Self].plan)
        /\ appliedHash' = call[Self].plan
        /\ kernel' = kernel
        /\ call' \in [Caller -> Call]
        /\ call'[Self] = NoCall
        /\ \A c \in Caller \ {Self} : call'[c] = call[c]
    BY <1>6, CallShape DEF ApplySucceeds, TypeInv, TypeOK, BackendTypeOK
  <2>3. TypeOK'
    BY <2>1, <2>2, TypePublish DEF TypeInv, TypeOK, BackendTypeOK, PolicyPlan
  <2>4. CallOfLoop' /\ CallsOfOthers'
    BY <2>1, <2>2, TypePublish DEF TypeInv, CallOfLoop, CallsOfOthers, NoCall
  <2>. QED BY <2>3, <2>4 DEF TypeInv
<1>7. CASE ApplyFails
  BY <1>7, TypeRecordFailure DEF ApplyFails
<1>8. CASE OpenSucceeds \/ OpenFails
  <2>1. call[Self].plan \in Plan
    BY <1>8, LoopCall DEF OpenSucceeds, OpenFails
  <2>2. /\ call' \in [Caller -> Call]
        /\ call'[Self] = NoCall
        /\ \A c \in Caller \ {Self} : call'[c] = call[c]
        /\ EndAttempt
    BY <1>8, CallShape DEF OpenSucceeds, OpenFails, TypeInv, TypeOK, BackendTypeOK
  <2>3. /\ status' \in Status /\ appliedHash' \in Plan \cup {NoPlan}
        /\ UNCHANGED <<kernel, source, cancelled, lastPlan, age, nowAge, staleFor>>
    <3>1. CASE OpenSucceeds
      BY <2>1, <3>1 DEF OpenSucceeds, Status
    <3>2. CASE OpenFails
      BY <3>2 DEF OpenFails, TypeInv, TypeOK, memory
    <3>. QED BY <1>8, <3>1, <3>2
  <2>4. TypeOK'
    BY <2>2, <2>3, AttemptSpanAssumption DEF EndAttempt, TypeInv, TypeOK, BackendTypeOK
  <2>5. CallOfLoop' /\ CallsOfOthers'
    BY <2>2 DEF EndAttempt, TypeInv, CallOfLoop, CallsOfOthers, NoCall
  <2>. QED BY <2>4, <2>5 DEF TypeInv
<1>. QED BY <1>1, <1>2, <1>3, <1>4, <1>5, <1>6, <1>7, <1>8 DEF ManagerStep

LEMMA TypeEnvironment ==
  ASSUME TypeInv, Environment
  PROVE  TypeInv'
<1>. USE SelfAssumption
<1>1. CASE PollElapses
  BY <1>1, StaleLimitAssumption, AttemptSpanAssumption
  DEF PollElapses, Later, InAttempt, TypeInv, TypeOK, BackendTypeOK, CallOfLoop,
      CallsOfOthers, memory
<1>2. CASE MetadataChanges
  BY <1>2 DEF MetadataChanges, TypeInv, TypeOK, BackendTypeOK, CallOfLoop,
              CallsOfOthers, memory, ages
<1>3. CASE Signal
  <2>1. /\ call' \in [Caller -> Call]
        /\ \A c \in Caller : call'[c].op = call[c].op /\ call'[c].plan = call[c].plan
    <3>1. call[Self] \in Call
      BY DEF TypeInv, TypeOK, BackendTypeOK
    <3>2. PICK b \in BOOLEAN : call' = [call EXCEPT ![Self].expired = b]
      BY <1>3 DEF Signal, TypeInv, TypeOK, BackendTypeOK, Call, Running
    <3>. QED BY <3>1, <3>2 DEF Call, TypeInv, TypeOK, BackendTypeOK
  <2>. QED BY <1>3, <2>1 DEF Signal, TypeInv, TypeOK, BackendTypeOK, CallOfLoop,
                             CallsOfOthers, memory, ages
<1>4. CASE ClockStep
  BY <1>4 DEF ClockStep, TypeInv, TypeOK, BackendTypeOK, CallOfLoop, CallsOfOthers, memory
<1>5. CASE Crash
  <2>1. kernel' \in Table \cup {NoTable}
    BY <1>5, TransactionType, LoopCall
    DEF Crash, CallerDies, Running, TypeInv, TypeOK, BackendTypeOK, CallOfLoop, Call
  <2>2. /\ call' \in [Caller -> Call]
        /\ call'[Self] = NoCall
        /\ \A c \in Caller \ {Self} : call'[c] = call[c]
    BY <1>5, CallShape DEF Crash, CallerDies, TypeInv, TypeOK, BackendTypeOK
  <2>. QED BY <1>5, <2>1, <2>2, StaleLimitAssumption, AttemptSpanAssumption
           DEF Crash, ResetMemory, FreshStatus, Status, TypeInv, TypeOK, BackendTypeOK,
               CallOfLoop, CallsOfOthers, NoCall
<1>6. CASE Restart
  <2>1. TypeOK'
    <3>1. /\ status' \in Status
          /\ appliedHash' \in Plan \cup {NoPlan} /\ lastPlan' = NoPlan
          /\ pc' = "start" /\ ticker' = "none" /\ cancelled' = FALSE
          /\ UNCHANGED <<kernel, call, source>>
      BY <1>6, FreshStatusType DEF Restart, ResetMemory
    <3>2. /\ age' \in 0..StaleLimit /\ nowAge' \in 0..StaleLimit
          /\ staleFor' \in 0..StaleLimit /\ nowLag' \in 0..AttemptSpan
      BY <1>6, StaleLimitAssumption, AttemptSpanAssumption DEF Restart, ResetMemory
    <3>. QED BY <3>1, <3>2 DEF TypeInv, TypeOK, BackendTypeOK
  <2>2. CallOfLoop' /\ CallsOfOthers'
    BY <1>6 DEF Restart, TypeInv, CallOfLoop, CallsOfOthers
  <2>. QED BY <2>1, <2>2 DEF TypeInv
<1>. QED BY <1>1, <1>2, <1>3, <1>4, <1>5, <1>6 DEF Environment

LEMMA TypeBackend ==
  ASSUME TypeInv, NEW c \in Caller, Backend(c)
  PROVE  TypeInv'
<1>. USE SelfAssumption DEF TypeInv
<1>1. Running(c) /\ call' \in [Caller -> Call] /\ CallKept(c)
      /\ (KernelKept(c) \/ KernelWritten(c))
  BY BackendStep DEF Backend, TypeOK
<1>2. kernel' \in Table \cup {NoTable}
  <2>1. call[c].op \in {"apply", "cleanup"} /\ (call[c].op = "apply" => call[c].plan \in Plan)
    BY <1>1, LoopCall DEF CallOfLoop, CallsOfOthers, Running, TypeOK, BackendTypeOK, Call
  <2>. QED BY <1>1, <2>1, TransactionType DEF KernelKept, KernelWritten, TypeOK, BackendTypeOK
<1>3. TypeOK'
  BY <1>1, <1>2 DEF Backend, TypeOK, BackendTypeOK, memory, ages
<1>4. \A d \in Caller : call'[d].op = call[d].op /\ call'[d].plan = call[d].plan
  BY <1>1 DEF CallKept
<1>5. CallOfLoop' /\ CallsOfOthers'
  BY <1>4 DEF Backend, CallOfLoop, CallsOfOthers, memory
<1>. QED BY <1>3, <1>5

LEMMA TypeOperator ==
  ASSUME TypeInv, NEW c \in Caller \ {Self}, Operator(c)
  PROVE  TypeInv'
<1>1. PICK new \in {NoCall, CleanupCall} : call' = [call EXCEPT ![c] = new]
  BY DEF Operator, OperatorCleanup, OperatorExits
<1>2. /\ call' \in [Caller -> Call]
      /\ \A d \in Caller \ {c} : call'[d] = call[d]
      /\ call'[c] = new
  BY <1>1, CallShape DEF TypeInv, TypeOK, BackendTypeOK
<1>3. call'[c].op \in {"none", "cleanup"}
  BY <1>2 DEF NoCall, CleanupCall
<1>. QED BY <1>2, <1>3, SelfAssumption
         DEF Operator, OperatorCleanup, OperatorExits, TypeInv, TypeOK, BackendTypeOK,
             CallOfLoop, CallsOfOthers, memory, ages

LEMMA TypeStep == TypeInv /\ [Next]_vars => TypeInv'
<1>. SUFFICES ASSUME TypeInv, [Next]_vars PROVE TypeInv'
  OBVIOUS
<1>1. CASE UNCHANGED vars
  BY <1>1 DEF vars, memory, ages, TypeInv, TypeOK, BackendTypeOK, CallOfLoop, CallsOfOthers
<1>. QED BY <1>1, TypeManagerStep, TypeEnvironment, TypeBackend, TypeOperator DEF Next

(* Every variable stays in its type: in particular the plan of a call is   *)
(* one that was compiled or derived from one, the ages stay within their   *)
(* bounds, and no call overlaps another of the same loop.                  *)
THEOREM TypeCorrect == Spec => []TypeOK
<1>1. TypeInv => TypeOK
  BY DEF TypeInv
<1>. QED BY <1>1, TypeInit, TypeStep, PTL DEF Spec

-----------------------------------------------------------------------------
(* What the steps of the loop and of its surroundings leave alone.         *)
LoopCallNext ==
  \/ call'[Self] = call[Self]
  \/ call'[Self] = NoCall
  \/ \E plan \in Plan, done \in BOOLEAN : call'[Self] = ApplyCall(plan, done)

LEMMA ManagerFrame ==
  ASSUME TypeInv, ManagerStep
  PROVE  /\ kernel' = kernel
         /\ \A c \in Caller \ {Self} : call'[c] = call[c]
         /\ LoopCallNext
<1>. USE SelfAssumption DEF TypeInv, TypeOK, BackendTypeOK, LoopCallNext
<1>1. CASE RunStart \/ ReceiveTick \/ Stop \/ SnapshotUnchanged
  BY <1>1 DEF RunStart, ReceiveTick, BeginAttempt, Stop, SnapshotUnchanged
<1>2. CASE SnapshotFails \/ ApplyFails
  <2>1. RecordFailure
    BY <1>2 DEF SnapshotFails, ApplyFails
  <2>2. CASE MustOpen /\ BeginOpen
    <3>1. FailOpenPlan(lastPlan) \in Plan
      BY <2>2, PolicyPlanShape DEF MustOpen, PolicyPlan
    <3>. QED BY <2>1, <2>2, <3>1 DEF RecordFailure, BeginOpen
  <2>. QED BY <2>1, <2>2 DEF RecordFailure
<1>3. CASE SnapshotChanged
  <2>1. Compiled(source) \in Plan
    BY <1>3, PolicyPlanShape DEF SnapshotChanged
  <2>. QED BY <1>3, <2>1 DEF SnapshotChanged
<1>4. CASE ApplySucceeds \/ OpenSucceeds \/ OpenFails
  BY <1>4 DEF ApplySucceeds, OpenSucceeds, OpenFails
<1>. QED BY <1>1, <1>2, <1>3, <1>4 DEF ManagerStep

LEMMA OperatorFrame ==
  ASSUME TypeInv, NEW c \in Caller \ {Self}, Operator(c)
  PROVE  /\ call'[Self] = call[Self]
         /\ UNCHANGED <<kernel, source, pc, ticker, cancelled, memory, ages>>
BY SelfAssumption DEF Operator, OperatorCleanup, OperatorExits, TypeInv, TypeOK, BackendTypeOK

(* The kernel's table changes only by a transaction of a caller, by a step *)
(* of its own or by the death of the agent.                                *)
WrittenBy(c) ==
  /\ Running(c)
  /\ call[c].step = "commit"
  /\ Accepted(c)
  /\ kernel' = Transaction(c)

LEMMA KernelFrame ==
  ASSUME TypeInv, [Next]_vars
  PROVE  kernel' = kernel \/ \E c \in Caller : WrittenBy(c)
<1>1. CASE ManagerStep
  BY <1>1, ManagerFrame
<1>2. CASE Environment
  BY <1>2, SelfAssumption
  DEF Environment, PollElapses, MetadataChanges, Signal, ClockStep, Crash, CallerDies,
      Restart, WrittenBy
<1>3. ASSUME NEW c \in Caller, Backend(c)
      PROVE  kernel' = kernel \/ WrittenBy(c)
  BY <1>3, BackendStep DEF Backend, KernelKept, KernelWritten, WrittenBy, TypeInv, TypeOK
<1>4. ASSUME NEW c \in Caller \ {Self}, Operator(c)
      PROVE  kernel' = kernel
  BY <1>4, OperatorFrame
<1>5. CASE UNCHANGED vars
  BY <1>5 DEF vars
<1>. QED BY <1>1, <1>2, <1>3, <1>4, <1>5 DEF Next

-----------------------------------------------------------------------------
(* Replacement leaves no gap (NoGap): no failure, signal, crash or restart *)
(* takes the table away, only a cleanup does, whatever nft's exit status   *)
(* says and whatever tableExists believes.                                 *)
LEMMA NoGapStep ==
  ASSUME TypeInv, [Next]_vars, kernel # NoTable, kernel' = NoTable
  PROVE  \E c \in Caller \ {Self} : call[c].op = "cleanup"
<1>1. PICK c \in Caller : WrittenBy(c)
  BY KernelFrame
<1>2. call[c].op \in {"apply", "cleanup"} /\ (call[c].op = "apply" => call[c].plan \in Plan)
  BY <1>1, LoopCall
  DEF WrittenBy, Running, TypeInv, CallOfLoop, CallsOfOthers, TypeOK, BackendTypeOK, Call
<1>3. call[c].op = "cleanup"
  BY <1>1, <1>2, TransactionType DEF WrittenBy, TypeInv, TypeOK
<1>4. c # Self
  BY <1>3 DEF TypeInv, CallOfLoop
<1>. QED BY <1>3, <1>4

(* Under every fault, signal, crash and restart, only an operator's cleanup  *)
(* takes the table away.                                                   *)
THEOREM TableIsNeverDropped == Spec => NoGap
<1>1. TypeInv /\ [Next]_vars =>
        [kernel # NoTable /\ kernel' = NoTable =>
           \E c \in Caller \ {Self} : call[c].op = "cleanup"]_vars
  BY NoGapStep
<1>. QED BY <1>1, TypeInit, TypeStep, PTL DEF Spec, NoGap

-----------------------------------------------------------------------------
(* What a cleanup reports.  Its own step, and no other, makes it succeed:   *)
(* either it has just seen that there is no table, or nft has deleted it.   *)
LEMMA CleanupStep ==
  ASSUME "list" \notin Faults, TypeInv, NEW c \in Caller, NFTStep(c) \/ Expire(c),
         call[c].op = "cleanup", ~call[c].expired, call'[c].step = "ok"
  PROVE  kernel' = NoTable
<1>0. call \in [Caller -> Call] /\ call[c] \in Call
  BY DEF TypeInv, TypeOK, BackendTypeOK
<1>1. CASE ListTable(c)
  <2>1. PICK found \in ListResult(c) :
          call' = [call EXCEPT ![c].found = found,
                               ![c].step = IF call[c].op = "cleanup" /\ ~found
                                           THEN "ok" ELSE "check"]
    BY <1>1 DEF ListTable
  <2>2. ~found
    BY <1>0, <2>1
  <2>3. kernel = NoTable
    BY <2>1, <2>2 DEF ListResult
  <2>. QED BY <1>1, <2>3 DEF ListTable
<1>2. CASE CommitSucceeds(c)
  BY <1>2 DEF CommitSucceeds, Transaction
<1>3. CASE CheckPasses(c) \/ CheckFails(c) \/ CommitFails(c) \/ CommitLost(c) \/ Expire(c)
  <2>1. CASE CheckPasses(c)
    BY <1>0, <2>1 DEF CheckPasses, Call
  <2>2. CASE CheckFails(c) \/ CommitFails(c) \/ CommitLost(c)
    <3>1. call' = [call EXCEPT ![c].step = "failed"]
      BY <2>2 DEF CheckFails, CommitFails, CommitLost
    <3>2. call'[c].step = "failed"
      BY <1>0, <3>1 DEF Call
    <3>. QED BY <3>2
  <2>3. CASE Expire(c)
    BY <1>0, <2>3 DEF Expire, Running, Call
  <2>. QED BY <1>3, <2>1, <2>2, <2>3
<1>. QED BY <1>1, <1>2, <1>3 DEF NFTStep

LEMMA RemovedStep ==
  ASSUME "list" \notin Faults, TypeInv, [Next]_vars, NEW c \in Caller,
         call[c].op = "cleanup", Running(c), ~call[c].expired, Succeeded(c)'
  PROVE  kernel' = NoTable
<1>0. c # Self /\ call[c].step # "ok" /\ call'[c].op # "none" /\ call'[c].step = "ok"
  BY DEF TypeInv, CallOfLoop, Running, Succeeded
<1>1. CASE ManagerStep
  BY <1>0, <1>1, ManagerFrame
<1>2. CASE Environment
  <2>1. call'[c] = call[c]
    BY <1>0, <1>2
    DEF Environment, PollElapses, MetadataChanges, Signal, ClockStep, Crash, CallerDies, Restart,
        TypeInv, TypeOK, BackendTypeOK
  <2>. QED BY <1>0, <2>1
<1>3. ASSUME NEW d \in Caller, Backend(d) PROVE kernel' = NoTable
  <2>1. CASE d = c
    BY <1>0, <1>3, <2>1, CleanupStep DEF Backend
  <2>2. CASE d # c
    <3>1. call'[c] = call[c]
      BY <1>3, <2>2, BackendStep DEF Backend, CallKept, TypeInv, TypeOK
    <3>. QED BY <1>0, <3>1
  <2>. QED BY <2>1, <2>2
<1>4. ASSUME NEW d \in Caller \ {Self}, Operator(d) PROVE FALSE
  <2>1. CASE OperatorCleanup(d)
    BY <1>0, <2>1 DEF OperatorCleanup, CleanupCall, NoCall, TypeInv, TypeOK, BackendTypeOK
  <2>2. CASE OperatorExits(d)
    BY <1>0, <2>2 DEF OperatorExits, NoCall, TypeInv, TypeOK, BackendTypeOK
  <2>. QED BY <1>4, <2>1, <2>2 DEF Operator
<1>5. CASE UNCHANGED vars
  BY <1>0, <1>5 DEF vars
<1>. QED BY <1>1, <1>2, <1>3, <1>4, <1>5 DEF Next

(* "removed the exact owned firewall table" is true of every cleanup that   *)
(* keeps its deadline, if nft list fails only for want of the table.        *)
THEOREM RemovalIsTrue ==
  ASSUME "list" \notin Faults
  PROVE  Spec => RemovedMeansGone
<1>1. TypeInv /\ [Next]_vars =>
        [\A c \in Caller :
           call[c].op = "cleanup" /\ Running(c) /\ ~call[c].expired /\ Succeeded(c)'
             => kernel' = NoTable]_vars
  BY RemovedStep
<1>. QED BY <1>1, TypeInit, TypeStep, PTL DEF Spec, RemovedMeansGone

-----------------------------------------------------------------------------
(* One exact table.  The loop deletes what it replaces because the table   *)
(* cannot come into being between its look and its transaction: operators  *)
(* only remove.                                                            *)
ExactInv ==
  /\ TypeInv
  /\ ExactlyOneTable
  /\ CreatesBlindly(Self) => kernel = NoTable

(* What a caller writes is exact, if the loop's look was right.            *)
LEMMA WriteIsExact ==
  ASSUME ExactInv, NEW c \in Caller, WrittenBy(c)
  PROVE  /\ c = Self => kernel' = Exact(call[Self].plan)
         /\ c # Self => kernel' = NoTable
<1>1. CASE c = Self
  <2>1. call[Self].op = "apply"
    BY <1>1 DEF WrittenBy, Running, ExactInv, TypeInv, CallOfLoop
  <2>2. call[Self].found \/ kernel = NoTable
    BY <1>1, <2>1 DEF WrittenBy, Accepted, ExactInv, CreatesBlindly
  <2>. QED BY <1>1, <2>1, <2>2, TransactionExact, SelfAssumption DEF WrittenBy
<1>2. CASE c # Self
  BY <1>2 DEF WrittenBy, Running, ExactInv, TypeInv, CallsOfOthers, Transaction
<1>. QED BY <1>1, <1>2

LEMMA ExactStep ==
  ASSUME "list" \notin Faults, ExactInv, [Next]_vars
  PROVE  ExactInv'
<1>. USE SelfAssumption
<1>1. TypeInv /\ TypeInv'
  BY TypeStep DEF ExactInv
<1>2. ExactlyOneTable'
  BY <1>1, KernelFrame, WriteIsExact DEF ExactInv, ExactlyOneTable, Exact
<1>3. CreatesBlindly(Self)' => kernel' = NoTable
  <2>1. CASE ManagerStep
    <3>1. kernel' = kernel /\ LoopCallNext
      BY <1>1, <2>1, ManagerFrame
    <3>2. CASE call'[Self] = call[Self]
      BY <3>1, <3>2 DEF ExactInv, CreatesBlindly
    <3>3. CASE call'[Self] = NoCall
      BY <3>3 DEF CreatesBlindly, NoCall
    <3>4. ASSUME NEW plan \in Plan, NEW done \in BOOLEAN, call'[Self] = ApplyCall(plan, done)
          PROVE  ~CreatesBlindly(Self)'
      BY <3>4 DEF CreatesBlindly, ApplyCall
    <3>. QED BY <3>1, <3>2, <3>3, <3>4 DEF LoopCallNext
  <2>2. CASE Environment
    <3>1. CASE Signal
      BY <3>1 DEF Signal, ExactInv, TypeInv, TypeOK, BackendTypeOK, CreatesBlindly, Call
    <3>2. CASE Crash
      BY <3>2 DEF Crash, CallerDies, ExactInv, TypeInv, TypeOK, BackendTypeOK,
                  CreatesBlindly, NoCall
    <3>. QED BY <2>2, <3>1, <3>2
             DEF Environment, PollElapses, MetadataChanges, ClockStep, Restart, ExactInv,
                 CreatesBlindly
  <2>3. ASSUME NEW c \in Caller, Backend(c)
        PROVE  CreatesBlindly(Self)' => kernel' = NoTable
    <3>1. /\ Running(c) /\ CallKept(c) /\ LookedBefore(c)
          /\ KernelKept(c) \/ KernelWritten(c)
      BY <1>1, <2>3, BackendStep DEF Backend, TypeInv, TypeOK
    <3>2. CASE c = Self
      BY <3>1, <3>2 DEF LookedBefore, ExactInv, KernelKept, KernelWritten, CreatesBlindly
    <3>3. CASE c # Self
      <4>1. CreatesBlindly(Self)' => CreatesBlindly(Self)
        BY <3>1, <3>3 DEF CallKept, CreatesBlindly
      <4>2. kernel' \in {kernel, NoTable}
        BY <3>1, <3>3 DEF KernelKept, KernelWritten, Transaction, Running, CallsOfOthers,
                          ExactInv, TypeInv
      <4>. QED BY <4>1, <4>2 DEF ExactInv
    <3>. QED BY <3>2, <3>3
  <2>4. ASSUME NEW c \in Caller \ {Self}, Operator(c)
        PROVE  CreatesBlindly(Self)' => kernel' = NoTable
    BY <1>1, <2>4, OperatorFrame DEF ExactInv, CreatesBlindly
  <2>5. CASE UNCHANGED vars
    BY <2>5 DEF vars, ExactInv, CreatesBlindly
  <2>. QED BY <2>1, <2>2, <2>3, <2>4, <2>5 DEF Next
<1>. QED BY <1>1, <1>2, <1>3 DEF ExactInv

LEMMA ExactInit == Init => ExactInv
<1>. SUFFICES ASSUME Init PROVE ExactInv
  OBVIOUS
<1>1. kernel = NoTable \/ \E plan \in Plan : kernel = Exact(plan)
  BY Zenon DEF Init
<1>. QED BY <1>1, TypeInit, SelfAssumption
         DEF Init, ExactInv, ExactlyOneTable, Exact, CreatesBlindly, NoCall

(* If nft list fails only for want of the table, the kernel holds the rules *)
(* of one plan and no others, though nft fails, is killed after it         *)
(* committed, or has the table deleted under it by any number of operators. *)
THEOREM OneExactTable ==
  ASSUME "list" \notin Faults
  PROVE  Spec => []ExactlyOneTable
<1>1. ExactInv /\ [Next]_vars => ExactInv'
  BY ExactStep
<1>2. ExactInv => ExactlyOneTable
  BY DEF ExactInv
<1>. QED BY <1>1, <1>2, ExactInit, PTL DEF Spec

-----------------------------------------------------------------------------
(* Readiness.  When an exit status means what it says and no operator      *)
(* cleans up under the agent, appliedHash names what the kernel holds, so  *)
(* skipping Apply on an unchanged digest is right.                         *)
ExitStatusIsTruth == Faults \cap {"list", "lost", "operator"} = {}

InstalledIsKnown ==
  /\ Succeeded(Self) => kernel = Exact(call[Self].plan)
  /\ ~Succeeded(Self) /\ appliedHash # NoPlan => kernel = Exact(appliedHash)

StatusIsKnown ==
  /\ status.state = "ready" =>
       appliedHash \in PolicyPlan /\ status.digest = appliedHash /\ ~status.open
  /\ pc = "open" => status.state = "degraded"

ReadyInv ==
  /\ ExactInv
  /\ \A c \in Caller \ {Self} : call[c].op = "none"
  /\ InstalledIsKnown
  /\ StatusIsKnown

LEMMA ReadyInit == Init => ReadyInv
BY ExactInit, SelfAssumption
DEF Init, ReadyInv, InstalledIsKnown, StatusIsKnown, Succeeded, NoCall, FreshStatus

(* The steps of the loop that record what an Apply achieved.               *)
LEMMA ReadyManagerStep ==
  ASSUME ReadyInv, ManagerStep
  PROVE  InstalledIsKnown' /\ StatusIsKnown'
<1>. USE SelfAssumption
<1>0. TypeInv /\ kernel' = kernel /\ LoopCallNext
  BY ManagerFrame DEF ReadyInv, ExactInv
<1>1. CASE RunStart \/ ReceiveTick \/ Stop
  BY <1>1 DEF RunStart, ReceiveTick, BeginAttempt, Stop, memory, ReadyInv,
              InstalledIsKnown, StatusIsKnown, Succeeded
<1>2. ASSUME RecordFailure, ~Succeeded(Self)
      PROVE  InstalledIsKnown' /\ StatusIsKnown'
  <2>1. status'.state = "degraded"
    BY <1>0, <1>2 DEF RecordFailure, TypeInv, TypeOK, Status
  <2>2. ~Succeeded(Self)'
    <3>1. CASE call'[Self] = call[Self]
      BY <1>2, <3>1 DEF Succeeded
    <3>2. CASE call'[Self] = NoCall
      BY <3>2 DEF Succeeded, NoCall
    <3>3. ASSUME NEW plan \in Plan, NEW done \in BOOLEAN, call'[Self] = ApplyCall(plan, done)
          PROVE  ~Succeeded(Self)'
      BY <3>3 DEF Succeeded, ApplyCall
    <3>. QED BY <1>0, <3>1, <3>2, <3>3 DEF LoopCallNext
  <2>. QED BY <1>0, <1>2, <2>1, <2>2 DEF RecordFailure, ReadyInv, InstalledIsKnown,
                                         StatusIsKnown
<1>3. CASE SnapshotFails
  BY <1>0, <1>2, <1>3 DEF SnapshotFails, TypeInv, CallOfLoop, Succeeded
<1>4. CASE SnapshotUnchanged
  <2>1. Compiled(source) \in PolicyPlan /\ Compiled(source) = appliedHash
    BY <1>0, <1>4, PolicyPlanShape DEF SnapshotUnchanged, Unchanged, TypeInv, TypeOK
  <2>2. status' = [state |-> "ready", digest |-> appliedHash, open |-> FALSE] /\ pc' = "idle"
    BY <1>4, <2>1 DEF SnapshotUnchanged, Publish, EndAttempt
  <2>. QED BY <1>4, <2>1, <2>2 DEF SnapshotUnchanged, ReadyInv, InstalledIsKnown,
                                   StatusIsKnown, Succeeded
<1>5. CASE SnapshotChanged
  <2>1. ~Succeeded(Self) /\ ~Succeeded(Self)'
    BY <1>0, <1>5 DEF SnapshotChanged, TypeInv, TypeOK, BackendTypeOK, CallOfLoop,
                      Succeeded, ApplyCall
  <2>. QED BY <1>5, <2>1 DEF SnapshotChanged, memory, ReadyInv, InstalledIsKnown, StatusIsKnown
<1>6. CASE ApplySucceeds
  <2>1. call[Self].plan \in PolicyPlan
    BY <1>0, <1>6 DEF ApplySucceeds, TypeInv, CallOfLoop
  <2>2. /\ kernel' = Exact(call[Self].plan) /\ appliedHash' = call[Self].plan
        /\ status' = [state |-> "ready", digest |-> call[Self].plan, open |-> FALSE]
        /\ pc' = "idle"
    BY <1>0, <1>6 DEF ApplySucceeds, Publish, EndAttempt, ReadyInv, InstalledIsKnown
  <2>3. ~Succeeded(Self)'
    BY <1>0, <1>6 DEF ApplySucceeds, Succeeded, NoCall, TypeInv, TypeOK, BackendTypeOK
  <2>. QED BY <2>1, <2>2, <2>3 DEF InstalledIsKnown, StatusIsKnown
<1>7. CASE ApplyFails
  BY <1>2, <1>7 DEF ApplyFails, Failed, Succeeded
<1>8. CASE OpenSucceeds \/ OpenFails
  <2>1. ~Succeeded(Self)' /\ pc' = "idle"
    BY <1>0, <1>8 DEF OpenSucceeds, OpenFails, EndAttempt, Succeeded, NoCall, TypeInv,
                      TypeOK, BackendTypeOK
  <2>2. CASE OpenSucceeds
    BY <1>0, <2>1, <2>2 DEF OpenSucceeds, ReadyInv, InstalledIsKnown, StatusIsKnown
  <2>3. CASE OpenFails
    BY <1>0, <2>1, <2>3 DEF OpenFails, Failed, Succeeded, memory, ReadyInv,
                            InstalledIsKnown, StatusIsKnown
  <2>. QED BY <1>8, <2>2, <2>3
<1>. QED BY <1>1, <1>3, <1>4, <1>5, <1>6, <1>7, <1>8 DEF ManagerStep

LEMMA ReadyStep ==
  ASSUME ExitStatusIsTruth, ReadyInv, [Next]_vars
  PROVE  ReadyInv'
<1>. USE SelfAssumption
<1>0. /\ "list" \notin Faults /\ "lost" \notin Faults /\ "operator" \notin Faults
      /\ TypeInv
  BY DEF ExitStatusIsTruth, ReadyInv, ExactInv
<1>1. ExactInv'
  BY <1>0, ExactStep DEF ReadyInv
<1>2. CASE ManagerStep
  BY <1>0, <1>1, <1>2, ManagerFrame, ReadyManagerStep DEF ReadyInv
<1>3. CASE Environment
  <2>1. CASE Signal
    <3>1. \A c \in Caller : /\ call'[c].op = call[c].op /\ call'[c].plan = call[c].plan
                            /\ call'[c].step = call[c].step
      BY <1>0, <2>1 DEF Signal, TypeInv, TypeOK, BackendTypeOK, Call
    <3>. QED BY <1>1, <2>1, <3>1 DEF Signal, memory, ReadyInv, InstalledIsKnown,
                                     StatusIsKnown, Succeeded
  <2>2. CASE Crash
    <3>1. /\ \A c \in Caller \ {Self} : call'[c] = call[c]
          /\ ~Succeeded(Self)'
      BY <1>0, <2>2 DEF Crash, CallerDies, Succeeded, NoCall, TypeInv, TypeOK, BackendTypeOK
    <3>. QED BY <1>1, <2>2, <3>1 DEF Crash, ResetMemory, FreshStatus, ReadyInv,
                                     InstalledIsKnown, StatusIsKnown
  <2>3. CASE Restart
    <3>1. ~Succeeded(Self)
      BY <1>0, <2>3 DEF Restart, TypeInv, CallOfLoop, Succeeded
    <3>. QED BY <1>1, <2>3, <3>1 DEF Restart, ResetMemory, FreshStatus, ReadyInv,
                                     InstalledIsKnown, StatusIsKnown, Succeeded
  <2>. QED BY <1>1, <1>3, <2>1, <2>2, <2>3
           DEF Environment, PollElapses, MetadataChanges, ClockStep, memory, ReadyInv,
               InstalledIsKnown, StatusIsKnown, Succeeded
<1>4. ASSUME NEW c \in Caller, Backend(c)
      PROVE  ReadyInv'
  <2>1. Running(c) /\ CallKept(c) /\ (KernelKept(c) \/ KernelWritten(c))
    BY <1>0, <1>4, BackendStep DEF Backend, TypeInv, TypeOK
  <2>2. c = Self /\ call[Self].op = "apply"
    BY <1>0, <2>1 DEF Running, ReadyInv, TypeInv, CallOfLoop
  <2>3. /\ \A d \in Caller \ {Self} : call'[d] = call[d]
        /\ call'[Self].op = "apply" /\ call'[Self].plan = call[Self].plan
        /\ UNCHANGED <<pc, memory>>
    BY <1>4, <2>1, <2>2 DEF CallKept, Backend
  <2>4. CASE KernelKept(Self)
    BY <1>1, <2>1, <2>2, <2>3, <2>4
    DEF KernelKept, Running, memory, ReadyInv, InstalledIsKnown, StatusIsKnown, Succeeded
  <2>5. CASE KernelWritten(Self)
    <3>1. kernel' = Exact(call[Self].plan)
      BY <2>1, <2>2, <2>5, WriteIsExact DEF KernelWritten, WrittenBy, ReadyInv
    <3>2. Succeeded(Self)'
      BY <1>0, <2>3, <2>5 DEF KernelWritten, Succeeded
    <3>. QED BY <1>1, <2>3, <3>1, <3>2 DEF memory, ReadyInv, InstalledIsKnown, StatusIsKnown
  <2>. QED BY <2>1, <2>2, <2>4, <2>5
<1>5. ASSUME NEW c \in Caller \ {Self}, Operator(c)
      PROVE  FALSE
  BY <1>0, <1>5 DEF Operator, OperatorCleanup, OperatorExits, Succeeded, Failed, ReadyInv
<1>6. CASE UNCHANGED vars
  BY <1>1, <1>6 DEF vars, memory, ReadyInv, InstalledIsKnown, StatusIsKnown, Succeeded
<1>. QED BY <1>2, <1>3, <1>4, <1>5, <1>6 DEF Next

LEMMA ReadyImplies == ReadyInv => ReadyIsEnforced
<1>. SUFFICES ASSUME ReadyInv, status.state = "ready"
              PROVE  /\ ~status.open
                     /\ InForce.kind = "policy"
                     /\ kernel = Exact(InForce)
                     /\ ~Succeeded(Self) => InForce = status.digest
  BY DEF ReadyIsEnforced
<1>1. appliedHash \in PolicyPlan /\ status.digest = appliedHash /\ ~status.open /\ pc # "open"
  BY DEF ReadyInv, StatusIsKnown
<1>2. CASE Succeeded(Self)
  <2>1. pc = "apply" /\ call[Self].plan \in PolicyPlan
    BY <1>1, <1>2 DEF Succeeded, ReadyInv, ExactInv, TypeInv, CallOfLoop
  <2>. QED BY <1>1, <1>2, <2>1 DEF InForce, PolicyPlan, ReadyInv, InstalledIsKnown
<1>3. CASE ~Succeeded(Self)
  <2>1. appliedHash # NoPlan /\ appliedHash.kind = "policy"
    BY <1>1, PolicyPlanShape DEF PolicyPlan
  <2>. QED BY <1>1, <1>3, <2>1 DEF InForce, ReadyInv, InstalledIsKnown
<1>. QED BY <1>2, <1>3

(* An agent that answers "ready" has the kernel enforcing the policy it    *)
(* publishes, exactly, through failed and refused transactions, timeouts,  *)
(* SIGTERM, crashes, restarts over a table left behind and clock steps.    *)
THEOREM ReadinessIsTrue ==
  ASSUME ExitStatusIsTruth
  PROVE  Spec => []ReadyIsEnforced
<1>1. ReadyInv /\ [Next]_vars => ReadyInv'
  BY ReadyStep
<1>. QED BY <1>1, ReadyInit, ReadyImplies, PTL DEF Spec

-----------------------------------------------------------------------------
(* Staleness.  While nobody steps the wall clock the agent's ages are the  *)
(* real ones, and an attempt judges by an age that is at most the real one. *)
StaleInv ==
  /\ TypeInv
  /\ age = staleFor
  /\ pc \in {"snapshot", "apply", "open"} => nowAge <= staleFor
  /\ pc = "open" => nowAge >= StaleLimit

LEMMA StaleInit == Init => StaleInv
BY TypeInit DEF Init, StaleInv

LEMMA StaleStep ==
  ASSUME "clock" \notin Faults, StaleInv, [Next]_vars
  PROVE  StaleInv'
<1>0. TypeInv /\ TypeInv'
  BY TypeStep DEF StaleInv
<1>. USE <1>0, StaleLimitAssumption DEF StaleInv
<1>1. CASE RunStart \/ ReceiveTick
  BY <1>1 DEF RunStart, ReceiveTick, BeginAttempt, TypeInv, TypeOK
<1>2. CASE RecordFailure /\ pc \in {"snapshot", "apply"}
  BY <1>2 DEF RecordFailure, MustOpen, BeginOpen, EndAttempt, TypeInv, TypeOK
<1>3. ASSUME NEW plan, Publish(plan)
      PROVE  StaleInv'
  BY <1>3 DEF Publish, EndAttempt
<1>4. CASE SnapshotChanged
  BY <1>4 DEF SnapshotChanged, ages
<1>5. CASE OpenSucceeds \/ OpenFails
  BY <1>5 DEF OpenSucceeds, OpenFails, EndAttempt
<1>6. CASE ManagerStep
  BY <1>1, <1>2, <1>3, <1>4, <1>5, <1>6
  DEF ManagerStep, Stop, ages, SnapshotFails, SnapshotUnchanged, ApplySucceeds, ApplyFails
<1>7. CASE Environment
  <2>1. CASE PollElapses
    BY <2>1 DEF PollElapses, Later, TypeInv, TypeOK
  <2>2. CASE Crash \/ Restart
    BY <2>2 DEF Crash, Restart, ResetMemory
  <2>. QED BY <1>7, <2>1, <2>2 DEF Environment, MetadataChanges, Signal, ClockStep, ages
<1>8. ASSUME NEW c \in Caller, Backend(c) \/ (c # Self /\ Operator(c))
      PROVE  StaleInv'
  <2>1. UNCHANGED <<pc, ages>>
    BY <1>8, OperatorFrame DEF Backend
  <2>. QED BY <2>1 DEF ages
<1>9. CASE UNCHANGED vars
  BY <1>9 DEF vars, ages
<1>. QED BY <1>6, <1>7, <1>8, <1>9 DEF Next

LEMMA OpenStep ==
  ASSUME StaleInv, [Next]_vars, IsOpen(kernel'), ~IsOpen(kernel)
  PROVE  staleFor >= StaleLimit /\ lastPlan # NoPlan
<1>. USE DEF StaleInv
<1>1. PICK c \in Caller : WrittenBy(c)
  BY KernelFrame
<1>2. call[c].op = "apply" /\ kernel' = Exact(call[c].plan)
  <2>1. call[c].op = "apply"
    BY <1>1 DEF WrittenBy, Running, Transaction, IsOpen, TypeInv, TypeOK, BackendTypeOK, Call
  <2>. QED BY <1>1, <2>1 DEF WrittenBy, Transaction, IsOpen
<1>3. c = Self /\ call[Self].plan.kind = "open"
  BY <1>2 DEF IsOpen, Exact, TypeInv, CallsOfOthers
<1>4. pc = "open"
  BY <1>2, <1>3 DEF TypeInv, CallOfLoop, PolicyPlan
<1>. QED BY <1>4, StaleLimitAssumption DEF TypeInv, TypeOK, CallOfLoop

(* Enforcement is given up only by an agent that had a success, and none   *)
(* for FailOpenAfter, whatever nft, tableExists, operators, signals and    *)
(* crashes do: only a step of the wall clock makes it premature.           *)
THEOREM OpensWhenStale ==
  ASSUME "clock" \notin Faults
  PROVE  Spec => OpensOnlyWhenStale
<1>1. StaleInv /\ [Next]_vars => StaleInv'
  BY StaleStep
<1>2. StaleInv /\ [Next]_vars =>
        [IsOpen(kernel)' /\ ~IsOpen(kernel) =>
           staleFor >= StaleLimit /\ lastPlan # NoPlan]_vars
  <2>. SUFFICES ASSUME StaleInv, [Next]_vars, IsOpen(kernel)', ~IsOpen(kernel)
                PROVE  staleFor >= StaleLimit /\ lastPlan # NoPlan
    OBVIOUS
  <2>. QED BY OpenStep DEF IsOpen
<1>. QED BY <1>1, <1>2, StaleInit, PTL DEF Spec, OpensOnlyWhenStale

-----------------------------------------------------------------------------
(* The refinement: every step of Manager is a step of Enforcement or leaves *)
(* everything the promise speaks of alone.                                 *)
Wanted == View(call[Self].plan)
InPlace == IF kernel = NoTable THEN View(NoPlan) ELSE View(kernel.plan)
Published == IF status.state = "ready" THEN View(status.digest) ELSE View(NoPlan)
Success == IF lastPlan = NoPlan THEN "never"
           ELSE IF staleFor < StaleLimit THEN "recent" ELSE "stale"

Seen == <<source, Wanted, InPlace, Published, Success>>

(* A loop that is in no call wants nothing.                                *)
IdleCall == call[Self].op = "none" => call[Self].plan = NoPlan

RefinementInv == ReadyInv /\ StaleInv /\ IdleCall

(* The faults under which the promise is kept.                             *)
FaultsAreKept == ExitStatusIsTruth /\ "clock" \notin Faults

(* Every plan is seen as something, and told from an absent one.           *)
LEMMA ViewShape ==
  /\ View(NoPlan) = Promise!Nothing
  /\ \A plan \in PolicyPlan : View(plan) = Promise!Enforcing(plan.of) /\ plan.of \in Policy
  /\ \A plan \in Plan : plan.kind = "open" => View(plan) = Promise!AllowOnly
  /\ \A plan \in Plan : plan.kind = "policy" => plan \in PolicyPlan
  /\ \A plan \in Plan : plan # NoPlan /\ View(plan) # Promise!Nothing
  /\ \A p \in Policy : View(Compiled(p)) = Promise!Enforcing(p)
  /\ \A plan \in PolicyPlan : View(FailOpenPlan(plan)) = Promise!AllowOnly
<1>1. \A plan \in Plan : /\ plan # NoPlan
                         /\ plan = [kind |-> plan.kind, of |-> plan.of]
                         /\ plan.of \in Policy /\ plan.kind \in {"policy", "open"}
  BY PlanAssumption DEF Plan
<1>2. PolicyPlan \subseteq Plan /\ \A plan \in PolicyPlan : plan.kind = "policy"
  BY PolicyPlanShape DEF PolicyPlan
<1>3. View(NoPlan) = Promise!Nothing
  BY DEF View, Promise!Nothing
<1>4. \A plan \in Plan : plan.kind = "open" => View(plan) = Promise!AllowOnly
  BY <1>1 DEF View, Promise!AllowOnly
<1>5. \A plan \in Plan : plan.kind = "policy" => View(plan) = Promise!Enforcing(plan.of)
  BY <1>1 DEF View, Promise!Enforcing
<1>6. Promise!AllowOnly # Promise!Nothing /\ \A p \in Policy : Promise!Enforcing(p) # Promise!Nothing
  <2>1. Promise!AllowOnly.kind = "open" /\ Promise!Nothing.kind = "nothing"
        /\ \A p \in Policy : Promise!Enforcing(p).kind = "policy"
    BY DEF Promise!AllowOnly, Promise!Nothing, Promise!Enforcing
  <2>. QED BY <2>1
<1>7. \A p \in Policy : View(Compiled(p)) = Promise!Enforcing(p)
  <2>1. \A p \in Policy : Compiled(p) \in Plan /\ Compiled(p).kind = "policy" /\ Compiled(p).of = p
    BY DEF Compiled, Plan
  <2>. QED BY <1>5, <2>1
<1>8. \A plan \in PolicyPlan : View(FailOpenPlan(plan)) = Promise!AllowOnly
  <2>1. \A plan \in PolicyPlan : FailOpenPlan(plan) \in Plan /\ FailOpenPlan(plan).kind = "open"
    BY PolicyPlanShape DEF FailOpenPlan
  <2>. QED BY <1>4, <2>1
<1>9. \A plan \in Plan : plan.kind = "policy" => plan \in PolicyPlan
  BY <1>1 DEF Plan, PolicyPlan
<1>. QED BY <1>1, <1>2, <1>3, <1>4, <1>5, <1>6, <1>7, <1>8, <1>9

(* A table that holds a plan is seen as that plan.                         *)
LEMMA ExactIsSeen ==
  ASSUME NEW plan \in Plan
  PROVE  Exact(plan) # NoTable /\ Exact(plan).plan = plan
BY PlanShape DEF Exact

-----------------------------------------------------------------------------
LEMMA RefinementInit == Init => RefinementInv /\ Promise!Init
<1>. SUFFICES ASSUME Init PROVE RefinementInv /\ Promise!Init
  OBVIOUS
<1>1. RefinementInv
  BY ReadyInit, StaleInit, SelfAssumption DEF Init, RefinementInv, IdleCall, NoCall
<1>2. View(call[Self].plan) = Promise!Nothing
  BY ViewShape, SelfAssumption DEF Init, NoCall
<1>3. InPlace \in {Promise!Enforcing(p) : p \in Policy}
                    \cup {Promise!AllowOnly, Promise!Nothing}
  <2>1. CASE kernel = NoTable
    BY <2>1, ViewShape DEF InPlace
  <2>2. ASSUME NEW plan \in Plan, kernel = Exact(plan)
        PROVE  InPlace \in {Promise!Enforcing(p) : p \in Policy}
                            \cup {Promise!AllowOnly, Promise!Nothing}
    <3>1. InPlace = View(plan)
      BY <2>2, ExactIsSeen DEF InPlace
    <3>2. plan.kind = "open" \/ plan.kind = "policy"
      BY DEF Plan
    <3>. QED BY <3>1, <3>2, ViewShape
  <2>3. kernel = NoTable \/ \E plan \in Plan : kernel = Exact(plan)
    BY Zenon DEF Init
  <2>. QED BY <2>1, <2>2, <2>3
<1>4. /\ Published = Promise!Nothing
      /\ Success = "never"
      /\ source \in Policy \cup {NoPolicy}
  BY ViewShape DEF Init, Published, Success, FreshStatus
<1>. QED BY <1>1, <1>2, <1>3, <1>4 DEF Promise!Init, InPlace, Published, Success

(* A call that ends forgets its plan.                                      *)
LEMMA IdleCallStep ==
  ASSUME RefinementInv, [Next]_vars
  PROVE  IdleCall'
<1>. USE SelfAssumption DEF IdleCall
<1>0. TypeInv /\ IdleCall
  BY DEF RefinementInv, StaleInv
<1>1. CASE ManagerStep
  <2>1. LoopCallNext
    BY <1>0, <1>1, ManagerFrame
  <2>2. CASE call'[Self] = call[Self]
    BY <1>0, <2>2
  <2>3. CASE call'[Self] = NoCall
    BY <2>3 DEF NoCall
  <2>4. ASSUME NEW plan \in Plan, NEW done \in BOOLEAN, call'[Self] = ApplyCall(plan, done)
        PROVE  IdleCall'
    BY <2>4 DEF ApplyCall
  <2>. QED BY <2>1, <2>2, <2>3, <2>4 DEF LoopCallNext
<1>2. CASE Environment
  BY <1>0, <1>2 DEF Environment, PollElapses, MetadataChanges, Signal, ClockStep, Crash,
       Restart, CallerDies, NoCall, Call, TypeInv, TypeOK, BackendTypeOK
<1>3. ASSUME NEW c \in Caller, Backend(c)
      PROVE  IdleCall'
  <2>1. CallKept(c) /\ Running(c)
    BY <1>0, <1>3, BackendStep DEF Backend, TypeInv, TypeOK
  <2>. QED BY <1>0, <2>1 DEF CallKept
<1>4. ASSUME NEW c \in Caller \ {Self}, Operator(c)
      PROVE  IdleCall'
  BY <1>0, <1>4, OperatorFrame
<1>5. CASE UNCHANGED vars
  BY <1>0, <1>5 DEF vars
<1>. QED BY <1>1, <1>2, <1>3, <1>4, <1>5 DEF Next

LEMMA RefinementInvStep ==
  ASSUME FaultsAreKept, RefinementInv, [Next]_vars
  PROVE  RefinementInv'
BY ReadyStep, StaleStep, IdleCallStep DEF FaultsAreKept, RefinementInv

-----------------------------------------------------------------------------
(* One step of the loop is at most one step of the promise.                *)

(* An attempt that fails gives up, or comes to want the allow-only table.  *)
LEMMA FailureKeepsPromise ==
  ASSUME RefinementInv, RecordFailure, pc \in {"snapshot", "apply"}
  PROVE  Promise!Next
<1>0. TypeInv /\ TypeOK /\ nowAge <= staleFor
  BY DEF RefinementInv, StaleInv, TypeInv
<1>1. UNCHANGED <<source, InPlace, Success>> /\ Published' = Promise!Nothing
  <2>1. status'.state = "degraded"
    BY <1>0 DEF RecordFailure, TypeOK, Status
  <2>. QED BY <2>1, ViewShape DEF RecordFailure, InPlace, Success, Published
<1>2. CASE MustOpen /\ BeginOpen
  <2>1. Success = "stale"
    BY <1>0, <1>2, StaleLimitAssumption DEF MustOpen, Success, TypeOK
  <2>2. lastPlan \in PolicyPlan
    BY <1>0, <1>2 DEF MustOpen, TypeOK, PolicyPlan
  <2>3. call'[Self].plan = FailOpenPlan(lastPlan)
    BY <1>0, <1>2, SelfAssumption DEF BeginOpen, ApplyCall, TypeOK, BackendTypeOK
  <2>4. Wanted' = Promise!AllowOnly
    BY <2>2, <2>3, ViewShape DEF Wanted
  <2>5. Promise!WantAllowOnly
    BY <1>1, <2>1, <2>4 DEF Promise!WantAllowOnly, Wanted, InPlace, Published, Success
  <2>. QED BY <2>5 DEF Promise!Next
<1>3. CASE call' = [call EXCEPT ![Self] = NoCall]
  <2>1. Wanted' = Promise!Nothing
    BY <1>0, <1>3, ViewShape, SelfAssumption DEF Wanted, NoCall, TypeOK, BackendTypeOK
  <2>2. Promise!GiveUp
    BY <1>1, <2>1 DEF Promise!GiveUp, Wanted, InPlace, Published, Success
  <2>. QED BY <2>2 DEF Promise!Next
<1>. QED BY <1>2, <1>3 DEF RecordFailure

(* An attempt that succeeds confirms a policy that is in force.            *)
LEMMA SuccessKeepsPromise ==
  ASSUME RefinementInv, NEW p \in Policy, Publish(Compiled(p)),
         kernel = Exact(Compiled(p)), kernel' = kernel,
         Wanted' = Promise!Nothing,
         \/ Wanted = Promise!Enforcing(p)
         \/ Wanted = Promise!Nothing /\ source = p
  PROVE  Promise!Next
<1>1. Compiled(p) \in PolicyPlan /\ Compiled(p) \in Plan /\ Compiled(p) # NoPlan
  BY PolicyPlanShape, PlanShape
<1>2. InPlace = Promise!Enforcing(p) /\ InPlace' = InPlace
  BY <1>1, ExactIsSeen, ViewShape DEF InPlace
<1>3. Published' = Promise!Enforcing(p)
  BY ViewShape DEF Publish, Published
<1>4. Success' \in {"recent", "stale"} /\ source' = source
  BY <1>1 DEF Publish, Success
<1>5. Promise!Confirm(p)
  BY <1>2, <1>3, <1>4 DEF Promise!Confirm, Wanted, InPlace, Published, Success
<1>. QED BY <1>5 DEF Promise!Next

LEMMA LoopKeepsPromise ==
  ASSUME RefinementInv, ManagerStep
  PROVE  Promise!Next \/ UNCHANGED Seen
<1>. USE SelfAssumption
<1>0. /\ TypeInv /\ TypeOK /\ BackendTypeOK /\ CallOfLoop
      /\ InstalledIsKnown /\ StatusIsKnown /\ IdleCall
  BY DEF RefinementInv, StaleInv, ReadyInv, TypeInv, TypeOK
<1>1. CASE RunStart \/ ReceiveTick \/ Stop
  BY <1>1 DEF RunStart, ReceiveTick, BeginAttempt, Stop, memory, ages, Seen, Wanted,
              InPlace, Published, Success
<1>2. CASE SnapshotFails \/ ApplyFails
  BY <1>2, FailureKeepsPromise DEF SnapshotFails, ApplyFails
<1>3. CASE SnapshotUnchanged
  <2>1. source \in Policy /\ Compiled(source) = appliedHash /\ Publish(Compiled(source))
        /\ kernel' = kernel /\ call' = call
    BY <1>0, <1>3 DEF SnapshotUnchanged, Unchanged, TypeOK
  <2>2. call[Self].op = "none" /\ ~Succeeded(Self)
    BY <1>0, <1>3 DEF SnapshotUnchanged, CallOfLoop, Succeeded
  <2>3. kernel = Exact(Compiled(source))
    BY <1>0, <2>1, <2>2, PolicyPlanShape, PlanShape DEF InstalledIsKnown
  <2>4. Wanted = Promise!Nothing /\ Wanted' = Promise!Nothing
    BY <1>0, <2>1, <2>2, ViewShape DEF IdleCall, Wanted
  <2>5. PICK p \in Policy : p = source
    BY <2>1
  <2>6. Publish(Compiled(p)) /\ kernel = Exact(Compiled(p))
    BY <2>1, <2>3, <2>5
  <2>. QED BY <2>1, <2>4, <2>5, <2>6, SuccessKeepsPromise
<1>4. CASE SnapshotChanged
  <2>1. source \in Policy
    BY <1>0, <1>4 DEF SnapshotChanged, TypeOK
  <2>2. Wanted = Promise!Nothing
    BY <1>0, <1>4, ViewShape DEF SnapshotChanged, CallOfLoop, IdleCall, Wanted
  <2>3. Wanted' = Promise!Enforcing(source)
    BY <1>0, <1>4, <2>1, ViewShape DEF SnapshotChanged, ApplyCall, Wanted, BackendTypeOK
  <2>4. UNCHANGED <<source, InPlace, Published, Success>>
    BY <1>4 DEF SnapshotChanged, memory, ages, InPlace, Published, Success
  <2>5. Promise!Want(source)
    BY <2>2, <2>3, <2>4 DEF Promise!Want, Wanted, InPlace, Published, Success
  <2>. QED BY <2>1, <2>5 DEF Promise!Next
<1>5. CASE ApplySucceeds
  <2>1. PICK plan \in PolicyPlan : plan = call[Self].plan
    BY <1>0, <1>5 DEF ApplySucceeds, CallOfLoop
  <2>2. PICK p \in Policy : plan = Compiled(p)
    BY DEF PolicyPlan, Compiled
  <2>3. Publish(Compiled(p)) /\ kernel' = kernel /\ kernel = Exact(Compiled(p))
    BY <1>0, <1>5, <2>1, <2>2 DEF ApplySucceeds, InstalledIsKnown
  <2>4. Wanted = Promise!Enforcing(p)
    BY <2>1, <2>2, ViewShape DEF Wanted
  <2>5. Wanted' = Promise!Nothing
    BY <1>0, <1>5, ViewShape DEF ApplySucceeds, NoCall, Wanted, BackendTypeOK
  <2>. QED BY <2>3, <2>4, <2>5, SuccessKeepsPromise
<1>6. CASE OpenSucceeds \/ OpenFails
  <2>1. Wanted' = Promise!Nothing
    BY <1>0, <1>6, ViewShape DEF OpenSucceeds, OpenFails, NoCall, Wanted, BackendTypeOK
  <2>2. status'.state = "degraded"
    BY <1>0, <1>6 DEF OpenSucceeds, OpenFails, memory, StatusIsKnown
  <2>3. Published' = Promise!Nothing
    BY <2>2, ViewShape DEF Published
  <2>4. UNCHANGED <<source, InPlace, Success>>
    BY <1>6 DEF OpenSucceeds, OpenFails, memory, InPlace, Success
  <2>5. Promise!GiveUp
    BY <2>1, <2>3, <2>4 DEF Promise!GiveUp, Wanted, InPlace, Published, Success
  <2>. QED BY <2>5 DEF Promise!Next
<1>. QED BY <1>1, <1>2, <1>3, <1>4, <1>5, <1>6 DEF ManagerStep

(* What happens around the loop is part of the promise, or unseen.         *)
LEMMA EnvironmentKeepsPromise ==
  ASSUME FaultsAreKept, RefinementInv, Environment
  PROVE  Promise!Next \/ UNCHANGED Seen
<1>. USE SelfAssumption
<1>0. /\ TypeInv /\ TypeOK /\ BackendTypeOK /\ CallOfLoop /\ IdleCall /\ ExactInv
  BY DEF RefinementInv, StaleInv, ReadyInv, TypeInv, TypeOK
<1>1. CASE PollElapses
  <2>1. UNCHANGED <<source, Wanted, InPlace, Published, lastPlan>> /\ staleFor' = Later(staleFor)
    BY <1>1 DEF PollElapses, memory, Wanted, InPlace, Published
  <2>2. CASE Success = "recent" /\ Success' = "stale"
    <3>1. Promise!Age
      BY <2>1, <2>2 DEF Promise!Age, Wanted, InPlace, Published, Success
    <3>. QED BY <3>1 DEF Promise!Next
  <2>3. CASE Success' = Success
    BY <2>1, <2>3 DEF Seen
  <2>. QED BY <1>0, <2>1, <2>2, <2>3, StaleLimitAssumption DEF Success, Later, TypeOK
<1>2. CASE MetadataChanges
  <2>1. Promise!Offer
    BY <1>2 DEF MetadataChanges, memory, ages, Promise!Offer
  <2>. QED BY <2>1 DEF Promise!Next
<1>3. CASE Signal
  <2>1. call'[Self].plan = call[Self].plan
    BY <1>0, <1>3 DEF Signal, BackendTypeOK, Call
  <2>. QED BY <1>3, <2>1 DEF Signal, memory, ages, Seen, Wanted, InPlace, Published, Success
<1>4. CASE ClockStep
  BY <1>4 DEF ClockStep, FaultsAreKept
<1>5. CASE Crash \/ Restart
  <2>1. Wanted' = Promise!Nothing
    BY <1>0, <1>5, ViewShape
    DEF Crash, CallerDies, Restart, CallOfLoop, IdleCall, NoCall, Wanted, BackendTypeOK
  <2>2. Published' = Promise!Nothing /\ Success' = "never" /\ source' = source
    BY <1>5, ViewShape DEF Crash, Restart, ResetMemory, FreshStatus, Published, Success
  <2>3. InPlace' = InPlace \/ (Wanted # Promise!Nothing /\ InPlace' = Wanted)
    <3>1. CASE kernel' = kernel
      BY <3>1 DEF InPlace
    <3>2. CASE WrittenBy(Self)
      <4>1. kernel' = Exact(call[Self].plan)
        BY <1>0, <3>2, WriteIsExact
      <4>2. call[Self].plan \in Plan
        BY <1>0, <3>2, LoopCall DEF WrittenBy, Running, CallOfLoop
      <4>. QED BY <4>1, <4>2, ExactIsSeen, ViewShape DEF InPlace, Wanted
    <3>. QED BY <1>5, <3>1, <3>2 DEF Crash, CallerDies, Restart, WrittenBy
  <2>4. Promise!End
    BY <2>1, <2>2, <2>3 DEF Promise!End, Wanted, InPlace, Published, Success
  <2>. QED BY <2>4 DEF Promise!Next
<1>. QED BY <1>1, <1>2, <1>3, <1>4, <1>5 DEF Environment

(* Of the steps of nft only the transaction shows.                         *)
LEMMA BackendKeepsPromise ==
  ASSUME FaultsAreKept, RefinementInv, NEW c \in Caller, Backend(c)
  PROVE  Promise!Next \/ UNCHANGED Seen
<1>. USE SelfAssumption
<1>1. /\ Running(c) /\ CallKept(c) /\ (KernelKept(c) \/ KernelWritten(c))
      /\ UNCHANGED <<source, memory, ages>>
  BY BackendStep DEF Backend, RefinementInv, StaleInv, TypeInv, TypeOK
<1>2. c = Self /\ call[Self].plan \in Plan
  BY <1>1, LoopCall DEF Running, RefinementInv, StaleInv, ReadyInv, TypeInv, CallOfLoop
<1>3. UNCHANGED <<Wanted, Published, Success>>
  BY <1>1, <1>2 DEF CallKept, memory, ages, Wanted, Published, Success
<1>4. CASE KernelKept(c)
  BY <1>1, <1>3, <1>4 DEF KernelKept, InPlace, Seen
<1>5. CASE KernelWritten(c)
  <2>1. kernel' = Exact(call[Self].plan)
    BY <1>1, <1>2, <1>5, WriteIsExact DEF KernelWritten, WrittenBy, RefinementInv, ReadyInv
  <2>2. InPlace' = Wanted /\ Wanted # Promise!Nothing
    BY <1>2, <2>1, ExactIsSeen, ViewShape DEF InPlace, Wanted
  <2>3. Promise!Install
    BY <1>1, <1>3, <2>2 DEF Promise!Install, Wanted, InPlace, Published, Success
  <2>. QED BY <2>3 DEF Promise!Next
<1>. QED BY <1>1, <1>4, <1>5

LEMMA RefinementStep ==
  ASSUME FaultsAreKept, RefinementInv, [Next]_vars
  PROVE  [Promise!Next]_(Promise!vars)
<1>1. ASSUME NEW c \in Caller \ {Self}, Operator(c)
      PROVE  FALSE
  BY <1>1 DEF Operator, OperatorCleanup, OperatorExits, Succeeded, Failed, RefinementInv,
              ReadyInv, FaultsAreKept, ExitStatusIsTruth
<1>2. UNCHANGED vars => UNCHANGED Seen
  BY DEF vars, memory, ages, Seen, Wanted, InPlace, Published, Success
<1>3. Promise!Next \/ UNCHANGED Seen
  <2>1. CASE ManagerStep
    BY <2>1, LoopKeepsPromise
  <2>2. CASE Environment
    BY <2>2, EnvironmentKeepsPromise
  <2>3. CASE \E c \in Caller : Backend(c)
    BY <2>3, BackendKeepsPromise
  <2>. QED BY <1>1, <1>2, <2>1, <2>2, <2>3 DEF Next
<1>4. UNCHANGED Seen => UNCHANGED Promise!vars
  BY DEF Seen, Wanted, InPlace, Published, Success, Promise!vars
<1>. QED BY <1>3, <1>4

(* The reconcile loop implements the promise, for any policies, any stale  *)
(* interval and attempts of any length, when an exit status tells what the *)
(* kernel did, no operator cleans up and nobody steps the clock.           *)
THEOREM LoopImplementsPromise ==
  ASSUME FaultsAreKept
  PROVE  Spec => KeepsPromise
<1>1. RefinementInv /\ [Next]_vars => RefinementInv'
  BY RefinementInvStep
<1>2. RefinementInv /\ [Next]_vars => [Promise!Next]_(Promise!vars)
  BY RefinementStep
<1>. QED BY <1>1, <1>2, RefinementInit, PTL DEF Spec, KeepsPromise, Promise!Spec
-----------------------------------------------------------------------------
(* The loop without its clock.  What it must remember to be a loop of       *)
(* Serve: the plan it would open from is the one its digest test remembers. *)
OpensWhatIsApplied == lastPlan # NoPlan /\ ~status.open => appliedHash = lastPlan

ServedInv == TypeInv /\ OpensWhatIsApplied

ServedCall ==
  [c \in {Self} \X {"loop", "main"} |-> IF c[2] = "loop" THEN call[Self] ELSE NoCall]
ServedLoop ==
  [a \in {Self} |-> CASE pc = "start" -> "idle" [] pc = "stopped" -> "returned" [] OTHER -> pc]
ServedApplied == [a \in {Self} |-> appliedHash]
ServedCancelled == [a \in {Self} |-> cancelled]

LEMMA ServedInit == Init => ServedInv
BY TypeInit DEF Init, ServedInv, OpensWhatIsApplied

(* The digest test is passed, or brought up to date, wherever lastPlan is. *)
LEMMA ServedStep == ServedInv /\ [Next]_vars => ServedInv'
<1>. SUFFICES ASSUME ServedInv, [Next]_vars PROVE OpensWhatIsApplied'
  BY TypeStep DEF ServedInv
<1>. USE DEF ServedInv, OpensWhatIsApplied
<1>1. ASSUME RecordFailure PROVE OpensWhatIsApplied'
  <2>1. status'.open = status.open /\ UNCHANGED <<lastPlan, appliedHash>>
    BY <1>1 DEF RecordFailure, TypeInv, TypeOK, Status
  <2>. QED BY <2>1
<1>2. CASE SnapshotFails \/ ApplyFails
  BY <1>1, <1>2 DEF SnapshotFails, ApplyFails
<1>3. CASE RunStart \/ ReceiveTick \/ Stop \/ SnapshotChanged \/ OpenFails
  BY <1>3 DEF RunStart, ReceiveTick, BeginAttempt, Stop, SnapshotChanged, OpenFails, memory
<1>4. CASE SnapshotUnchanged \/ ApplySucceeds
  BY <1>4 DEF SnapshotUnchanged, Unchanged, ApplySucceeds, Publish
<1>5. CASE OpenSucceeds
  BY <1>5 DEF OpenSucceeds
<1>6. CASE Environment
  <2>1. CASE Crash \/ Restart
    BY <2>1 DEF Crash, Restart, ResetMemory
  <2>2. CASE PollElapses \/ MetadataChanges \/ Signal \/ ClockStep
    BY <2>2 DEF PollElapses, MetadataChanges, Signal, ClockStep, memory
  <2>. QED BY <1>6, <2>1, <2>2 DEF Environment
<1>7. ASSUME NEW c \in Caller, Backend(c) PROVE OpensWhatIsApplied'
  BY <1>7 DEF Backend, memory
<1>8. ASSUME NEW c \in Caller \ {Self}, Operator(c) PROVE OpensWhatIsApplied'
  BY <1>8, OperatorFrame DEF memory
<1>9. CASE UNCHANGED vars
  BY <1>9 DEF vars, memory
<1>. QED BY <1>2, <1>3, <1>4, <1>5, <1>6, <1>7, <1>8, <1>9 DEF Next, ManagerStep

(* Serve sees the call of the loop as it is, and a change of it as one.    *)
LEMMA CallIsServed ==
  /\ ServedCall[<<Self, "loop">>] = call[Self]
  /\ ServedCall' = [ServedCall EXCEPT ![<<Self, "loop">>] = call'[Self]]
<1>1. <<Self, "loop">> \in {Self} \X {"loop", "main"}
  OBVIOUS
<1>2. \A c \in {Self} \X {"loop", "main"} : c[2] = "loop" <=> c = <<Self, "loop">>
  OBVIOUS
<1>3. NoCall' = NoCall
  BY DEF NoCall
<1>. QED BY <1>1, <1>2, <1>3 DEF ServedCall

(* A step of the loop that leaves the main goroutine alone.                *)
LEMMA LoopIsMoved ==
  ASSUME NEW where, ServedLoop'[Self] = where, UNCHANGED <<source, cancelled>>
  PROVE  Unclocked!LoopTo(Self, where)
<1>1. ServedLoop' = [ServedLoop EXCEPT ![Self] = where]
  BY DEF ServedLoop
<1>. QED BY <1>1 DEF ServedLoop, Unclocked!LoopTo

LEMMA StateIsServed ==
  /\ Unclocked!Running(Unclocked!Loop(Self)) <=> Running(Self)
  /\ Unclocked!Succeeded(Unclocked!Loop(Self)) <=> Succeeded(Self)
  /\ Unclocked!Failed(Unclocked!Loop(Self)) <=> Failed(Self)
  /\ Unclocked!NoCall = NoCall
  /\ \A p : Unclocked!Compiled(p) = Compiled(p)
  /\ \A plan : Unclocked!FailOpenPlan(plan) = FailOpenPlan(plan)
  /\ \A plan, done : Unclocked!ApplyCall(plan, done) = ApplyCall(plan, done)
BY CallIsServed
DEF ServedCall, Unclocked!Loop, Unclocked!Running, Running, Unclocked!Succeeded, Succeeded,
    Unclocked!Failed, Failed, Unclocked!NoCall, NoCall, Unclocked!Compiled, Compiled,
    Unclocked!FailOpenPlan, FailOpenPlan, Unclocked!ApplyCall, ApplyCall
(* A failed attempt: MustOpen is one way for Serve's loop to go on, not    *)
(* opening the other.                                                      *)
LEMMA FailureIsServed ==
  ASSUME ServedInv, RecordFailure,
         \/ pc = "snapshot" /\ (source = NoPolicy \/ cancelled)
         \/ pc = "apply" /\ Failed(Self)
  PROVE  Unclocked!LoopStep(Self)
<1>. USE SelfAssumption DEF ServedInv, TypeInv, TypeOK, BackendTypeOK
<1>1. Unclocked!LoopFailure(Self)
  BY StateIsServed DEF Unclocked!LoopFailure
<1>2. UNCHANGED <<kernel, source, cancelled, appliedHash>>
  BY DEF RecordFailure
<1>3. CASE MustOpen /\ BeginOpen
  <2>1. /\ appliedHash = lastPlan /\ appliedHash # NoPlan /\ appliedHash.kind = "policy"
        /\ call'[Self] = ApplyCall(FailOpenPlan(appliedHash), FALSE)
        /\ ServedLoop'[Self] = "open"
    BY <1>3 DEF MustOpen, BeginOpen, OpensWhatIsApplied, ServedLoop
  <2>2. Unclocked!LoopTo(Self, "open")
    BY <1>2, <2>1, LoopIsMoved
  <2>3. ServedCall' = [ServedCall EXCEPT ![Unclocked!Loop(Self)] =
                         Unclocked!ApplyCall(Unclocked!FailOpenPlan(appliedHash), FALSE)]
    BY <2>1, CallIsServed, StateIsServed DEF Unclocked!Loop
  <2>4. Unclocked!LoopOpens(Self)
    BY <1>1, <1>2, <2>1, <2>2, <2>3 DEF Unclocked!LoopOpens, ServedCall
  <2>. QED BY <2>4 DEF Unclocked!LoopStep
<1>4. CASE EndAttempt /\ call' = [call EXCEPT ![Self] = NoCall]
  <2>1. call'[Self] = NoCall /\ ServedLoop'[Self] = "idle"
    BY <1>4 DEF EndAttempt, ServedLoop
  <2>2. Unclocked!LoopTo(Self, "idle")
    BY <1>2, <2>1, LoopIsMoved
  <2>3. ServedCall' = [ServedCall EXCEPT ![Unclocked!Loop(Self)] = Unclocked!NoCall]
    BY <2>1, CallIsServed, StateIsServed DEF Unclocked!Loop
  <2>4. Unclocked!LoopFails(Self)
    BY <1>1, <1>2, <2>2, <2>3 DEF Unclocked!LoopFails, ServedCall
  <2>. QED BY <2>4 DEF Unclocked!LoopStep
<1>. QED BY <1>3, <1>4 DEF RecordFailure

(* Each step of the loop is a step of Serve's loop.                        *)
LEMMA LoopStepIsServed ==
  ASSUME ServedInv, ManagerStep
  PROVE  Unclocked!LoopStep(Self)
<1>. USE SelfAssumption DEF ServedInv, TypeInv, TypeOK, BackendTypeOK
<1>1. CASE RunStart \/ ReceiveTick
  <2>1. ServedLoop[Self] = "idle" /\ ServedLoop'[Self] = "snapshot"
        /\ UNCHANGED <<kernel, call, source, cancelled, appliedHash>>
    BY <1>1 DEF RunStart, ReceiveTick, BeginAttempt, memory, ServedLoop
  <2>2. Unclocked!LoopTo(Self, "snapshot")
    BY <2>1, LoopIsMoved
  <2>3. Unclocked!LoopTick(Self)
    BY <2>1, <2>2 DEF Unclocked!LoopTick, ServedLoop, NoCall
  <2>. QED BY <2>3 DEF Unclocked!LoopStep
<1>2. CASE Stop
  <2>1. ServedLoop[Self] = "idle" /\ ServedLoop'[Self] = "returned" /\ cancelled
        /\ UNCHANGED <<kernel, call, source, cancelled, appliedHash>>
    BY <1>2 DEF Stop, memory, ServedLoop
  <2>2. Unclocked!LoopTo(Self, "returned")
    BY <2>1, LoopIsMoved
  <2>3. Unclocked!LoopReturns(Self)
    BY <2>1, <2>2 DEF Unclocked!LoopReturns, ServedLoop, NoCall
  <2>. QED BY <2>3 DEF Unclocked!LoopStep
<1>3. CASE SnapshotFails \/ ApplyFails
  BY <1>3, FailureIsServed DEF SnapshotFails, ApplyFails
<1>4. CASE SnapshotUnchanged
  <2>1. ServedLoop'[Self] = "idle" /\ source # NoPolicy /\ appliedHash = Compiled(source)
        /\ UNCHANGED <<kernel, call, source, cancelled, appliedHash>>
    BY <1>4 DEF SnapshotUnchanged, Unchanged, Publish, EndAttempt, ServedLoop
  <2>2. Unclocked!LoopTo(Self, "idle")
    BY <2>1, LoopIsMoved
  <2>3. Unclocked!LoopUnchanged(Self)
    BY <1>4, <2>1, <2>2, StateIsServed DEF SnapshotUnchanged, Unclocked!LoopUnchanged, NoCall
  <2>. QED BY <2>3 DEF Unclocked!LoopStep
<1>5. CASE SnapshotChanged
  <2>1. /\ ServedLoop'[Self] = "apply" /\ source # NoPolicy /\ appliedHash # Compiled(source)
        /\ call'[Self] = ApplyCall(Compiled(source), cancelled)
        /\ UNCHANGED <<kernel, source, cancelled, appliedHash>>
    BY <1>5 DEF SnapshotChanged, Unchanged, memory, ServedLoop
  <2>2. Unclocked!LoopTo(Self, "apply")
    BY <2>1, LoopIsMoved
  <2>3. ServedCall' = [ServedCall EXCEPT ![Unclocked!Loop(Self)] =
                         Unclocked!ApplyCall(Unclocked!Compiled(source), cancelled)]
    BY <2>1, CallIsServed, StateIsServed DEF Unclocked!Loop
  <2>4. Unclocked!LoopApplies(Self)
    BY <1>5, <2>1, <2>2, <2>3, StateIsServed
    DEF SnapshotChanged, Unclocked!LoopApplies, ServedCall
  <2>. QED BY <2>4 DEF Unclocked!LoopStep
<1>6. CASE ApplySucceeds \/ OpenSucceeds
  <2>1. /\ pc \in {"apply", "open"} /\ Succeeded(Self)
        /\ ServedLoop'[Self] = "idle" /\ call'[Self] = NoCall
        /\ UNCHANGED <<kernel, source, cancelled>> /\ appliedHash' = call[Self].plan
    BY <1>6 DEF ApplySucceeds, OpenSucceeds, Publish, EndAttempt, ServedLoop
  <2>2. Unclocked!LoopTo(Self, "idle")
    BY <2>1, LoopIsMoved
  <2>3. ServedCall' = [ServedCall EXCEPT ![Unclocked!Loop(Self)] = Unclocked!NoCall]
    BY <2>1, CallIsServed, StateIsServed DEF Unclocked!Loop
  <2>4. ServedApplied' = [ServedApplied EXCEPT ![Self] = ServedCall[Unclocked!Loop(Self)].plan]
    BY <2>1, CallIsServed DEF ServedApplied, Unclocked!Loop
  <2>5. Unclocked!LoopApplied(Self)
    BY <2>1, <2>2, <2>3, <2>4, StateIsServed
    DEF Unclocked!LoopApplied, ServedCall, ServedApplied
  <2>. QED BY <2>5 DEF Unclocked!LoopStep
<1>7. CASE OpenFails
  <2>1. /\ pc = "open" /\ Failed(Self)
        /\ ServedLoop'[Self] = "idle" /\ call'[Self] = NoCall
        /\ UNCHANGED <<kernel, source, cancelled, appliedHash>>
    BY <1>7 DEF OpenFails, EndAttempt, memory, ServedLoop
  <2>2. Unclocked!LoopTo(Self, "idle")
    BY <2>1, LoopIsMoved
  <2>3. ServedCall' = [ServedCall EXCEPT ![Unclocked!Loop(Self)] = Unclocked!NoCall]
    BY <2>1, CallIsServed, StateIsServed DEF Unclocked!Loop
  <2>4. Unclocked!LoopOpenFails(Self)
    BY <2>1, <2>2, <2>3, StateIsServed DEF Unclocked!LoopOpenFails, ServedCall
  <2>. QED BY <2>4 DEF Unclocked!LoopStep
<1>. QED BY <1>1, <1>2, <1>3, <1>4, <1>5, <1>6, <1>7 DEF ManagerStep

(* Each process of the agent's nft calls is one Serve's loop starts.       *)
LEMMA ProcessIsServed ==
  ASSUME ServedInv, Backend(Self)
  PROVE  Unclocked!Backend(Unclocked!Loop(Self))
<1>. USE SelfAssumption DEF ServedInv, TypeInv, TypeOK, BackendTypeOK
<1>. DEFINE L == Unclocked!Loop(Self)
<1>1. ServedCall[L] = call[Self] /\ ServedCall' = [ServedCall EXCEPT ![L] = call'[Self]]
  BY CallIsServed DEF Unclocked!Loop
<1>2. UNCHANGED <<source, pc, cancelled, appliedHash>>
  BY DEF Backend, memory
<1>3. /\ Unclocked!Accepted(L) <=> Accepted(Self)
      /\ Unclocked!Transaction(L) = Transaction(Self)
      /\ Unclocked!ListResult(L) = ListResult(Self)
  BY <1>1
  DEF ServedCall, Unclocked!Accepted, Accepted, Unclocked!Applicable, Applicable,
      Unclocked!Transaction, Transaction, Unclocked!Exact, Exact,
      Unclocked!ListResult, ListResult
<1>4. Unclocked!Running(L) <=> Running(Self)
  BY StateIsServed
<1>. SUFFICES Unclocked!NFTStep(L) \/ Unclocked!Expire(L)
  BY <1>2 DEF Unclocked!Backend, Unclocked!agents
<1>5. CASE ListTable(Self)
  <2>1. PICK found \in ListResult(Self) :
          call' = [call EXCEPT ![Self].found = found,
                               ![Self].step = IF call[Self].op = "cleanup" /\ ~found
                                              THEN "ok" ELSE "check"]
    BY <1>5 DEF ListTable
  <2>2. ServedCall' = [ServedCall EXCEPT ![L].found = found,
                                         ![L].step = IF ServedCall[L].op = "cleanup" /\ ~found
                                                     THEN "ok" ELSE "check"]
    BY <1>1, <2>1 DEF Unclocked!Loop, ServedCall
  <2>3. \E x \in Unclocked!ListResult(L) :
          ServedCall' = [ServedCall EXCEPT ![L].found = x,
                                           ![L].step = IF ServedCall[L].op = "cleanup" /\ ~x
                                                       THEN "ok" ELSE "check"]
    BY <1>3, <2>2
  <2>4. kernel' = kernel /\ Running(Self) /\ ServedCall[L].step = "list"
    BY <1>1, <1>5 DEF ListTable
  <2>5. Unclocked!ListTable(L)
    BY <1>4, <2>3, <2>4, Zenon DEF Unclocked!ListTable, ServedCall
  <2>. QED BY <2>5 DEF Unclocked!NFTStep
<1>6. ASSUME NEW step, call' = [call EXCEPT ![Self].step = step]
      PROVE  ServedCall' = [ServedCall EXCEPT ![L].step = step]
  BY <1>1, <1>6 DEF Unclocked!Loop, ServedCall
<1>7. CASE CheckPasses(Self)
  <2>1. ServedCall' = [ServedCall EXCEPT ![L].step = "commit"]
    BY <1>6, <1>7 DEF CheckPasses
  <2>2. Unclocked!CheckPasses(L)
    BY <1>1, <1>3, <1>4, <1>7, <2>1 DEF CheckPasses, Unclocked!CheckPasses, ServedCall
  <2>. QED BY <2>2 DEF Unclocked!NFTStep
<1>8. CASE CheckFails(Self) \/ CommitFails(Self)
  <2>1. ServedCall' = [ServedCall EXCEPT ![L].step = "failed"]
    BY <1>6, <1>8 DEF CheckFails, CommitFails
  <2>2. Unclocked!CheckFails(L) \/ Unclocked!CommitFails(L)
    BY <1>1, <1>3, <1>4, <1>8, <2>1
    DEF CheckFails, Unclocked!CheckFails, CommitFails, Unclocked!CommitFails, ServedCall
  <2>. QED BY <2>2 DEF Unclocked!NFTStep
<1>9. CASE CommitSucceeds(Self)
  <2>1. ServedCall' = [ServedCall EXCEPT ![L].step = "ok"]
    BY <1>6, <1>9 DEF CommitSucceeds
  <2>2. Unclocked!CommitSucceeds(L)
    BY <1>1, <1>3, <1>4, <1>9, <2>1 DEF CommitSucceeds, Unclocked!CommitSucceeds, ServedCall
  <2>. QED BY <2>2 DEF Unclocked!NFTStep
<1>10. CASE CommitLost(Self)
  <2>1. ServedCall' = [ServedCall EXCEPT ![L].step = "failed"]
    BY <1>6, <1>10 DEF CommitLost
  <2>2. Unclocked!CommitLost(L)
    BY <1>1, <1>3, <1>4, <1>10, <2>1 DEF CommitLost, Unclocked!CommitLost, ServedCall
  <2>. QED BY <2>2 DEF Unclocked!NFTStep
<1>11. CASE Expire(Self)
  <2>1. ServedCall' = [ServedCall EXCEPT ![L].expired = TRUE]
    BY <1>1, <1>11 DEF Expire, Unclocked!Loop, ServedCall
  <2>. QED BY <1>1, <1>4, <1>11, <2>1 DEF Expire, Unclocked!Expire, ServedCall
<1>. QED BY <1>5, <1>7, <1>8, <1>9, <1>10, <1>11 DEF Backend, NFTStep

(* SIGTERM is seen alike by both, also by an Apply the loop is in.         *)
LEMMA SignalIsServed ==
  ASSUME ServedInv, Signal
  PROVE  Unclocked!Signal(Self)
<1>. USE SelfAssumption DEF ServedInv, TypeInv, TypeOK, BackendTypeOK
<1>. DEFINE L == Unclocked!Loop(Self)
<1>1. ServedCall[L] = call[Self] /\ ServedCall' = [ServedCall EXCEPT ![L] = call'[Self]]
  BY CallIsServed DEF Unclocked!Loop
<1>2. (pc = "apply" <=> ServedLoop[Self] = "apply") /\ (Unclocked!Running(L) <=> Running(Self))
  BY StateIsServed DEF ServedLoop
<1>3. ServedCall' = [ServedCall EXCEPT ![L].expired =
                       @ \/ (ServedLoop[Self] = "apply" /\ Unclocked!Running(L))]
  BY <1>1, <1>2 DEF Signal, Unclocked!Loop, ServedCall
<1>4. ServedCancelled' = [ServedCancelled EXCEPT ![Self] = TRUE]
  BY DEF Signal, ServedCancelled
<1>. QED BY <1>3, <1>4
     DEF Signal, memory, Unclocked!Signal, ServedCall, ServedLoop, ServedCancelled

(* A step of the life of one container is one that Serve allows.           *)
LEMMA StepIsServed ==
  ASSUME ServedInv, [Next]_vars, ~Crash, ~Restart
  PROVE  \/ [Unclocked!Next]_(Unclocked!vars)
         \/ \E c \in Caller \ {Self} : Backend(c)
<1>. DEFINE frame == <<kernel, call[Self], source, pc, cancelled, appliedHash>>
<1>1. UNCHANGED frame => UNCHANGED Unclocked!vars
  BY DEF Unclocked!vars, Unclocked!agents, NoCall
<1>2. CASE ManagerStep
  BY <1>2, LoopStepIsServed DEF Unclocked!Next, Unclocked!AgentStep
<1>3. CASE Backend(Self)
  <2>1. Unclocked!Loop(Self) \in {Self} \X {"loop", "main"}
    BY DEF Unclocked!Loop
  <2>. QED BY <1>3, <2>1, ProcessIsServed DEF Unclocked!Next
<1>4. CASE Signal
  BY <1>4, SignalIsServed DEF Unclocked!Next, Unclocked!AgentStep
<1>5. CASE MetadataChanges
  <2>1. Unclocked!MetadataChanges
    BY <1>5 DEF MetadataChanges, memory, Unclocked!MetadataChanges, Unclocked!agents, NoCall
  <2>. QED BY <2>1 DEF Unclocked!Next
<1>6. CASE PollElapses \/ ClockStep \/ UNCHANGED vars
  <2>1. UNCHANGED frame
    BY <1>6 DEF PollElapses, ClockStep, vars, memory
  <2>. QED BY <1>1, <2>1
<1>7. ASSUME NEW c \in Caller \ {Self}, Operator(c)
      PROVE  [Unclocked!Next]_(Unclocked!vars)
  <2>1. UNCHANGED frame
    <3>1. kernel' = kernel /\ UNCHANGED <<source, pc, cancelled, appliedHash>>
      BY <1>7 DEF Operator, OperatorCleanup, OperatorExits, memory
    <3>2. call'[Self] = call[Self]
      BY <1>7, OperatorFrame DEF ServedInv
    <3>. QED BY <3>1, <3>2
  <2>. QED BY <1>1, <2>1
<1>. QED BY <1>2, <1>3, <1>4, <1>5, <1>6, <1>7 DEF Next, Environment

(* Whatever its clock, lastPlan and status decide, the reconcile loop of a *)
(* container takes only steps that the loop of module Serve may take, for  *)
(* any policies, operators and faults: the loop that agents of one host    *)
(* are shown to run there abstracts this one.                              *)
THEOREM LoopIsOneOfServe == Spec => LoopIsServed
<1>1. ServedInv /\ [Next]_vars => ServedInv'
  BY ServedStep
<1>2. ServedInv /\ [Next]_vars =>
        [~Crash /\ ~Restart =>
           \/ [Unclocked!Next]_(Unclocked!vars)
           \/ \E c \in Caller \ {Self} : Backend(c)]_vars
  BY StepIsServed
<1>. QED BY <1>1, <1>2, ServedInit, PTL DEF Spec, LoopIsServed
=============================================================================
