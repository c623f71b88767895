----------------------------- MODULE ServeProofs -----------------------------
(***************************************************************************)
(* Theorems about the agents of one host, for any number of agents, any    *)
(* choice of those that clean up, any set of policies and every fault.     *)
(***************************************************************************)
EXTENDS Serve, NFTBackendProofs

-----------------------------------------------------------------------------
(* An agent holds the health port from its start to its shutdown, its loop *)
(* lives no longer than that, and each goroutine is in a call of the       *)
(* backend exactly while it stands where it makes one.                     *)
LoopCallInv(a) ==
  /\ loop[a] \in {"apply", "open"} =>
       call[Loop(a)].op = "apply" /\ call[Loop(a)].plan \in Plan
  /\ loop[a] \notin {"apply", "open"} => call[Loop(a)].op = "none"

MainCallInv(a) ==
  /\ main[a] = "cleanup" => call[Main(a)].op = "cleanup"
  /\ main[a] # "cleanup" => call[Main(a)].op = "none"

AgentInv(a) ==
  /\ port = a <=> main[a] \in {"select", "join"}
  /\ main[a] = "new" => loop[a] = "none"
  /\ main[a] \in {"cleanup", "exited"} => loop[a] = "returned"
  /\ LoopCallInv(a)
  /\ MainCallInv(a)

ServeInv == TypeOK /\ \A a \in Agent : AgentInv(a)

(* A step of agent a leaves the other agents as they are.                  *)
OthersKept(a) ==
  \A b \in Agent \ {a} :
    /\ main'[b] = main[b] /\ loop'[b] = loop[b]
    /\ call'[Loop(b)] = call[Loop(b)] /\ call'[Main(b)] = call[Main(b)]
    /\ port' = b <=> port = b

LEMMA Goroutines ==
  ASSUME NEW a \in Agent
  PROVE  /\ Loop(a) \in Caller /\ Main(a) \in Caller /\ Loop(a) # Main(a)
         /\ \A b \in Agent \ {a} : /\ Loop(b) \in Caller \ {Loop(a), Main(a)}
                                   /\ Main(b) \in Caller \ {Loop(a), Main(a)}
BY CallerAssumption DEF Loop, Main

LEMMA EveryCaller ==
  ASSUME NEW c \in Caller
  PROVE  \E a \in Agent : c = Loop(a) \/ c = Main(a)
BY CallerAssumption DEF Loop, Main

LEMMA CallShape ==
  /\ NoCall \in Call /\ NoCall.op = "none"
  /\ CleanupCall \in Call /\ CleanupCall.op = "cleanup"
  /\ \A plan \in Plan, done \in BOOLEAN :
       /\ ApplyCall(plan, done) \in Call
       /\ ApplyCall(plan, done).op = "apply"
       /\ ApplyCall(plan, done).plan = plan
BY DEF Call, NoCall, CleanupCall, ApplyCall

(* A call that is begun or ended in one goroutine.                         *)
LEMMA CallUpdate ==
  ASSUME TypeOK, NEW c \in Caller, NEW new \in Call, call' = [call EXCEPT ![c] = new]
  PROVE  /\ call' \in [Caller -> Call]
         /\ call'[c] = new
         /\ \A d \in Caller \ {c} : call'[d] = call[d]
BY DEF TypeOK, BackendTypeOK

(* Where the other agents are as they were, the invariant holds of them.   *)
LEMMA StepOfOne ==
  ASSUME ServeInv, NEW a \in Agent, TypeOK', AgentInv(a)', OthersKept(a)
  PROVE  ServeInv'
BY DEF ServeInv, AgentInv, LoopCallInv, MainCallInv, OthersKept

-----------------------------------------------------------------------------
LEMMA ServeInit == Init => ServeInv
BY CallShape, Goroutines, NobodyAssumption
DEF Init, ServeInv, TypeOK, BackendTypeOK, AgentInv, LoopCallInv, MainCallInv

(* The steps of a loop.                                                    *)
LEMMA LoopStepKeeps ==
  ASSUME ServeInv, NEW a \in Agent, LoopStep(a)
  PROVE  ServeInv'
<1>. USE Goroutines
<1>0. TypeOK /\ AgentInv(a)
  BY DEF ServeInv
<1>1. CASE LoopTick(a) \/ LoopReturns(a) \/ LoopUnchanged(a)
  <2>1. UNCHANGED <<kernel, call, source, port, main, cancelled, applied, said>>
    BY <1>1 DEF LoopTick, LoopReturns, LoopUnchanged, LoopTo
  <2>2. PICK where \in {"snapshot", "returned", "idle"} : loop' = [loop EXCEPT ![a] = where]
    BY <1>1 DEF LoopTick, LoopReturns, LoopUnchanged, LoopTo
  <2>3. loop[a] \in {"idle", "snapshot"}
    BY <1>1 DEF LoopTick, LoopReturns, LoopUnchanged
  <2>4. main[a] \in {"select", "join"}
    BY <1>0, <2>3 DEF AgentInv, TypeOK
  <2>5. TypeOK'
    BY <1>0, <2>1, <2>2 DEF TypeOK, BackendTypeOK
  <2>6. AgentInv(a)'
    BY <1>0, <2>1, <2>2, <2>3, <2>4 DEF AgentInv, LoopCallInv, MainCallInv, TypeOK
  <2>7. OthersKept(a)
    BY <1>0, <2>1, <2>2 DEF OthersKept, TypeOK
  <2>. QED BY <2>5, <2>6, <2>7, StepOfOne
<1>2. CASE LoopApplies(a) \/ LoopOpens(a)
  <2>1. /\ loop[a] \in {"snapshot", "apply"}
        /\ UNCHANGED <<kernel, source, port, main, cancelled, applied, said>>
    BY <1>2 DEF LoopApplies, LoopOpens, LoopFailure, LoopTo
  <2>2. PICK where \in {"apply", "open"} : loop' = [loop EXCEPT ![a] = where]
    BY <1>2 DEF LoopApplies, LoopOpens, LoopTo
  <2>3. \E plan \in Plan, done \in BOOLEAN :
          call' = [call EXCEPT ![Loop(a)] = ApplyCall(plan, done)]
    <3>1. CASE LoopApplies(a)
      <4>1. Compiled(source) \in Plan /\ cancelled[a] \in BOOLEAN
        BY <1>0, <3>1, PlanShape DEF LoopApplies, TypeOK
      <4>2. call' = [call EXCEPT ![Loop(a)] = ApplyCall(Compiled(source), cancelled[a])]
        BY <3>1 DEF LoopApplies
      <4>. QED BY <4>1, <4>2
    <3>2. CASE LoopOpens(a)
      <4>1. FailOpenPlan(applied[a]) \in Plan
        BY <1>0, <3>2, PlanShape DEF LoopOpens, TypeOK
      <4>2. call' = [call EXCEPT ![Loop(a)] = ApplyCall(FailOpenPlan(applied[a]), FALSE)]
        BY <3>2 DEF LoopOpens
      <4>. QED BY <4>1, <4>2
    <3>. QED BY <1>2, <3>1, <3>2
  <2>4. PICK new \in Call : /\ call' = [call EXCEPT ![Loop(a)] = new]
                           /\ new.op = "apply" /\ new.plan \in Plan
    <3>1. PICK plan \in Plan, done \in BOOLEAN :
            call' = [call EXCEPT ![Loop(a)] = ApplyCall(plan, done)]
      BY <2>3
    <3>2. /\ ApplyCall(plan, done) \in Call
          /\ ApplyCall(plan, done).op = "apply" /\ ApplyCall(plan, done).plan = plan
      BY CallShape
    <3>. QED BY <3>1, <3>2, Zenon
  <2>5. /\ call' \in [Caller -> Call]
        /\ call'[Loop(a)].op = "apply" /\ call'[Loop(a)].plan \in Plan
        /\ \A d \in Caller \ {Loop(a)} : call'[d] = call[d]
    BY <1>0, <2>4, CallUpdate
  <2>6. main[a] \in {"select", "join"}
    BY <1>0, <2>1 DEF AgentInv, TypeOK
  <2>7. TypeOK'
    BY <1>0, <2>1, <2>2, <2>5 DEF TypeOK, BackendTypeOK
  <2>8. AgentInv(a)'
    BY <1>0, <2>1, <2>2, <2>5, <2>6 DEF AgentInv, LoopCallInv, MainCallInv, TypeOK
  <2>9. OthersKept(a)
    BY <1>0, <2>1, <2>2, <2>5 DEF OthersKept, TypeOK
  <2>. QED BY <2>7, <2>8, <2>9, StepOfOne
<1>3. CASE LoopFails(a) \/ LoopApplied(a) \/ LoopOpenFails(a)
  <2>1. /\ loop[a] \in {"snapshot", "apply", "open"}
        /\ loop' = [loop EXCEPT ![a] = "idle"]
        /\ call' = [call EXCEPT ![Loop(a)] = NoCall]
        /\ UNCHANGED <<kernel, source, port, main, cancelled, said>>
    BY <1>3 DEF LoopFails, LoopApplied, LoopOpenFails, LoopFailure, LoopTo
  <2>2. applied' \in [Agent -> Plan \cup {NoPlan}]
    BY <1>0, <1>3 DEF LoopFails, LoopApplied, LoopOpenFails, AgentInv, LoopCallInv, TypeOK
  <2>3. /\ call' \in [Caller -> Call] /\ call'[Loop(a)].op = "none"
        /\ \A d \in Caller \ {Loop(a)} : call'[d] = call[d]
    BY <1>0, <2>1, CallShape, CallUpdate
  <2>4. main[a] \in {"select", "join"}
    BY <1>0, <2>1 DEF AgentInv, TypeOK
  <2>5. TypeOK'
    BY <1>0, <2>1, <2>2, <2>3 DEF TypeOK, BackendTypeOK
  <2>6. AgentInv(a)'
    BY <1>0, <2>1, <2>3, <2>4 DEF AgentInv, LoopCallInv, MainCallInv, TypeOK
  <2>7. OthersKept(a)
    BY <1>0, <2>1, <2>3 DEF OthersKept, TypeOK
  <2>. QED BY <2>5, <2>6, <2>7, StepOfOne
<1>. QED BY <1>1, <1>2, <1>3 DEF LoopStep

-----------------------------------------------------------------------------
(* The death of a process leaves the table its nft had to write, or not.   *)
LEMMA DeathKeepsTypes ==
  ASSUME ServeInv, NEW a \in Agent, NEW c \in {Loop(a), Main(a)}, CallerDies(c)
  PROVE  /\ kernel' \in Table \cup {NoTable}
         /\ call' \in [Caller -> Call]
         /\ call'[c] = NoCall
         /\ \A d \in Caller \ {c} : call'[d] = call[d]
<1>. USE Goroutines
<1>0. TypeOK /\ AgentInv(a) /\ c \in Caller
  BY DEF ServeInv
<1>1. kernel' \in Table \cup {NoTable}
  <2>1. CASE UNCHANGED kernel
    BY <1>0, <2>1 DEF TypeOK, BackendTypeOK
  <2>2. CASE Running(c) /\ kernel' = Transaction(c)
    <3>1. call[c].op \in {"apply", "cleanup"} /\ (call[c].op = "apply" => call[c].plan \in Plan)
      BY <1>0, <2>2 DEF Running, AgentInv, LoopCallInv, MainCallInv
    <3>. QED BY <1>0, <2>2, <3>1, TransactionType DEF TypeOK
  <2>. QED BY <2>1, <2>2 DEF CallerDies
<1>2. call' = [call EXCEPT ![c] = NoCall]
  BY DEF CallerDies
<1>. QED BY <1>0, <1>1, <1>2, CallShape, CallUpdate

(* An agent that exits, with its goroutines in no call.                    *)
LEMMA ExitKeeps ==
  ASSUME ServeInv, NEW a \in Agent,
         NEW line \in {"preserved", "removed", "error"}, Exit(a, line),
         main[a] = "new" => port # a,
         kernel' \in Table \cup {NoTable},
         call' \in [Caller -> Call],
         call'[Loop(a)].op = "none", call'[Main(a)].op = "none",
         \A d \in Caller \ {Loop(a), Main(a)} : call'[d] = call[d]
  PROVE  ServeInv'
<1>. USE Goroutines
<1>0. TypeOK /\ AgentInv(a)
  BY DEF ServeInv
<1>1. port' # a /\ port' \in Agent \cup {Nobody} /\ \A b \in Agent \ {a} : port' = b <=> port = b
  BY <1>0, NobodyAssumption DEF Exit, PortWithout, TypeOK
<1>2. TypeOK'
  BY <1>0, <1>1 DEF Exit, TypeOK, BackendTypeOK
<1>3. AgentInv(a)'
  BY <1>0, <1>1 DEF Exit, AgentInv, LoopCallInv, MainCallInv, TypeOK
<1>4. OthersKept(a)
  BY <1>0, <1>1 DEF Exit, OthersKept, TypeOK
<1>. QED BY <1>2, <1>3, <1>4, StepOfOne

(* Starts, signals and deaths.                                             *)
LEMMA LifeKeeps ==
  ASSUME ServeInv, NEW a \in Agent,
         Start(a) \/ ListenFails(a) \/ Signal(a) \/ ServerFails(a) \/ Kill(a)
  PROVE  ServeInv'
<1>. USE Goroutines
<1>0. TypeOK /\ AgentInv(a)
  BY DEF ServeInv
<1>1. CASE Start(a)
  <2>0. PICK where \in {"snapshot", "failed"} : loop' = [loop EXCEPT ![a] = where]
    BY <1>1 DEF Start
  <2>1. TypeOK'
    BY <1>0, <1>1, <2>0 DEF Start, TypeOK, BackendTypeOK
  <2>2. AgentInv(a)'
    BY <1>0, <1>1, <2>0 DEF Start, AgentInv, LoopCallInv, MainCallInv, TypeOK
  <2>3. OthersKept(a)
    BY <1>0, <1>1, <2>0, NobodyAssumption DEF Start, OthersKept, TypeOK
  <2>. QED BY <2>1, <2>2, <2>3, StepOfOne
<1>2. CASE ListenFails(a)
  <2>1. /\ main[a] = "new" /\ port # a /\ Exit(a, "error") /\ UNCHANGED <<kernel, call>>
        /\ call[Loop(a)].op = "none" /\ call[Main(a)].op = "none"
    BY <1>0, <1>2 DEF ListenFails, AgentInv, LoopCallInv, MainCallInv
  <2>. QED BY <1>0, <2>1, ExitKeeps DEF TypeOK, BackendTypeOK
<1>3. CASE Signal(a)
  <2>1. call[Loop(a)] \in Call
    BY <1>0 DEF TypeOK, BackendTypeOK
  <2>2. PICK b \in BOOLEAN : call' = [call EXCEPT ![Loop(a)].expired = b]
    BY <1>0, <1>3, <2>1 DEF Signal, Call, Running
  <2>3. /\ call' \in [Caller -> Call]
        /\ \A c \in Caller : call'[c].op = call[c].op /\ call'[c].plan = call[c].plan
        /\ \A c \in Caller \ {Loop(a)} : call'[c] = call[c]
    BY <1>0, <2>1, <2>2 DEF TypeOK, BackendTypeOK, Call
  <2>4. TypeOK'
    BY <1>0, <1>3, <2>3 DEF Signal, TypeOK, BackendTypeOK
  <2>5. AgentInv(a)'
    BY <1>0, <1>3, <2>3 DEF Signal, AgentInv, LoopCallInv, MainCallInv
  <2>6. OthersKept(a)
    BY <1>3, <2>3 DEF Signal, OthersKept
  <2>. QED BY <2>4, <2>5, <2>6, StepOfOne
<1>4. CASE ServerFails(a)
  <2>1. main[a] = "select" /\ Exit(a, "error") /\ CallerDies(Loop(a))
    BY <1>4 DEF ServerFails
  <2>2. call[Main(a)].op = "none"
    BY <1>0, <2>1 DEF AgentInv, MainCallInv
  <2>. QED BY <1>0, <2>1, <2>2, DeathKeepsTypes, ExitKeeps, CallShape
<1>5. CASE Kill(a)
  <2>1. main[a] \in {"select", "join", "cleanup"} /\ Exit(a, "error")
    BY <1>5 DEF Kill
  <2>2. CASE main[a] = "cleanup"
    <3>1. CallerDies(Main(a)) /\ call[Loop(a)].op = "none"
      BY <1>0, <1>5, <2>2 DEF Kill, AgentInv, LoopCallInv
    <3>. QED BY <1>0, <2>1, <2>2, <3>1, DeathKeepsTypes, ExitKeeps, CallShape
  <2>3. CASE main[a] # "cleanup"
    <3>1. CallerDies(Loop(a)) /\ call[Main(a)].op = "none"
      BY <1>0, <1>5, <2>3 DEF Kill, AgentInv, MainCallInv
    <3>. QED BY <1>0, <2>1, <2>3, <3>1, DeathKeepsTypes, ExitKeeps, CallShape
  <2>. QED BY <2>2, <2>3
<1>. QED BY <1>1, <1>2, <1>3, <1>4, <1>5

(* The steps of the main goroutine.                                        *)
LEMMA MainStepKeeps ==
  ASSUME ServeInv, NEW a \in Agent, MainStep(a)
  PROVE  ServeInv'
<1>. USE Goroutines
<1>0. TypeOK /\ AgentInv(a)
  BY DEF ServeInv
<1>1. CASE SelectDone(a)
  <2>1. TypeOK'
    BY <1>0, <1>1 DEF SelectDone, TypeOK, BackendTypeOK
  <2>2. AgentInv(a)'
    BY <1>0, <1>1 DEF SelectDone, AgentInv, LoopCallInv, MainCallInv, TypeOK
  <2>3. OthersKept(a)
    BY <1>0, <1>1 DEF SelectDone, OthersKept, TypeOK
  <2>. QED BY <2>1, <2>2, <2>3, StepOfOne
<1>2. CASE Joined(a) /\ ShutdownAndClean(a)
  <2>1. main[a] \in {"select", "join"} /\ loop[a] = "returned" /\ port = a
    BY <1>0, <1>2 DEF Joined, AgentInv
  <2>2. /\ call' \in [Caller -> Call] /\ call'[Main(a)].op = "cleanup"
        /\ \A d \in Caller \ {Main(a)} : call'[d] = call[d]
    BY <1>0, <1>2, CallShape, CallUpdate DEF ShutdownAndClean
  <2>3. TypeOK'
    BY <1>0, <1>2, <2>2 DEF ShutdownAndClean, TypeOK, BackendTypeOK
  <2>4. AgentInv(a)'
    BY <1>0, <1>2, <2>1, <2>2, NobodyAssumption
    DEF ShutdownAndClean, AgentInv, LoopCallInv, MainCallInv, TypeOK
  <2>5. OthersKept(a)
    BY <1>0, <1>2, <2>1, <2>2, NobodyAssumption DEF ShutdownAndClean, OthersKept, TypeOK
  <2>. QED BY <2>3, <2>4, <2>5, StepOfOne
<1>3. CASE Joined(a) /\ ShutdownAndPreserve(a)
  <2>1. /\ main[a] \in {"select", "join"} /\ Exit(a, "preserved") /\ UNCHANGED <<kernel, call>>
        /\ call[Loop(a)].op = "none" /\ call[Main(a)].op = "none"
    BY <1>0, <1>3 DEF Joined, ShutdownAndPreserve, AgentInv, LoopCallInv, MainCallInv
  <2>. QED BY <1>0, <2>1, ExitKeeps DEF TypeOK, BackendTypeOK
<1>4. CASE RunFails(a)
  <2>1. /\ main[a] \in {"select", "join"} /\ Exit(a, "error") /\ UNCHANGED <<kernel, call>>
        /\ call[Loop(a)].op = "none" /\ call[Main(a)].op = "none"
    BY <1>0, <1>4 DEF RunFails, AgentInv, LoopCallInv, MainCallInv
  <2>. QED BY <1>0, <2>1, ExitKeeps DEF TypeOK, BackendTypeOK
<1>5. CASE JoinTimesOut(a)
  <2>1. main[a] = "join" /\ Exit(a, "error") /\ CallerDies(Loop(a))
    BY <1>5 DEF JoinTimesOut
  <2>2. call[Main(a)].op = "none"
    BY <1>0, <2>1 DEF AgentInv, MainCallInv
  <2>. QED BY <1>0, <2>1, <2>2, DeathKeepsTypes, ExitKeeps, CallShape
<1>6. CASE CleanupEnds(a)
  <2>1. PICK line \in {"preserved", "removed", "error"} : Exit(a, line)
    BY <1>6 DEF CleanupEnds
  <2>2. /\ main[a] = "cleanup" /\ call[Loop(a)].op = "none"
        /\ kernel' = kernel /\ call' = [call EXCEPT ![Main(a)] = NoCall]
    BY <1>0, <1>6 DEF CleanupEnds, AgentInv, LoopCallInv
  <2>3. /\ call' \in [Caller -> Call] /\ call'[Main(a)].op = "none"
        /\ \A d \in Caller \ {Main(a)} : call'[d] = call[d]
    BY <1>0, <2>2, CallShape, CallUpdate
  <2>4. kernel' \in Table \cup {NoTable}
    BY <1>0, <2>2 DEF TypeOK, BackendTypeOK
  <2>. QED BY <1>0, <2>1, <2>2, <2>3, <2>4, ExitKeeps
<1>. QED BY <1>1, <1>2, <1>3, <1>4, <1>5, <1>6 DEF MainStep, Joined

(* The steps of nft, and the deadlines.                                    *)
LEMMA BackendKeeps ==
  ASSUME ServeInv, NEW c \in Caller, Backend(c)
  PROVE  ServeInv'
<1>1. /\ Running(c) /\ call' \in [Caller -> Call] /\ CallKept(c)
      /\ KernelKept(c) \/ KernelWritten(c)
  BY BackendStep DEF Backend, ServeInv, TypeOK
<1>2. call[c].op \in {"apply", "cleanup"} /\ (call[c].op = "apply" => call[c].plan \in Plan)
  <2>1. PICK a \in Agent : c = Loop(a) \/ c = Main(a)
    BY EveryCaller
  <2>. QED BY <1>1, <2>1 DEF Running, ServeInv, AgentInv, LoopCallInv, MainCallInv
<1>3. kernel' \in Table \cup {NoTable}
  BY <1>1, <1>2, TransactionType DEF KernelKept, KernelWritten, ServeInv, TypeOK, BackendTypeOK
<1>4. \A d \in Caller : call'[d].op = call[d].op /\ call'[d].plan = call[d].plan
  BY <1>1 DEF CallKept
<1>5. TypeOK'
  BY <1>1, <1>3 DEF Backend, agents, ServeInv, TypeOK, BackendTypeOK
<1>6. ASSUME NEW a \in Agent PROVE AgentInv(a)'
  BY <1>4, Goroutines DEF Backend, agents, ServeInv, AgentInv, LoopCallInv, MainCallInv
<1>. QED BY <1>5, <1>6 DEF ServeInv

LEMMA ServeStep == ServeInv /\ [Next]_vars => ServeInv'
<1>. SUFFICES ASSUME ServeInv, [Next]_vars PROVE ServeInv'
  OBVIOUS
<1>1. CASE MetadataChanges
  BY <1>1 DEF MetadataChanges, agents, ServeInv, TypeOK, BackendTypeOK, AgentInv,
              LoopCallInv, MainCallInv
<1>2. CASE \E a \in Agent : AgentStep(a)
  BY <1>2, LifeKeeps, LoopStepKeeps, MainStepKeeps DEF AgentStep
<1>3. CASE \E c \in Caller : Backend(c)
  BY <1>3, BackendKeeps
<1>4. CASE UNCHANGED vars
  BY <1>4 DEF vars, agents, ServeInv, TypeOK, BackendTypeOK, AgentInv, LoopCallInv,
              MainCallInv
<1>. QED BY <1>1, <1>2, <1>3, <1>4 DEF Next

-----------------------------------------------------------------------------
(* Every variable stays in its type: in particular the plan an agent       *)
(* remembers as applied is one it applied.                                 *)
THEOREM ServeTypeCorrect == Spec => []TypeOK
<1>1. ServeInv => TypeOK
  BY DEF ServeInv
<1>. QED BY <1>1, ServeInit, ServeStep, PTL DEF Spec

(* The cleanup of an agent runs only when its loop has returned, even if   *)
(* the join timed out, the listener failed or the process was killed.      *)
THEOREM CleanupComesLast == Spec => []CleanupAfterLoop
<1>1. ServeInv => CleanupAfterLoop
  BY DEF ServeInv, AgentInv, LoopCallInv, MainCallInv, CleanupAfterLoop, TypeOK
<1>. QED BY <1>1, ServeInit, ServeStep, PTL DEF Spec

(* The health port keeps the loops of any number of agents from applying   *)
(* at the same time.                                                       *)
THEOREM OneLoopWrites == Spec => []OneWriter
<1>1. ASSUME ServeInv, NEW a \in Agent, call[Loop(a)].op = "apply"
      PROVE  port = a
  <2>1. AgentInv(a) /\ TypeOK
    BY <1>1 DEF ServeInv
  <2>2. loop[a] \in {"apply", "open"}
    BY <1>1, <2>1 DEF AgentInv, LoopCallInv
  <2>. QED BY <2>1, <2>2 DEF AgentInv, TypeOK
<1>2. ServeInv => OneWriter
  BY <1>1 DEF OneWriter
<1>. QED BY <1>2, ServeInit, ServeStep, PTL DEF Spec
=============================================================================
