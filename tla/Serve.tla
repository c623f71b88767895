-------------------------------- MODULE Serve --------------------------------
(***************************************************************************)
(* The serve command (cmd/network-policy-manager/main.go, runServe): the   *)
(* agents that live on one host one after the other, the last with the     *)
(* next.  An agent is a main goroutine, which owns the health port, waits  *)
(* for SIGTERM, joins the loop, gives the port back and may clean up, and  *)
(* the goroutine of manager.Run.  Each of the two calls the backend, so    *)
(* the callers are the goroutines.                                         *)
(*                                                                         *)
(* The loop is the one of module Manager without its clock: it opens when  *)
(* it fails and has a plan to open from, or does not.                      *)
(***************************************************************************)
EXTENDS NFTBackend

CONSTANTS
  Agent,     \* the processes; each is started at most once
  Cleaning,  \* the agents run with --cleanup-on-exit
  Nobody,    \* no process listens on the health port
  NoPolicy   \* metadata fails, or holds nothing Compile accepts

Loop(a) == <<a, "loop">>
Main(a) == <<a, "main">>

ASSUME CallerAssumption == Caller = Agent \X {"loop", "main"}
ASSUME CleaningAssumption == Cleaning \subseteq Agent
ASSUME NobodyAssumption == Nobody \notin Agent
ASSUME NoPolicyAssumption == NoPolicy \notin Policy

VARIABLES
  source,     \* the policy a snapshot would compile to now
  port,       \* the process that listens on the health port
  main,       \* where the main goroutine of each agent stands
  loop,       \* where its loop stands
  cancelled,  \* the context of signal.NotifyContext is done
  applied,    \* manager.appliedHash
  said        \* the last line an agent prints

agents == <<port, main, loop, cancelled, applied, said>>
vars == <<kernel, call, source, agents>>

TypeOK ==
  /\ BackendTypeOK
  /\ source \in Policy \cup {NoPolicy}
  /\ port \in Agent \cup {Nobody}
  /\ main \in [Agent -> {"new", "select", "join", "cleanup", "exited"}]
  /\ loop \in [Agent -> {"none", "failed", "snapshot", "apply", "open", "idle", "returned"}]
  /\ cancelled \in [Agent -> BOOLEAN]
  /\ applied \in [Agent -> Plan \cup {NoPlan}]
  /\ said \in [Agent -> {"nothing", "preserved", "removed", "error"}]

Init ==
  /\ kernel = NoTable
  /\ call = [c \in Caller |-> NoCall]
  /\ source \in Policy \cup {NoPolicy}
  /\ port = Nobody
  /\ main = [a \in Agent |-> "new"]
  /\ loop = [a \in Agent |-> "none"]
  /\ cancelled = [a \in Agent |-> FALSE]
  /\ applied = [a \in Agent |-> NoPlan]
  /\ said = [a \in Agent |-> "nothing"]

-----------------------------------------------------------------------------
(* The goroutine of manager.Run.                                           *)

LoopTo(a, where) ==
  /\ loop' = [loop EXCEPT ![a] = where]
  /\ UNCHANGED <<source, port, main, cancelled, said>>

LoopTick(a) ==
  /\ loop[a] = "idle"
  /\ LoopTo(a, "snapshot")
  /\ UNCHANGED <<kernel, call, applied>>

LoopReturns(a) ==
  /\ loop[a] = "idle"
  /\ cancelled[a]
  /\ LoopTo(a, "returned")
  /\ UNCHANGED <<kernel, call, applied>>

LoopUnchanged(a) ==
  /\ loop[a] = "snapshot"
  /\ source # NoPolicy
  /\ applied[a] = Compiled(source)
  /\ LoopTo(a, "idle")
  /\ UNCHANGED <<kernel, call, applied>>

LoopApplies(a) ==
  /\ loop[a] = "snapshot"
  /\ source # NoPolicy
  /\ applied[a] # Compiled(source)
  /\ LoopTo(a, "apply")
  /\ call' = [call EXCEPT ![Loop(a)] = ApplyCall(Compiled(source), cancelled[a])]
  /\ UNCHANGED <<kernel, applied>>

LoopFailure(a) ==
  \/ loop[a] = "snapshot" /\ (source = NoPolicy \/ cancelled[a])
  \/ loop[a] = "apply" /\ Failed(Loop(a))

LoopFails(a) ==
  /\ LoopFailure(a)
  /\ LoopTo(a, "idle")
  /\ call' = [call EXCEPT ![Loop(a)] = NoCall]
  /\ UNCHANGED <<kernel, applied>>

(* An agent opens once, from the plan it has in force.  The Apply runs on   *)
(* context.Background(), which SIGTERM spares.                             *)
LoopOpens(a) ==
  /\ LoopFailure(a)
  /\ applied[a] # NoPlan
  /\ applied[a].kind = "policy"
  /\ LoopTo(a, "open")
  /\ call' = [call EXCEPT ![Loop(a)] = ApplyCall(FailOpenPlan(applied[a]), FALSE)]
  /\ UNCHANGED <<kernel, applied>>

\* Mutant of LoopApplied: the hash of the allow-only table is not recorded.
LoopAppliedHashKept(a) ==
  /\ loop[a] \in {"apply", "open"}
  /\ Succeeded(Loop(a))
  /\ applied' = IF loop[a] = "open" THEN applied
                ELSE [applied EXCEPT ![a] = call[Loop(a)].plan]
  /\ LoopTo(a, "idle")
  /\ call' = [call EXCEPT ![Loop(a)] = NoCall]
  /\ UNCHANGED kernel

LoopApplied(a) ==
  /\ loop[a] \in {"apply", "open"}
  /\ Succeeded(Loop(a))
  /\ applied' = [applied EXCEPT ![a] = call[Loop(a)].plan]
  /\ LoopTo(a, "idle")
  /\ call' = [call EXCEPT ![Loop(a)] = NoCall]
  /\ UNCHANGED kernel

LoopOpenFails(a) ==
  /\ loop[a] = "open"
  /\ Failed(Loop(a))
  /\ LoopTo(a, "idle")
  /\ call' = [call EXCEPT ![Loop(a)] = NoCall]
  /\ UNCHANGED <<kernel, applied>>

-----------------------------------------------------------------------------
(* The main goroutine.                                                     *)

PortWithout(a) == IF port = a THEN Nobody ELSE port

(* The process ends, and its loop and what that had in flight with it.     *)
Exit(a, line) ==
  /\ main' = [main EXCEPT ![a] = "exited"]
  /\ said' = [said EXCEPT ![a] = line]
  /\ port' = PortWithout(a)
  /\ loop' = [loop EXCEPT ![a] = "returned"]
  /\ UNCHANGED <<source, cancelled, applied>>

(* net.Listen comes first: an agent that finds the port taken is no agent. *)
(* Its loop then begins, or Run refuses its intervals.                     *)
Start(a) ==
  /\ main[a] = "new"
  /\ port = Nobody
  /\ port' = a
  /\ main' = [main EXCEPT ![a] = "select"]
  /\ \E where \in {"snapshot", "failed"} : loop' = [loop EXCEPT ![a] = where]
  /\ UNCHANGED <<kernel, call, source, cancelled, applied, said>>

ListenFails(a) ==
  /\ main[a] = "new"
  /\ port # Nobody
  /\ Exit(a, "error")
  /\ UNCHANGED <<kernel, call>>

(* SIGTERM, which also ends the context of an Apply the loop is in.        *)
Signal(a) ==
  /\ main[a] = "select"
  /\ ~cancelled[a]
  /\ cancelled' = [cancelled EXCEPT ![a] = TRUE]
  /\ call' = [call EXCEPT ![Loop(a)].expired =
                @ \/ (loop[a] = "apply" /\ Running(Loop(a)))]
  /\ UNCHANGED <<kernel, source, port, main, loop, applied, said>>

ServerFails(a) ==
  /\ "listener" \in Faults
  /\ main[a] = "select"
  /\ Exit(a, "error")
  /\ CallerDies(Loop(a))

\* Mutant of SelectDone: the port is given back before the loop is joined.
SelectDoneClosing(a) ==
  /\ main[a] = "select"
  /\ cancelled[a]
  /\ main' = [main EXCEPT ![a] = "join"]
  /\ port' = Nobody
  /\ UNCHANGED <<kernel, call, source, loop, cancelled, applied, said>>

SelectDone(a) ==
  /\ main[a] = "select"
  /\ cancelled[a]
  /\ main' = [main EXCEPT ![a] = "join"]
  /\ UNCHANGED <<kernel, call, source, port, loop, cancelled, applied, said>>

(* server.Shutdown closes the listener, and only then Cleanup begins.      *)
ShutdownAndClean(a) ==
  /\ a \in Cleaning
  /\ main' = [main EXCEPT ![a] = "cleanup"]
  /\ port' = Nobody
  /\ call' = [call EXCEPT ![Main(a)] = CleanupCall]
  /\ UNCHANGED <<kernel, source, loop, cancelled, applied, said>>

ShutdownAndPreserve(a) ==
  /\ a \notin Cleaning
  /\ Exit(a, "preserved")
  /\ UNCHANGED <<kernel, call>>

(* managerError delivers, before or after the signal was seen.             *)
Joined(a) ==
  /\ main[a] \in {"select", "join"}
  /\ loop[a] = "returned"
  /\ ShutdownAndClean(a) \/ ShutdownAndPreserve(a)

(* managerError delivers an error: the agent shuts nothing down.            *)
RunFails(a) ==
  /\ main[a] \in {"select", "join"}
  /\ loop[a] = "failed"
  /\ Exit(a, "error")
  /\ UNCHANGED <<kernel, call>>

\* Mutants of JoinTimesOut: the shutdown goes on without the loop; it waits.
JoinTimesOutGoesOn(a) ==
  /\ main[a] = "join"
  /\ loop[a] # "returned"
  /\ ShutdownAndClean(a) \/ ShutdownAndPreserve(a)

JoinTimesOutNever(a) == FALSE /\ UNCHANGED vars

(* time.After(5s): the table is left alone, whatever --cleanup-on-exit asks. *)
JoinTimesOut(a) ==
  /\ main[a] = "join"
  /\ loop[a] \notin {"failed", "returned"}
  /\ Exit(a, "error")
  /\ CallerDies(Loop(a))

CleanupEnds(a) ==
  /\ main[a] = "cleanup"
  /\ \/ Succeeded(Main(a)) /\ Exit(a, "removed")
     \/ Failed(Main(a)) /\ Exit(a, "error")
  /\ call' = [call EXCEPT ![Main(a)] = NoCall]
  /\ UNCHANGED kernel

(* SIGKILL, the death of the container, or a second SIGTERM after stop().  *)
Kill(a) ==
  /\ "crash" \in Faults
  /\ main[a] \in {"select", "join", "cleanup"}
  /\ Exit(a, "error")
  /\ CallerDies(IF main[a] = "cleanup" THEN Main(a) ELSE Loop(a))

MetadataChanges ==
  /\ source' \in (Policy \cup {NoPolicy}) \ {source}
  /\ UNCHANGED <<kernel, call, agents>>

Backend(c) ==
  /\ NFTStep(c) \/ Expire(c)
  /\ UNCHANGED <<source, agents>>

-----------------------------------------------------------------------------
LoopStep(a) ==
  \/ LoopTick(a)
  \/ LoopReturns(a)
  \/ LoopUnchanged(a)
  \/ LoopApplies(a)
  \/ LoopFails(a)
  \/ LoopOpens(a)
  \/ LoopApplied(a)
  \/ LoopOpenFails(a)

MainStep(a) ==
  \/ SelectDone(a)
  \/ Joined(a)
  \/ RunFails(a)
  \/ JoinTimesOut(a)
  \/ CleanupEnds(a)

AgentStep(a) ==
  \/ Start(a)
  \/ ListenFails(a)
  \/ Signal(a)
  \/ ServerFails(a)
  \/ Kill(a)
  \/ LoopStep(a)
  \/ MainStep(a)

Next ==
  \/ MetadataChanges
  \/ \E a \in Agent : AgentStep(a)
  \/ \E c \in Caller : Backend(c)

Spec == Init /\ [][Next]_vars

(* Goroutines run, an nft process ends or meets its deadline, and nft is   *)
(* not refused for ever.  Nothing obliges anybody to start an agent.       *)
Fairness ==
  \A a \in Agent :
    /\ WF_vars(LoopStep(a))
    /\ WF_vars(MainStep(a))
    /\ WF_vars(Backend(Main(a)))
    /\ WF_vars(NFTStep(Loop(a)) /\ Backend(Loop(a)))
    /\ SF_vars(~call[Loop(a)].expired /\ ListTable(Loop(a)) /\ Backend(Loop(a)))
    /\ SF_vars(CheckPasses(Loop(a)) /\ Backend(Loop(a)))
    /\ SF_vars(CommitSucceeds(Loop(a)) /\ Backend(Loop(a)))

FairSpec == Spec /\ Fairness

-----------------------------------------------------------------------------
(* The cleanup of an agent runs only after its reconcile loop has stopped  *)
(* (SECURITY.md:9), so that no Apply of its own can bring the table back.  *)
CleanupAfterLoop ==
  \A a \in Agent :
    call[Main(a)].op = "cleanup" => loop[a] = "returned" /\ call[Loop(a)].op = "none"

(* The health port is the lock of the host: the loops of two agents never  *)
(* apply at the same time, however one ends and the next begins.           *)
OneWriter ==
  \A a, b \in Agent :
    call[Loop(a)].op = "apply" /\ call[Loop(b)].op = "apply" => a = b

(* SIGTERM ends the agent, even one whose Apply hangs.                     *)
SignalEndsAgent ==
  \A a \in Agent : cancelled[a] ~> main[a] = "exited"

(* An agent that stays up while metadata stays at p comes to enforce p,    *)
(* whatever the agent before it did on its way out (README.md:99).         *)
SuccessorEnforces ==
  \A a \in Agent, p \in Policy :
    <>[](source = p /\ main[a] = "select" /\ ~cancelled[a]) =>
      <>[](kernel = Exact(Compiled(p)))
=============================================================================
