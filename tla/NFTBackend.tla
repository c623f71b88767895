----------------------------- MODULE NFTBackend -----------------------------
(***************************************************************************)
(* The firewall backend (internal/enforcement/firewall.go): Apply and      *)
(* Cleanup as the three nft processes they start one after the other       *)
(*   nft list table ..., nft -c -f -, nft -f -                             *)
(* against the one kernel table the program owns.  Several callers can be  *)
(* in the middle of a call at once: the reconcile loop of an agent, the    *)
(* reconcile loop of its successor, an operator's "cleanup --yes".         *)
(*                                                                         *)
(* The kernel runs each nft transaction atomically.  What a caller learns  *)
(* of it is the exit status of a process, and Faults names the ways that   *)
(* status can mislead or disappoint:                                       *)
(*   "list"  nft list table exits non-zero although the table is there     *)
(*   "nft"   nft -c or nft exits non-zero and changes nothing              *)
(*   "lost"  nft commits and is killed before it can exit with status 0    *)
(***************************************************************************)
EXTENDS Naturals

CONSTANTS
  Caller,   \* processes that may be inside Apply or Cleanup at the same time
  Policy,   \* compiled policies, told apart as their digests tell them apart
  NoPlan,   \* the zero FirewallPlan, and the empty digest
  NoTable,  \* the kernel holds no table of the program
  Faults    \* the faults the environment may show

(***************************************************************************)
(* A plan is a policy Compile produced, or the allow-only plan FailOpenPlan *)
(* derives from the last one.  A plan stands for its digest too: digestPlan *)
(* hashes everything RenderNFT reads.                                      *)
(***************************************************************************)
Plan == [kind : {"policy", "open"}, of : Policy]

Compiled(p) == [kind |-> "policy", of |-> p]

\* Mutant of FailOpenPlan: the fields of the last plan are not carried over.
FailOpenPlanBare(previous) == [kind |-> "open"]

FailOpenPlan(previous) == [kind |-> "open", of |-> previous.of]

ASSUME PlanAssumption == NoPlan \notin Plan

(***************************************************************************)
(* The kernel's table.  It is exact when a packet meets the rules of its   *)
(* plan and nothing else: a script without "delete table" that meets an    *)
(* existing table adds its elements to the sets of the same name, and its  *)
(* rules behind the final return of the old chain.                         *)
(***************************************************************************)
Table == [plan : Plan, exact : BOOLEAN]

ASSUME TableAssumption == NoTable \notin Table

Exact(plan) == [plan |-> plan, exact |-> TRUE]

IsOpen(table) == table # NoTable /\ table.plan.kind = "open"

VARIABLES
  kernel,   \* the table the kernel holds
  call      \* for each caller, the Apply or Cleanup it is in

Call == [op      : {"none", "apply", "cleanup"},
         step    : {"list", "check", "commit", "ok", "failed"},
         plan    : Plan \cup {NoPlan},
         found   : BOOLEAN,    \* what tableExists returned
         expired : BOOLEAN]    \* the context of the call is done

BackendTypeOK ==
  /\ kernel \in Table \cup {NoTable}
  /\ call \in [Caller -> Call]

NoCall == [op |-> "none", step |-> "ok", plan |-> NoPlan,
           found |-> FALSE, expired |-> FALSE]

(* A call as it enters Apply(ctx, plan) or Cleanup(ctx); done says whether  *)
(* ctx is cancelled already.                                               *)
ApplyCall(plan, done) ==
  [op |-> "apply", step |-> "list", plan |-> plan,
   found |-> FALSE, expired |-> done]

CleanupCall ==
  [op |-> "cleanup", step |-> "list", plan |-> NoPlan,
   found |-> FALSE, expired |-> FALSE]

Running(c) == call[c].op # "none" /\ call[c].step \in {"list", "check", "commit"}
Succeeded(c) == call[c].op # "none" /\ call[c].step = "ok"
Failed(c) == call[c].op # "none" /\ call[c].step = "failed"

-----------------------------------------------------------------------------
(***************************************************************************)
(* The script nft reads: "delete table" first when the table was found,    *)
(* then, for Apply, the table of the plan.                                 *)
(***************************************************************************)

\* The kernel refuses a transaction that deletes a table it does not hold.
Applicable(c) == call[c].found => kernel # NoTable

\* nft is started, with a live context, on a script the kernel accepts.
Accepted(c) == ~call[c].expired /\ Applicable(c)

\* Mutant of Transaction: the script stops after "delete table".
TransactionDeleteOnly(c) ==
  IF call[c].op = "cleanup" \/ call[c].found THEN NoTable
  ELSE Exact(call[c].plan)

Transaction(c) ==
  IF call[c].op = "cleanup" THEN NoTable
  ELSE IF call[c].found \/ kernel = NoTable THEN Exact(call[c].plan)
  ELSE [plan |-> kernel.plan,
        exact |-> kernel.exact /\ kernel.plan = call[c].plan]

-----------------------------------------------------------------------------
\* Mutant of ListResult: the table is never seen.
ListResultBlind(c) == {FALSE}

(* tableExists: any failure of nft list, a done context included, is "no". *)
ListResult(c) ==
  IF call[c].expired THEN {FALSE}
  ELSE {kernel # NoTable} \cup (IF "list" \in Faults THEN {FALSE} ELSE {})

ListTable(c) ==
  /\ Running(c)
  /\ call[c].step = "list"
  /\ \E found \in ListResult(c) :
       call' = [call EXCEPT ![c].found = found,
                            ![c].step = IF call[c].op = "cleanup" /\ ~found
                                        THEN "ok" ELSE "check"]
  /\ UNCHANGED kernel

CheckPasses(c) ==
  /\ Running(c)
  /\ call[c].step = "check"
  /\ Accepted(c)
  /\ call' = [call EXCEPT ![c].step = "commit"]
  /\ UNCHANGED kernel

CheckFails(c) ==
  /\ Running(c)
  /\ call[c].step = "check"
  /\ ~Accepted(c) \/ "nft" \in Faults
  /\ call' = [call EXCEPT ![c].step = "failed"]
  /\ UNCHANGED kernel

CommitSucceeds(c) ==
  /\ Running(c)
  /\ call[c].step = "commit"
  /\ Accepted(c)
  /\ kernel' = Transaction(c)
  /\ call' = [call EXCEPT ![c].step = "ok"]

CommitFails(c) ==
  /\ Running(c)
  /\ call[c].step = "commit"
  /\ ~Accepted(c) \/ "nft" \in Faults
  /\ call' = [call EXCEPT ![c].step = "failed"]
  /\ UNCHANGED kernel

(* The deadline kills nft after the kernel committed the transaction.      *)
CommitLost(c) ==
  /\ Running(c)
  /\ call[c].step = "commit"
  /\ "lost" \in Faults
  /\ Accepted(c)
  /\ kernel' = Transaction(c)
  /\ call' = [call EXCEPT ![c].step = "failed"]

(* The context of the call reaches its deadline.                           *)
Expire(c) ==
  /\ Running(c)
  /\ ~call[c].expired
  /\ call' = [call EXCEPT ![c].expired = TRUE]
  /\ UNCHANGED kernel

(* The caller's container dies.  An nft process it started last dies with   *)
(* it, before or after the kernel commits the transaction.                 *)
CallerDies(c) ==
  /\ \/ UNCHANGED kernel
     \/ /\ Running(c)
        /\ call[c].step = "commit"
        /\ Accepted(c)
        /\ kernel' = Transaction(c)
  /\ call' = [call EXCEPT ![c] = NoCall]

NFTStep(c) ==
  \/ ListTable(c)
  \/ CheckPasses(c)
  \/ CheckFails(c)
  \/ CommitSucceeds(c)
  \/ CommitFails(c)
  \/ CommitLost(c)
=============================================================================
