--------------------------- MODULE NFTBackendProofs ---------------------------
(***************************************************************************)
(* What one step of an nft call does to the call and to the kernel's table, *)
(* stated so that the modules which compose the backend with its callers   *)
(* need not expand its actions again.                                      *)
(***************************************************************************)
EXTENDS NFTBackend, TLAPS

(* A call that means to create the table has seen that there is none.      *)
CreatesBlindly(c) ==
  /\ call[c].op = "apply"
  /\ call[c].step \in {"check", "commit"}
  /\ ~call[c].found
  /\ ~call[c].expired

(* Every plan is some plan and never the zero plan.                        *)
LEMMA PlanShape ==
  /\ \A p \in Policy : Compiled(p) \in Plan
  /\ \A plan \in Plan : FailOpenPlan(plan) \in Plan
  /\ \A plan \in Plan : plan # NoPlan /\ Exact(plan) \in Table
  /\ \A t \in Table : t # NoTable
BY PlanAssumption, TableAssumption DEF Plan, Compiled, FailOpenPlan, Exact, Table

(* nft leaves a table of the program, or none: Transaction is well typed.  *)
LEMMA TransactionType ==
  ASSUME BackendTypeOK, NEW c \in Caller,
         call[c].op = "apply" => call[c].plan \in Plan,
         call[c].op \in {"apply", "cleanup"}
  PROVE  /\ Transaction(c) \in Table \cup {NoTable}
         /\ Transaction(c) = NoTable => call[c].op = "cleanup"
<1>1. CASE call[c].op = "cleanup"
  BY <1>1 DEF Transaction
<1>2. CASE call[c].op # "cleanup" /\ (call[c].found \/ kernel = NoTable)
  BY <1>2, PlanShape DEF Transaction
<1>3. CASE call[c].op # "cleanup" /\ ~(call[c].found \/ kernel = NoTable)
  <2>1. kernel \in Table
    BY <1>3 DEF BackendTypeOK
  <2>2. kernel.plan \in Plan /\ kernel.exact \in BOOLEAN
    BY <2>1 DEF Table
  <2>3. Transaction(c) = [plan |-> kernel.plan,
                          exact |-> kernel.exact /\ kernel.plan = call[c].plan]
    BY <1>3 DEF Transaction
  <2>4. (kernel.exact /\ kernel.plan = call[c].plan) \in BOOLEAN
    OBVIOUS
  <2>5. Transaction(c) \in Table
    BY <2>2, <2>3, <2>4 DEF Table
  <2>. QED BY <2>5, PlanShape
<1>. QED BY <1>1, <1>2, <1>3

(* A transaction that deletes the table it found, or found none and meets  *)
(* none, leaves exactly the plan of the call.                              *)
LEMMA TransactionExact ==
  ASSUME NEW c \in Caller, call[c].op = "apply",
         call[c].found \/ kernel = NoTable
  PROVE  Transaction(c) = Exact(call[c].plan)
BY DEF Transaction

(* The effect of one step of one call.                                     *)
CallKept(c) ==
  /\ \A d \in Caller \ {c} : call'[d] = call[d]
  /\ call'[c].op = call[c].op
  /\ call'[c].plan = call[c].plan
  /\ call[c].expired => call'[c].expired

KernelKept(c) ==
  /\ kernel' = kernel
  /\ call[c].op = "apply" => call'[c].step # "ok"

KernelWritten(c) ==
  /\ call[c].step = "commit"
  /\ Accepted(c)
  /\ kernel' = Transaction(c)
  /\ \/ call'[c].step = "ok"
     \/ call'[c].step = "failed" /\ "lost" \in Faults

LookedBefore(c) ==
  CreatesBlindly(c)' => \/ CreatesBlindly(c)
                        \/ kernel = NoTable /\ kernel' = NoTable
                        \/ "list" \in Faults

LEMMA BackendStep ==
  ASSUME BackendTypeOK, NEW c \in Caller, NFTStep(c) \/ Expire(c)
  PROVE  /\ Running(c)
         /\ call' \in [Caller -> Call]
         /\ CallKept(c)
         /\ KernelKept(c) \/ KernelWritten(c)
         /\ LookedBefore(c)
<1>. USE DEF BackendTypeOK, Running, CallKept, KernelKept, KernelWritten, LookedBefore,
             CreatesBlindly, Call
<1>0. /\ call \in [Caller -> Call]
      /\ call[c] \in Call
  OBVIOUS
<1>1. CASE ListTable(c)
  <2>1. PICK found \in ListResult(c) :
          call' = [call EXCEPT ![c].found = found,
                               ![c].step = IF call[c].op = "cleanup" /\ ~found
                                           THEN "ok" ELSE "check"]
    BY <1>1 DEF ListTable
  <2>2. found \in BOOLEAN /\ (found \/ kernel = NoTable \/ call[c].expired \/ "list" \in Faults)
    BY <2>1 DEF ListResult
  <2>. QED BY <1>0, <1>1, <2>1, <2>2 DEF ListTable
<1>2. CASE CheckPasses(c)
  BY <1>0, <1>2 DEF CheckPasses, Accepted
<1>3. CASE CheckFails(c)
  BY <1>0, <1>3 DEF CheckFails
<1>4. CASE CommitSucceeds(c)
  BY <1>0, <1>4 DEF CommitSucceeds
<1>5. CASE CommitFails(c)
  BY <1>0, <1>5 DEF CommitFails
<1>6. CASE CommitLost(c)
  BY <1>0, <1>6 DEF CommitLost
<1>7. CASE Expire(c)
  BY <1>0, <1>7 DEF Expire
<1>. QED BY <1>1, <1>2, <1>3, <1>4, <1>5, <1>6, <1>7 DEF NFTStep
=============================================================================
