------------------------------ MODULE Enforcement ------------------------------
(***************************************************************************)
(* What an agent promises its host, without the processes, digests and     *)
(* retries by which it keeps the promise: which table is in force, when it *)
(* may change, and what a ready agent vouches for.                         *)
(***************************************************************************)
CONSTANTS
  Policy,
  NoPolicy   \* metadata offers nothing that can be enforced

VARIABLES
  offered,    \* what metadata asks for now
  wanted,     \* what the agent is putting in place, if anything
  table,      \* what is in force on the host
  published,  \* what a ready agent says is in force
  success     \* age of the last success: "never", "recent" or "stale"

vars == <<offered, wanted, table, published, success>>

Nothing == [kind |-> "nothing"]
AllowOnly == [kind |-> "open"]
Enforcing(p) == [kind |-> "policy", of |-> p]

Init ==
  /\ offered \in Policy \cup {NoPolicy}
  /\ table \in {Enforcing(p) : p \in Policy} \cup {AllowOnly, Nothing}
  /\ wanted = Nothing
  /\ published = Nothing
  /\ success = "never"

Offer ==
  /\ offered' \in Policy \cup {NoPolicy}
  /\ UNCHANGED <<wanted, table, published, success>>

Want(p) ==
  /\ wanted = Nothing
  /\ offered = p
  /\ wanted' = Enforcing(p)
  /\ UNCHANGED <<offered, table, published, success>>

(* Only an agent whose last success is stale may give enforcement up.      *)
WantAllowOnly ==
  /\ success = "stale"
  /\ wanted' = AllowOnly
  /\ published' = Nothing
  /\ UNCHANGED <<offered, table, success>>

(* The table changes in one step, to what the agent wants.                 *)
Install ==
  /\ wanted # Nothing
  /\ table' = wanted
  /\ UNCHANGED <<offered, wanted, published, success>>

(* An attempt succeeds only with its policy in force.                      *)
Confirm(p) ==
  /\ table = Enforcing(p)
  /\ \/ wanted = Enforcing(p)
     \/ wanted = Nothing /\ offered = p
  /\ wanted' = Nothing
  /\ published' = Enforcing(p)
  /\ success' \in {"recent", "stale"}
  /\ UNCHANGED <<offered, table>>

(* An attempt that ends otherwise is no reason to say "ready".             *)
GiveUp ==
  /\ wanted' = Nothing
  /\ published' = Nothing
  /\ UNCHANGED <<offered, table, success>>

Age ==
  /\ success = "recent"
  /\ success' = "stale"
  /\ UNCHANGED <<offered, wanted, table, published>>

(* Death or restart: the host keeps the table it has or was being given.   *)
End ==
  /\ \/ table' = table
     \/ wanted # Nothing /\ table' = wanted
  /\ wanted' = Nothing
  /\ published' = Nothing
  /\ success' = "never"
  /\ UNCHANGED offered

Next ==
  \/ Offer
  \/ \E p \in Policy : Want(p) \/ Confirm(p)
  \/ WantAllowOnly
  \/ Install
  \/ GiveUp
  \/ Age
  \/ End

Spec == Init /\ [][Next]_vars
=============================================================================
