-------------------------- MODULE StaffProperties --------------------------
(***************************************************************************)
(* What the employee collection is left with when starts of the server and *)
(* runs of the reset script have come to an end.                           *)
(***************************************************************************)
EXTENDS EmployeeSeeding

Steps == {"idle", "count", "find", "clear", "create", "report", "done"}

\* Documents are of the schema and no account has two; a loop stays within the
\* list; only a start counts and looks, only a reset deletes.
StaffTypeOK ==
  /\ employees \subseteq Document
  /\ \A d1, d2 \in employees : d1.account = d2.account => d1 = d2
  /\ pc \in [Process -> Steps]
  /\ at \in [Process -> 1 .. Last + 1]
  /\ outcome \in [Process -> {"none", "present", "seeded", "error", "exit 0", "exit 1", "killed"}]
  /\ faulted \subseteq Process
  /\ cleared \in Process \cup {Before}
  /\ alone \subseteq Process
  /\ \A p \in Process :
       /\ pc[p] \in {"find", "create"} => at[p] <= Last
       /\ pc[p] \in {"count", "find"} => p \in Boot
       /\ pc[p] = "clear" => p \in Reset

FullStaff == \A k \in Account : Exists(k)

\* However starts and resets cross, and although a duplicate ends the loop it
\* is met in, every account is in place when the last of them has ended:
\* whoever is cut short has met the work of another who goes on.  Only a fault
\* breaks this.
FullStaffAtTheEnd ==
  /\ faulted = {}
  /\ \A p \in Process : ~Running(p)
  /\ \E p \in Process : pc[p] = "done"
  => FullStaff

\* A reset that exits with 0 has written every account itself, so long as no
\* other has deleted them since: no old password is left behind.
ResetReplacesAll ==
  \A p \in Reset : outcome[p] = "exit 0" /\ cleared = p =>
    /\ FullStaff
    /\ \A d \in employees : d.by = p

\* A start beside which nothing runs makes good what a killed reset or an
\* interrupted start has left, whichever accounts are missing.
StartRepairs ==
  [][\A p \in Boot :
       pc[p] # "done" /\ pc'[p] = "done" /\ p \in alone /\ p \notin faulted' =>
         FullStaff']_vars
=============================================================================
