----------------------------- MODULE PortalData -----------------------------
(***************************************************************************)
(* The payments as the pages of the portal read them, oldest first, and    *)
(* the writes that the server's handlers make in between.  A handler looks *)
(* at a payment's status before its awaits and saves by _id, whatever the  *)
(* status is by then, and any number of them overlap: an employee's        *)
(* handler may have found any payment while it was pending, and save its   *)
(* decision now; a submission, any payment that was once approved.         *)
(***************************************************************************)
EXTENDS Naturals, Sequences

CONSTANTS
  Customer, Employee,
  NoOne,
  MaxPayments   \* bound: the payments a behaviour makes

ASSUME DataAssumption ==
  /\ NoOne \notin Customer \cup Employee
  /\ MaxPayments \in Nat

VARIABLE db     \* the Payment collection, and of every payment its invoice

Status == {"pending", "verified", "rejected", "submitted_to_swift"}
Accepted == {"verified", "submitted_to_swift"}

\* again (history): a decision was saved over an earlier one.
NewPayment(customer, name) ==
  [ customer |-> customer, name |-> name, status |-> "pending", by |-> NoOne,
    invoice |-> "none", again |-> FALSE ]

Add(customer, name) ==
  /\ Len(db) < MaxPayments
  /\ db' = Append(db, NewPayment(customer, name))

\* payment.verify, of a handler that found the payment pending, now or earlier;
\* once an approval is saved, an invoice is due.
Decide(p, e) ==
  \E status \in {"verified", "rejected"} :
    db' = [db EXCEPT ![p].status = status, ![p].by = e,
                     ![p].invoice = IF status = "verified" /\ @ = "none" THEN "due" ELSE @,
                     ![p].again = @ \/ db[p].status # "pending"]

\* payment.submitToSwift, of a handler that found the payment verified, now or
\* earlier; the approval it found made an invoice due.
Submit(p) ==
  /\ db[p].invoice # "none"
  /\ db' = [db EXCEPT ![p].status = "submitted_to_swift"]

\* Invoice.create after the save: it may fail, or the process end before it, and
\* then only the seeding script makes up for it.
IssueInvoice(p) ==
  /\ db[p].invoice = "due"
  /\ db' = [db EXCEPT ![p].invoice = "issued"]

EmployeesAct(some) ==
  \E p \in DOMAIN db : Submit(p) \/ IssueInvoice(p) \/ \E e \in some : Decide(p, e)

\* GET /invoices of a customer: the payments that have one.
InvoicesOf(customer) ==
  { p \in DOMAIN db : db[p].customer = customer /\ db[p].invoice = "issued" }

DataInit == db = << >>
=============================================================================
