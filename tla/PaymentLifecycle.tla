-------------------------- MODULE PaymentLifecycle --------------------------
(***************************************************************************)
(* What the payment portal promises of one payment: the workflow of the    *)
(* README (section 4, "Payment Verification Workflow") with the decision   *)
(* taken by one employee, once, and an approved payment invoiced at most   *)
(* once.  PaymentProperties maps PaymentWorkflow to this module.           *)
(***************************************************************************)
CONSTANTS Payment, Employee, NoOne, InvoiceNumber

VARIABLES
  status,       \* where each payment is in the workflow
  decidedBy,    \* the employee who approved or rejected it
  invoiceOf     \* the numbers of the invoices issued for it

lifecycle == <<status, decidedBy, invoiceOf>>

Init ==
  /\ status = [p \in Payment |-> "absent"]
  /\ decidedBy = [p \in Payment |-> NoOne]
  /\ invoiceOf = [p \in Payment |-> {}]

Move(p, from, to) == status[p] = from /\ status' = [status EXCEPT ![p] = to]

\* A customer submits a payment.
Create(p) == Move(p, "absent", "pending") /\ UNCHANGED <<decidedBy, invoiceOf>>

\* An employee approves or rejects a pending payment.
Decide(p, e) ==
  /\ Move(p, "pending", "verified") \/ Move(p, "pending", "rejected")
  /\ decidedBy' = [decidedBy EXCEPT ![p] = e]
  /\ UNCHANGED invoiceOf

\* Approval entitles the customer to one invoice.
IssueInvoice(p, n) ==
  /\ status[p] \in {"verified", "submitted_to_swift", "completed"}
  /\ invoiceOf[p] = {}
  /\ invoiceOf' = [invoiceOf EXCEPT ![p] = {n}]
  /\ UNCHANGED <<status, decidedBy>>

SubmitToSwift(p) ==
  Move(p, "verified", "submitted_to_swift") /\ UNCHANGED <<decidedBy, invoiceOf>>

Complete(p) ==
  Move(p, "submitted_to_swift", "completed") /\ UNCHANGED <<decidedBy, invoiceOf>>

Next ==
  \E p \in Payment :
    \/ Create(p)
    \/ \E e \in Employee : Decide(p, e)
    \/ \E n \in InvoiceNumber : IssueInvoice(p, n)
    \/ SubmitToSwift(p)
    \/ Complete(p)

Spec == Init /\ [][Next]_lifecycle
=============================================================================
