------------------------- MODULE PaymentProperties -------------------------
(***************************************************************************)
(* What PaymentWorkflow guarantees however its requests overlap, what it   *)
(* guarantees only when they do not, and the mapping to PaymentLifecycle.  *)
(* A request is handled once and its task stays, so the requests double    *)
(* as the history the properties speak of.                                 *)
(***************************************************************************)
EXTENDS PaymentWorkflow

-----------------------------------------------------------------------------
(* Type invariant *)

\* Every collection holds documents of its schema.
TypeOK ==
  /\ payments \in [Payment -> PaymentDoc]
  /\ invoices \subseteq Invoice
  /\ employees \in [Employee -> {"unhired", "employed", "deleted"}]
  /\ pc \in [Request -> {"idle", "save", "invoice", "submit", "done"}]
  /\ task \in [Request -> Task]
  /\ wrote \in [Request -> SUBSET Payment]
  /\ code \in [Request -> {"none", "200", "400", "404", "500"}]

-----------------------------------------------------------------------------
(* Whatever overlaps and whatever fails *)

\* r is a verify request that saved its decision on p.
SavedDecision(r, p, approve) ==
  /\ task[r].kind = "verify"
  /\ task[r].approve = approve
  /\ p \in wrote[r]

\* Nothing is offered to SWIFT, in flight to it or submitted to it unless some
\* employee's approval of that payment was saved (verify and submit-swift
\* handlers); and a reference on a payment is that of a request that submitted it.
SwiftOnlyApproved ==
  \A p \in Payment :
    /\ \/ payments[p].status \in {"verified", "submitted_to_swift"}
       \/ payments[p].swiftReference # NoOne
       \/ \E r \in Request : task[r].kind = "submit" /\ p \in task[r].ids
       => \E r \in Request : SavedDecision(r, p, TRUE)
    /\ payments[p].swiftReference # NoOne =>
         /\ task[payments[p].swiftReference].kind = "submit"
         /\ p \in wrote[payments[p].swiftReference]

\* Every invoice was issued by a request that saved an approval of that very
\* payment, carries that request's employee, and no request issued two.
InvoiceFromApproval ==
  /\ \A i \in invoices :
       /\ SavedDecision(i.number, i.payment, TRUE)
       /\ task[i.number].by = i.verifiedBy
       /\ payments[i.payment].status \notin {"absent", "pending"}
  /\ \A i, j \in invoices : i.number = j.number => i = j

\* The decision on a payment is recorded exactly when it has left pending, it
\* is one that employee took, and a payment that stands rejected carries the
\* reason of the employee it names (Payment.verify writes them in one save).
DecisionRecorded ==
  \A p \in Payment :
    /\ payments[p].status \in {"absent", "pending"} <=> payments[p].verifiedBy = NoOne
    /\ payments[p].verifiedBy # NoOne =>
         \E r \in Request : /\ task[r].kind = "verify"
                            /\ task[r].by = payments[p].verifiedBy
                            /\ p \in wrote[r]
    /\ payments[p].status = "rejected" =>
         payments[p].failureReason = payments[p].verifiedBy

\* No step takes a payment back to pending, and none unsets the employee, the
\* reason or the SWIFT reference on it (saves only add).
NothingWithdrawn ==
  [][\A p \in Payment :
       /\ payments[p].status \notin {"absent", "pending"} =>
            payments'[p].status \notin {"absent", "pending"}
       /\ payments[p].status = "pending" => payments'[p].status # "absent"
       /\ \A f \in {"verifiedBy", "failureReason", "swiftReference"} :
            payments[p][f] # NoOne => payments'[p][f] # NoOne]_payments

-----------------------------------------------------------------------------
(* When requests about one payment do not overlap *)

\* What a handler answered with 200 stays true: the decision it confirmed is
\* the one on the payment, and a confirmed submission keeps its reference.
AnswerStands ==
  \A r \in Request : code[r] = "200" =>
    \A p \in task[r].ids :
      IF task[r].kind = "submit"
      THEN payments[p].swiftReference = r
      ELSE /\ payments[p].verifiedBy = task[r].by
           /\ task[r].approve <=> payments[p].status # "rejected"

\* A payment has at most one invoice (seedInvoices.js:15 and :35 look for
\* payments that have none yet).
OneInvoicePerPayment ==
  \A i, j \in invoices : i.payment = j.payment => i = j

\* The workflow of the README, with one decision, which no later request replaces,
\* and one invoice; "Rejected payment cannot be submitted to SWIFT"
\* (integration.test.js:345).
Lifecycle == INSTANCE PaymentLifecycle WITH
  InvoiceNumber <- Request,
  status <- [p \in Payment |-> payments[p].status],
  decidedBy <- [p \in Payment |-> payments[p].verifiedBy],
  invoiceOf <- [p \in Payment |->
                  {i.number : i \in {j \in invoices : j.payment = p}}]

FollowsLifecycle == Lifecycle!Spec

-----------------------------------------------------------------------------
(* Liveness *)

\* A saved approval is invoiced by the request that saved it, whatever becomes
\* of the payment meanwhile, unless the employee's document is deleted.
ApprovalInvoiced ==
  \A r \in Request, p \in Payment :
    SavedDecision(r, p, TRUE) ~>
      \/ \E i \in invoices : i.number = r /\ i.payment = p
      \/ \E e \in Employee : task[r].by = e /\ employees[e] = "deleted"
=============================================================================
