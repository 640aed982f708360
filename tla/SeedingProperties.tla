------------------------- MODULE SeedingProperties -------------------------
(***************************************************************************)
(* What the invoice script keeps beside the running server, and what it    *)
(* keeps only when nothing else runs.                                      *)
(***************************************************************************)
EXTENDS InvoiceSeeding, PaymentProperties

Copies == [ payment : Payment, status : {"verified", "submitted_to_swift"},
            verifiedBy : Employee ]

\* The script holds copies of approved payments, and what it writes are
\* documents of the schemas (the enum of Invoice.paymentStatus included).
SeedingTypeOK ==
  /\ TypeOK
  /\ plan \in Plans
  /\ seeded \subseteq [ run : Run, payment : Payment, verifiedBy : Employee,
                        paymentStatus : {"verified", "submitted_to_swift"} ]
  /\ rpc \in [Run -> {"idle", "check", "create", "samples", "payment", "invoice", "done"}]
  /\ found \in [Run -> SUBSET Copies] /\ todo \in [Run -> SUBSET Copies]
  /\ current \in [Run -> SUBSET Copies] /\ created \in [Run -> SUBSET Payment]
  /\ staff \in [Run -> SUBSET Employee]
  /\ failed \in [Run -> BOOLEAN]

-----------------------------------------------------------------------------
(* Whatever the server and other runs do meanwhile *)

\* A run that reached its end leaves no payment it found without an invoice,
\* unless the approving employee's document is gone (the loop skips those).
RunRepairs ==
  \A s \in Run : rpc[s] = "done" /\ ~failed[s] =>
    \A doc \in found[s] :
      HasInvoice(doc.payment) \/ employees[doc.verifiedBy] = "deleted"

\* An invoice of the script names an employee whose approval of that payment
\* was saved, or belongs to a sample, which no one decides: what the query
\* returned is an approval.  (Requests about one payment must not overlap: a
\* submission that crosses a rejection leaves the rejecting employee's name.)
SeededFromApproval ==
  \A i \in seeded :
    \/ \E r \in Request : SavedDecision(r, i.payment, TRUE) /\ task[r].by = i.verifiedBy
    \/ /\ payments[i.payment].verifiedBy = i.verifiedBy
       /\ \A r \in Request : task[r].kind = "verify" => i.payment \notin task[r].ids

-----------------------------------------------------------------------------
(* When the script runs alone *)

\* When no run is beside anything, a payment has at most one invoice, whichever
\* handler or run issued it and wherever a run before this one failed (the
\* findOne of the loop).
NoSecondInvoice ==
  plan.beside = {} =>
    /\ OneInvoicePerPayment
    /\ \A i \in seeded :
         /\ \A j \in seeded : i.payment = j.payment => i = j
         /\ \A j \in invoices : i.payment # j.payment

\* When a run apart from all else ends without an error every approved payment,
\* submitted or not, has its invoice or has lost its employee: what InvoiceError,
\* a crash between approval and invoice, or an interrupted run left out has been
\* made good.
EverythingInvoiced ==
  [][\A s \in plan.apart :
       rpc[s] # "done" /\ rpc'[s] = "done" /\ ~failed'[s] =>
         \A p \in Payment : payments'[p].status \in {"verified", "submitted_to_swift"} =>
           \/ HasInvoice(p)'
           \/ employees'[payments'[p].verifiedBy] = "deleted"]_seedVars
=============================================================================
