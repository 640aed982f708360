-------------------------- MODULE PaymentWorkflow --------------------------
(***************************************************************************)
(* The payment routes of server/routes/payments.js over the collections    *)
(* they write: Payment, Invoice and (read only) Employee.                  *)
(*                                                                         *)
(* Express runs one handler at a time only between two awaits, so several  *)
(* verify and submit-swift requests are in flight together.  A request is  *)
(* a record that remembers what its handler holds in local variables, and  *)
(* one action takes it from one database call to the next.  A Mongoose     *)
(* save is a $set of the modified paths selected by _id alone: it neither  *)
(* re-reads the document nor compares its version.                         *)
(*                                                                         *)
(* Abstracted: amounts, recipients, e-mails and notes (nothing branches on *)
(* them after validation); the customer, whom no code deletes, is always   *)
(* found.  Two reads that no other step can tell apart are one action, and *)
(* the comment of that action says so.                                     *)
(***************************************************************************)
EXTENDS Naturals

CONSTANTS
  Payment,      \* the documents the Payment collection may come to hold
  Employee,     \* employee documents (an _id is never used twice)
  Request,      \* the HTTP requests of a behaviour: each is handled once
  NoOne,        \* an unset reference
  RandomDigits, \* how many base-36 digits Math.random() may print
  OneAtATime,   \* TRUE: requests about one payment never overlap
  Faults        \* TRUE: database calls may fail and the server may crash

ASSUME WorkflowAssumption ==
  /\ NoOne \notin Payment \cup Employee \cup Request
  /\ RandomDigits \subseteq Nat
  /\ OneAtATime \in BOOLEAN
  /\ Faults \in BOOLEAN

VARIABLES
  payments,     \* the Payment collection
  invoices,     \* the Invoice collection
  employees,    \* what became of each employee document
  pc,           \* the database call each handler awaits next
  task,         \* what each handler was asked to do and read, once begun
  wrote,        \* the payments each handler has saved
  code          \* the status code each request was answered with

vars == <<payments, invoices, employees, pc, task, wrote, code>>

-----------------------------------------------------------------------------
(* Documents and requests *)

\* failureReason is kept as the author of the notes it was copied from,
\* swiftReference as the request whose submission produced it.
PaymentDoc ==
  [ status         : {"absent", "pending", "verified", "rejected",
                      "submitted_to_swift"},
    validId        : BOOLEAN,
    verifiedBy     : Employee \cup {NoOne},
    failureReason  : Employee \cup {NoOne},
    swiftReference : Request \cup {NoOne} ]

Absent ==
  [ status |-> "absent", validId |-> TRUE, verifiedBy |-> NoOne,
    failureReason |-> NoOne, swiftReference |-> NoOne ]

\* The invoice number is drawn afresh by the request that creates it.
Invoice ==
  [ number : Request, payment : Payment, verifiedBy : Employee,
    paymentStatus : {"verified"} ]

\* The decision requested by a verify handler, or the verified payments a
\* submit handler found; ids are the payments the handler holds in memory.
Task ==
  [ kind : {"none", "verify", "submit"}, by : Employee \cup {NoOne},
    approve : BOOLEAN, ids : SUBSET Payment ]

NoTask == [ kind |-> "none", by |-> NoOne, approve |-> FALSE, ids |-> {} ]

InFlight(r) == pc[r] \notin {"idle", "done"}

\* A new request.  Nothing in the server keeps two requests about one payment
\* apart: OneAtATime describes the callers, and is FALSE unless they do.
Arrives(r, ids) ==
  /\ pc[r] = "idle"
  /\ OneAtATime => \A q \in Request : InFlight(q) => task[q].ids \cap ids = {}

\* authenticateEmployee looks at the token only: an employee whose document
\* was deleted keeps acting until the token expires.
HasToken(e) == employees[e] # "unhired"

\* The handler passed its checks and awaits the call that pc names.
Begin(r, next, kind, e, approve, ids) ==
  /\ pc' = [pc EXCEPT ![r] = next]
  /\ task' = [task EXCEPT ![r] =
                [kind |-> kind, by |-> e, approve |-> approve, ids |-> ids]]
  /\ UNCHANGED <<wrote, code>>

\* The handler returns.
Answer(r, c) ==
  /\ pc' = [pc EXCEPT ![r] = "done"]
  /\ code' = [code EXCEPT ![r] = c]

Refuse(r, c) == Answer(r, c) /\ UNCHANGED <<payments, invoices, employees, task, wrote>>

-----------------------------------------------------------------------------
(* POST /api/payments *)

\* Math.random().toString(36).substring(7): "0." and the digits, less seven.
SuffixLength(digits) == IF digits + 2 > 7 THEN digits + 2 - 7 ELSE 0

\* VALIDATION_PATTERNS.transactionId: the suffix has 4 to 10 characters.
ValidTransactionId(length) == length \in 4 .. 10

Pending(digits) ==
  [ status |-> "pending", validId |-> ValidTransactionId(SuffixLength(digits)),
    verifiedBy |-> NoOne, failureReason |-> NoOne, swiftReference |-> NoOne ]

\* The handler's two database calls are one action: the first reads the
\* customer, which no other step writes.  A failure leaves nothing behind.
CreatePayment(p, digits) ==
  /\ payments[p] = Absent
  /\ payments' = [payments EXCEPT ![p] = Pending(digits)]
  /\ UNCHANGED <<invoices, employees, pc, task, wrote, code>>

-----------------------------------------------------------------------------
(* POST /api/payments/employee/verify/:transactionId *)

\* Mutant: the handler forgets the status check.
StartVerifyAnyStatus(r, e, p, approve) ==
  /\ Arrives(r, {p})
  /\ HasToken(e)
  /\ payments[p].validId
  /\ payments[p].status # "absent"
  /\ Begin(r, "save", "verify", e, approve, {p})
  /\ UNCHANGED <<payments, invoices, employees>>

\* Validation, findOne and the status check; the handler then awaits save.
StartVerify(r, e, p, approve) ==
  /\ Arrives(r, {p})
  /\ HasToken(e)
  /\ payments[p].validId
  /\ payments[p].status = "pending"
  /\ Begin(r, "save", "verify", e, approve, {p})
  /\ UNCHANGED <<payments, invoices, employees>>

RefuseVerify(r, p) ==
  /\ Arrives(r, {p})
  /\ \/ /\ payments[p].status = "absent"
        /\ Refuse(r, "404")
     \/ /\ payments[p].status # "absent"
        /\ ~payments[p].validId \/ payments[p].status # "pending"
        /\ Refuse(r, "400")

\* Mutant: a rejection drops its reason.
VerifiedWithoutReason(doc, e, approve) ==
  [ status |-> IF approve THEN "verified" ELSE "rejected",
    validId |-> doc.validId, verifiedBy |-> e,
    failureReason |-> doc.failureReason, swiftReference |-> doc.swiftReference ]

\* Mutant: save replaces the whole document by the handler's pending copy.
VerifiedWholeDocument(doc, e, approve) ==
  [ status |-> IF approve THEN "verified" ELSE "rejected",
    validId |-> doc.validId, verifiedBy |-> e,
    failureReason |-> IF approve THEN NoOne ELSE e, swiftReference |-> NoOne ]

\* paymentSchema.methods.verify: the paths it sets on the stored document.
Verified(doc, e, approve) ==
  [ status |-> IF approve THEN "verified" ELSE "rejected",
    validId |-> doc.validId,
    verifiedBy |-> e,
    failureReason |-> IF approve THEN doc.failureReason ELSE e,
    swiftReference |-> doc.swiftReference ]

SaveDecision(r, p) ==
  /\ payments' = [payments EXCEPT ![p] = Verified(payments[p], task[r].by, task[r].approve)]
  /\ wrote' = [wrote EXCEPT ![r] = {p}]

\* Mutant: the invoice branch is not reserved to approvals.
SaveVerifyAlwaysInvoices(r) ==
  /\ pc[r] = "save"
  /\ \E p \in task[r].ids : SaveDecision(r, p)
  /\ IF employees[task[r].by] = "employed"
     THEN pc' = [pc EXCEPT ![r] = "invoice"] /\ UNCHANGED code
     ELSE Answer(r, "200")
  /\ UNCHANGED <<invoices, employees, task>>

\* The save, then Employee.findById: deleting employees commutes with the
\* save, so the look-up is part of this action.  Without an employee document
\* the invoice is skipped and the answer is still 200.
SaveVerify(r) ==
  /\ pc[r] = "save"
  /\ \E p \in task[r].ids : SaveDecision(r, p)
  /\ IF task[r].approve /\ employees[task[r].by] = "employed"
     THEN pc' = [pc EXCEPT ![r] = "invoice"] /\ UNCHANGED code
     ELSE Answer(r, "200")
  /\ UNCHANGED <<invoices, employees, task>>

\* Mutant: the payment is read again, and skipped once it has moved on.
CreateInvoiceIfStillVerified(r) ==
  /\ pc[r] = "invoice"
  /\ invoices' = invoices \cup
       {[ number |-> r, payment |-> p, verifiedBy |-> task[r].by,
          paymentStatus |-> "verified" ] :
          p \in {q \in task[r].ids : payments[q].status = "verified"}}
  /\ Answer(r, "200")
  /\ UNCHANGED <<payments, employees, task, wrote>>

\* Invoice.create from the handler's own copy of the payment.
CreateInvoice(r) ==
  /\ pc[r] = "invoice"
  /\ \E p \in task[r].ids :
       invoices' = invoices \cup
         {[ number |-> r, payment |-> p, verifiedBy |-> task[r].by,
            paymentStatus |-> "verified" ]}
  /\ Answer(r, "200")
  /\ UNCHANGED <<payments, employees, task, wrote>>

\* The inner catch: the invoice is lost and the approval stands.
InvoiceError(r) ==
  /\ Faults
  /\ pc[r] = "invoice"
  /\ Answer(r, "200")
  /\ UNCHANGED <<payments, invoices, employees, task, wrote>>

-----------------------------------------------------------------------------
(* POST /api/payments/employee/submit-swift *)

\* Mutants: the query selects by id only, or finds submitted payments too.
FoundAny(ids) == { p \in ids : payments[p].status # "absent" }
FoundSubmittedToo(ids) ==
  { p \in ids : payments[p].status \in {"verified", "submitted_to_swift"} }

\* The result of Payment.find: the verified ones among the ids asked for.
FoundVerified(ids) == { p \in ids : payments[p].status = "verified" }

StartSubmit(r, e, ids) ==
  /\ Arrives(r, ids)
  /\ HasToken(e)
  /\ \A p \in ids : payments[p].validId
  /\ FoundVerified(ids) # {}
  /\ Begin(r, "submit", "submit", e, FALSE, FoundVerified(ids))
  /\ UNCHANGED <<payments, invoices, employees>>

\* One malformed id refuses the whole batch, and so does a batch in which
\* nothing is verified.
RefuseSubmit(r, ids) ==
  /\ Arrives(r, ids)
  /\ (\E p \in ids : ~payments[p].validId) \/ FoundVerified(ids) = {}
  /\ Refuse(r, "400")

\* Mutant: submission skips a state of the workflow.
SubmittedAsCompleted(doc, r) ==
  [ status |-> "completed", validId |-> doc.validId, verifiedBy |-> doc.verifiedBy,
    failureReason |-> doc.failureReason, swiftReference |-> r ]

\* paymentSchema.methods.submitToSwift, with a reference of its own.
Submitted(doc, r) ==
  [ status |-> "submitted_to_swift",
    validId |-> doc.validId,
    verifiedBy |-> doc.verifiedBy,
    failureReason |-> doc.failureReason,
    swiftReference |-> r ]

SaveSubmission(r, p) ==
  /\ payments' = [payments EXCEPT ![p] = Submitted(payments[p], r)]
  /\ wrote' = [wrote EXCEPT ![r] = wrote[r] \cup {p}]

\* One turn of the loop over the snapshot (in no promised order); after the
\* last one the handler answers.
SubmitOne(r) ==
  /\ pc[r] = "submit"
  /\ \E p \in task[r].ids \ wrote[r] : SaveSubmission(r, p)
  /\ IF wrote'[r] = task[r].ids THEN Answer(r, "200") ELSE UNCHANGED <<pc, code>>
  /\ UNCHANGED <<invoices, employees, task>>

-----------------------------------------------------------------------------
(* Failures and the employee scripts *)

\* A save that throws: the outer catch answers 500.  What earlier turns of the
\* submit loop saved stays saved, and the update that threw may itself have
\* reached the database.
SaveError(r) ==
  /\ Faults
  /\ \/ pc[r] \in {"save", "submit"} /\ UNCHANGED <<payments, wrote>>
     \/ pc[r] = "save" /\ \E p \in task[r].ids : SaveDecision(r, p)
     \/ pc[r] = "submit" /\ \E p \in task[r].ids \ wrote[r] : SaveSubmission(r, p)
  /\ Answer(r, "500")
  /\ UNCHANGED <<invoices, employees, task>>

\* The process stops: every handler in flight ends without an answer.
Crash ==
  /\ Faults
  /\ \E r \in Request : InFlight(r)
  /\ pc' = [r \in Request |-> IF InFlight(r) THEN "done" ELSE pc[r]]
  /\ UNCHANGED <<payments, invoices, employees, task, wrote, code>>

\* initializeEmployeeAccounts or resetEmployeePasswords creates a document.
HireEmployee(e) ==
  /\ employees[e] = "unhired"
  /\ employees' = [employees EXCEPT ![e] = "employed"]
  /\ UNCHANGED <<payments, invoices, pc, task, wrote, code>>

\* resetEmployeePasswords: Employee.deleteMany({}); the accounts it then
\* creates are HireEmployee steps, with new _ids.
ResetEmployees ==
  /\ \E e \in Employee : employees[e] = "employed"
  /\ employees' = [e \in Employee |->
       IF employees[e] = "employed" THEN "deleted" ELSE employees[e]]
  /\ UNCHANGED <<payments, invoices, pc, task, wrote, code>>

-----------------------------------------------------------------------------
(* The specification *)

Init ==
  /\ payments = [p \in Payment |-> Absent]
  /\ invoices = {}
  /\ employees = [e \in Employee |-> "unhired"]
  /\ pc = [r \in Request |-> "idle"]
  /\ task = [r \in Request |-> NoTask]
  /\ wrote = [r \in Request |-> {}]
  /\ code = [r \in Request |-> "none"]

\* A step of r's handler that needs nothing but the database's answer.
Proceed(r) == SaveVerify(r) \/ CreateInvoice(r) \/ SubmitOne(r)

Next ==
  \/ \E p \in Payment, digits \in RandomDigits : CreatePayment(p, digits)
  \/ \E r \in Request, e \in Employee, p \in Payment, approve \in BOOLEAN :
       StartVerify(r, e, p, approve)
  \/ \E r \in Request, p \in Payment : RefuseVerify(r, p)
  \/ \E r \in Request : SaveVerify(r)
  \/ \E r \in Request : CreateInvoice(r)
  \/ \E r \in Request : InvoiceError(r)
  \/ \E r \in Request, e \in Employee, ids \in SUBSET Payment \ {{}} :
       StartSubmit(r, e, ids)
  \/ \E r \in Request, ids \in SUBSET Payment \ {{}} : RefuseSubmit(r, ids)
  \/ \E r \in Request : SubmitOne(r)
  \/ \E r \in Request : SaveError(r)
  \/ Crash
  \/ \E e \in Employee : HireEmployee(e)
  \/ ResetEmployees

Spec == Init /\ [][Next]_vars

\* Node's event loop resumes a handler once its database call returns; nothing
\* obliges a user to send a request or a script to run.
FairSpec == Spec /\ \A r \in Request : WF_vars(Proceed(r))
=============================================================================
