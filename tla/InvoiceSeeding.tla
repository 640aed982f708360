-------------------------- MODULE InvoiceSeeding --------------------------
(***************************************************************************)
(* The script server/utils/seedInvoices.js over the same database as the   *)
(* payment routes.  It issues the invoices that approved payments lack     *)
(* and, when it issued none, creates sample payments with invoices.  It    *)
(* runs in a process of its own: nothing keeps it apart from the server's  *)
(* handlers, or from another run of itself.                                *)
(*                                                                         *)
(* The Invoice collection is invoices (those of handlers) together with    *)
(* seeded (those of the script).  Customers are never deleted, so the      *)
(* look-up of the customer cannot fail; what the script counts and prints  *)
(* before and after is left out.                                           *)
(***************************************************************************)
EXTENDS PaymentWorkflow, FiniteSets

CONSTANTS
  Run,          \* the times the script may be started
  Samples,      \* how many samples it makes: active customers, at most three
  Plans         \* how the runs of a behaviour are kept apart: one of these

ASSUME SeedingAssumption ==
  /\ Run \cap (Payment \cup Employee \cup Request \cup {NoOne}) = {}
  /\ Samples \in Nat
  /\ Plans \subseteq [ apart : SUBSET Run, beside : SUBSET Run ]
  /\ \A q \in Plans : q.apart \cap q.beside = {}

VARIABLES
  plan,         \* the runs that are started apart from all else, and beside it
  seeded,       \* the invoices the script created
  rpc,          \* what each run awaits
  found,        \* the documents Payment.find returned to it
  todo,         \* those its loop has not come to
  current,      \* the payment it is about to invoice
  created,      \* the payments the current function has counted as created
  staff,        \* the employees found for samples
  failed        \* whether an error or the end of the process cut it short

script == <<plan, seeded, rpc, found, todo, current, created, staff, failed>>
seedVars == <<vars, script>>

-----------------------------------------------------------------------------
(* What a run holds *)

\* The fields of a payment's copy that the script uses.
Copy(p) == [ payment |-> p, status |-> payments[p].status,
             verifiedBy |-> payments[p].verifiedBy ]

Running(s) == rpc[s] \notin {"idle", "done"}

\* A run of plan.apart is started when nothing else is under way, and nothing
\* else starts or moves before it has ended.
NoneApart == \A s \in plan.apart : ~Running(s)

MayStart(s) ==
  \/ s \in plan.beside /\ NoneApart
  \/ /\ s \in plan.apart
     /\ \A r \in Request : ~InFlight(r)
     /\ \A t \in Run : ~Running(t)

SeededInvoice(s, doc) ==
  [ run |-> s, payment |-> doc.payment, verifiedBy |-> doc.verifiedBy,
    paymentStatus |-> doc.status ]

\* Invoice.findOne({ paymentId })
HasInvoice(p) ==
  \/ \E i \in invoices : i.payment = p
  \/ \E i \in seeded : i.payment = p

\* The loop goes on with rest; at its end the run is over if the loop created
\* an invoice (made is the payments it did), and turns to the samples if not.
LoopOn(s, rest, made) ==
  /\ todo' = [todo EXCEPT ![s] = rest]
  /\ rpc' = [rpc EXCEPT ![s] = IF rest # {} THEN "check"
                               ELSE IF made # {} THEN "done" ELSE "samples"]

-----------------------------------------------------------------------------
(* generateInvoicesForExistingPayments *)

\* Mutants: the query asks for the employee only, or for the approved only.
DecidedPayments == { p \in Payment : payments[p].verifiedBy # NoOne }
VerifiedPayments ==
  { p \in Payment : payments[p].status = "verified" /\ payments[p].verifiedBy # NoOne }

\* The query; nothing makes a payment completed.
ApprovedPayments ==
  { p \in Payment : /\ payments[p].status \in {"verified", "submitted_to_swift"}
                    /\ payments[p].verifiedBy # NoOne }

FindApproved(s) ==
  /\ rpc[s] = "idle"
  /\ MayStart(s)
  /\ found' = [found EXCEPT ![s] = {Copy(p) : p \in ApprovedPayments}]
  /\ LoopOn(s, {Copy(p) : p \in ApprovedPayments}, {})
  /\ UNCHANGED <<vars, seeded, current, created, staff, failed>>

\* Mutant: the existing invoice is looked for once the work is done.
NoCheck(doc) == employees[doc.verifiedBy] # "employed"

\* No invoice is issued over another, nor without the employee's name.
Skip(doc) == HasInvoice(doc.payment) \/ employees[doc.verifiedBy] # "employed"

\* Invoice.findOne and Employee.findById for the next payment (no order is
\* asked of the query).  They are one action: an employee who is deleted
\* between them makes the loop skip a payment either way.
CheckInvoice(s, doc) ==
  /\ rpc[s] = "check"
  /\ doc \in todo[s]
  /\ IF Skip(doc)
     THEN LoopOn(s, todo[s] \ {doc}, created[s]) /\ UNCHANGED current
     ELSE /\ current' = [current EXCEPT ![s] = {doc}]
          /\ rpc' = [rpc EXCEPT ![s] = "create"]
          /\ UNCHANGED todo
  /\ UNCHANGED <<vars, seeded, found, created, staff, failed>>

\* Mutant: the loop ends with the first invoice it creates.
SeedOneInvoice(s) ==
  /\ rpc[s] = "create"
  /\ seeded' = seeded \cup {SeededInvoice(s, doc) : doc \in current[s]}
  /\ created' = [created EXCEPT ![s] = {doc.payment : doc \in current[s]}]
  /\ current' = [current EXCEPT ![s] = {}]
  /\ LoopOn(s, {}, created'[s])
  /\ UNCHANGED <<vars, found, staff, failed>>

\* Invoice.create from the copy of the payment the query returned.
SeedInvoice(s) ==
  /\ rpc[s] = "create"
  /\ seeded' = seeded \cup {SeededInvoice(s, doc) : doc \in current[s]}
  /\ created' = [created EXCEPT ![s] = created[s] \cup {doc.payment : doc \in current[s]}]
  /\ current' = [current EXCEPT ![s] = {}]
  /\ LoopOn(s, todo[s] \ current[s], created'[s])
  /\ UNCHANGED <<vars, found, staff, failed>>

\* The catch returns 0 whatever was created, so samples follow, even when it
\* was the query that threw; an invoice whose creation threw may be there.
LoopError(s) ==
  /\ Faults
  /\ \/ rpc[s] = "idle" /\ MayStart(s) /\ UNCHANGED seeded
     \/ rpc[s] = "check" /\ UNCHANGED seeded
     \/ /\ rpc[s] = "create"
        /\ \/ UNCHANGED seeded
           \/ seeded' = seeded \cup {SeededInvoice(s, doc) : doc \in current[s]}
  /\ rpc' = [rpc EXCEPT ![s] = "samples"]
  /\ todo' = [todo EXCEPT ![s] = {}]
  /\ current' = [current EXCEPT ![s] = {}]
  /\ created' = [created EXCEPT ![s] = {}]
  /\ failed' = [failed EXCEPT ![s] = TRUE]
  /\ UNCHANGED <<vars, found, staff>>

-----------------------------------------------------------------------------
(* createSamplePaymentsAndInvoices *)

\* Customer.find and Employee.find: without either there are no samples.
FindStaff(s) ==
  /\ rpc[s] = "samples"
  /\ staff' = [staff EXCEPT ![s] = {e \in Employee : employees[e] = "employed"}]
  /\ rpc' = [rpc EXCEPT ![s] = IF staff'[s] = {} \/ Samples = 0 THEN "done" ELSE "payment"]
  /\ UNCHANGED <<vars, seeded, found, todo, current, created, failed>>

\* Approved on the day it is created, by an employee who has not seen it.
Sample(e, digits) ==
  [ status |-> "verified", validId |-> ValidTransactionId(SuffixLength(digits)),
    verifiedBy |-> e, failureReason |-> NoOne, swiftReference |-> NoOne ]

\* Payment.create (the employees take turns; any of them is chosen here).
SamplePayment(s, p, e, digits) ==
  /\ rpc[s] = "payment"
  /\ payments[p] = Absent
  /\ e \in staff[s]
  /\ payments' = [payments EXCEPT ![p] = Sample(e, digits)]
  /\ current' = [current EXCEPT ![s] =
       {[ payment |-> p, status |-> "verified", verifiedBy |-> e ]}]
  /\ rpc' = [rpc EXCEPT ![s] = "invoice"]
  /\ UNCHANGED <<invoices, employees, pc, task, wrote, code>>
  /\ UNCHANGED <<seeded, found, todo, created, staff, failed>>

\* Invoice.create; the loop ends with the last customer.
SampleInvoice(s) ==
  /\ rpc[s] = "invoice"
  /\ seeded' = seeded \cup {SeededInvoice(s, doc) : doc \in current[s]}
  /\ created' = [created EXCEPT ![s] = created[s] \cup {doc.payment : doc \in current[s]}]
  /\ current' = [current EXCEPT ![s] = {}]
  /\ rpc' = [rpc EXCEPT ![s] = IF Cardinality(created'[s]) = Samples THEN "done" ELSE "payment"]
  /\ UNCHANGED <<vars, found, todo, staff, failed>>

\* The catch of the samples: the payment, or its invoice, may be there.
SampleError(s) ==
  /\ Faults
  /\ \/ rpc[s] \in {"samples", "payment", "invoice"} /\ UNCHANGED <<payments, seeded>>
     \/ /\ rpc[s] = "payment"
        /\ \E p \in Payment, e \in staff[s], digits \in RandomDigits :
             payments[p] = Absent /\ payments' = [payments EXCEPT ![p] = Sample(e, digits)]
        /\ UNCHANGED seeded
     \/ /\ rpc[s] = "invoice"
        /\ seeded' = seeded \cup {SeededInvoice(s, doc) : doc \in current[s]}
        /\ UNCHANGED payments
  /\ rpc' = [rpc EXCEPT ![s] = "done"]
  /\ current' = [current EXCEPT ![s] = {}]
  /\ failed' = [failed EXCEPT ![s] = TRUE]
  /\ UNCHANGED <<invoices, employees, pc, task, wrote, code>>
  /\ UNCHANGED <<found, todo, created, staff>>

\* The process ends between two calls.
Interrupt(s) ==
  /\ Faults
  /\ Running(s)
  /\ rpc' = [rpc EXCEPT ![s] = "done"]
  /\ failed' = [failed EXCEPT ![s] = TRUE]
  /\ UNCHANGED <<vars, seeded, found, todo, current, created, staff>>

-----------------------------------------------------------------------------
(* The script beside the server *)

SeedingInit ==
  /\ Init
  /\ plan \in Plans
  /\ seeded = {}
  /\ rpc = [s \in Run |-> "idle"]
  /\ found = [s \in Run |-> {}] /\ todo = [s \in Run |-> {}]
  /\ current = [s \in Run |-> {}] /\ created = [s \in Run |-> {}]
  /\ staff = [s \in Run |-> {}]
  /\ failed = [s \in Run |-> FALSE]

RunStep ==
  \/ \E s \in Run : FindApproved(s)
  \/ \E s \in Run : \E doc \in todo[s] : CheckInvoice(s, doc)
  \/ \E s \in Run : SeedInvoice(s)
  \/ \E s \in Run : LoopError(s)
  \/ \E s \in Run : FindStaff(s)
  \/ \E s \in Run, p \in Payment, e \in Employee, digits \in RandomDigits :
       SamplePayment(s, p, e, digits)
  \/ \E s \in Run : SampleInvoice(s)
  \/ \E s \in Run : SampleError(s)
  \/ \E s \in Run : Interrupt(s)

SeedingNext ==
  \/ Next /\ UNCHANGED script /\ NoneApart
  \/ RunStep /\ UNCHANGED plan

SeedingSpec == SeedingInit /\ [][SeedingNext]_seedVars
=============================================================================
